-------------------------- MODULE IndexerJobsProofs --------------------------
(***************************************************************************)
(* Safety of the indexer's jobs beside the live poll, for every number of  *)
(* blocks, tokens, logs and failures: the backfills that go over stored    *)
(* blocks, the metadata loop with the snapshot it publishes, the three     *)
(* tables a block's logs go to, and the standalone indexer.  The           *)
(* components share no state, and each has its inductive invariant:        *)
(*                                                                         *)
(*   ScanInv   the cursor in memory, the page and the batch of a backfill, *)
(*             and where the blocks it owes are beside them;               *)
(*   MetaInv   a snapshot's age and the timer together stay below the      *)
(*             longest backoff and the pass so far; a pass is about rows   *)
(*             that have no name yet;                                      *)
(*   SavedInv  what a row of each table tells of its log;                  *)
(*   MainInv   the blocks between the standalone checkpoint and `current`  *)
(*             are in the batch or were answered null: HolesKnown alone is *)
(*             not inductive.  HolesInv covers numbers above the tip, which*)
(*             a checkpoint may be beyond, FillInv follows fill-gaps.ts.   *)
(***************************************************************************)
EXTENDS Backfills, StandaloneBackfill, TokenMetadata, Receipts, LibraryFacts, FiniteSetTheorems, TLAPS

-----------------------------------------------------------------------------
(* Receipts: the rows of a block's logs. *)

\* A row tells how many topics its log has, which keeps the tables apart; a block's
\* logs are stored together; and the page shows all its operations or none.
SavedInv ==
  /\ \A l \in tokenRows : Shape[l].topics = 3
  /\ \A r \in nftRows : Shape[r[1]].topics = 4
  /\ logRows \subseteq Logs
  /\ \A l \in logRows : LogsOf(Shape[l].block) \subseteq logRows
  /\ \A b \in DOMAIN operations : operations[b] # {} =>
       operations[b] = {l \in LogsOf(b) : Shape[l].topic0 = "UserOperationEvent"}

\* extractTokenTransfers takes logs with three topics only.
LEMMA TokenTopics ==
  ASSUME NEW logs, NEW l \in extractTokenTransfers(logs)
  PROVE  Shape[l].topics = 3
BY DEF extractTokenTransfers

\* extractNftTransfers takes logs with four topics only.
LEMMA NftTopics ==
  ASSUME NEW logs, NEW r \in extractNftTransfers(logs)
  PROVE  Shape[r[1]].topics = 4
<1> DEFINE rowsOf(l) ==
      CASE Shape[l].topic0 = "Transfer" -> {0}
        [] Shape[l].topic0 = "TransferSingle" /\ Shape[l].words >= 2 -> {0}
        [] Shape[l].topic0 = "TransferBatch" ->
             {i \in 0..Shape[l].ids : i < Shape[l].ids /\ i < Shape[l].values}
        [] OTHER -> {}
<1>1. extractNftTransfers(logs)
        = UNION {{<<l, i>> : i \in rowsOf(l)} : l \in {k \in logs : Shape[k].topics = 4}}
  BY DEF extractNftTransfers
<1> HIDE DEF rowsOf
<1>2. PICK l \in {k \in logs : Shape[k].topics = 4} : r \in {<<l, i>> : i \in rowsOf(l)}
  BY <1>1
<1>3. PICK i \in rowsOf(l) : r = <<l, i>>
  BY <1>2
<1> QED
  BY <1>2, <1>3

\* A saver's step keeps what the rows tell of their logs.
LEMMA SavedStep == SavedInv /\ [SaversNext]_receiptVars => SavedInv'
<1> SUFFICES ASSUME SavedInv, [SaversNext]_receiptVars PROVE SavedInv'
  OBVIOUS
<1>1. ASSUME UNCHANGED <<tokenRows, nftRows, logRows, operations>> PROVE SavedInv'
  BY <1>1 DEF SavedInv
<1>2. ASSUME NEW j \in Savers, NEW b \in Blocks, Begin(j, b) PROVE SavedInv'
  BY <1>1, <1>2 DEF Begin
<1>3. ASSUME NEW j \in Savers, saveTokenTransfers(j) PROVE SavedInv'
  <2>1. /\ tokenRows' = tokenRows \cup extractTokenTransfers(LogsOf(saver[j].block))
        /\ UNCHANGED <<nftRows, logRows, operations>>
    BY <1>3 DEF saveTokenTransfers
  <2> QED
    BY <2>1, TokenTopics DEF SavedInv
<1>4. ASSUME NEW j \in Savers, saveNftTransfers(j) PROVE SavedInv'
  <2>1. /\ nftRows' = nftRows \cup extractNftTransfers(LogsOf(saver[j].block))
        /\ UNCHANGED <<tokenRows, logRows, operations>>
    BY <1>4 DEF saveNftTransfers
  <2> QED
    BY <2>1, NftTopics DEF SavedInv
<1>5. ASSUME NEW j \in Savers, saveLogs(j) PROVE SavedInv'
  <2>1. /\ logRows' = logRows \cup LogsOf(saver[j].block)
        /\ UNCHANGED <<tokenRows, nftRows, operations>>
    BY <1>5 DEF saveLogs, extractLogs
  <2>2. logRows' \subseteq Logs
    BY <2>1 DEF SavedInv, LogsOf
  <2>3. ASSUME NEW l \in logRows' PROVE LogsOf(Shape[l].block) \subseteq logRows'
    BY <2>1 DEF SavedInv, LogsOf
  <2> QED
    BY <2>1, <2>2, <2>3 DEF SavedInv
<1>6. ASSUME NEW j \in Savers, SaverStops(j) PROVE SavedInv'
  BY <1>1, <1>6 DEF SaverStops
<1>7. ASSUME NEW b \in Blocks, listTransactionUserOperations(b) PROVE SavedInv'
  <2> DEFINE shown == {l \in LogsOf(b) \cap logRows : Shape[l].topic0 = "UserOperationEvent"}
  <2>1. /\ operations' = [operations EXCEPT ![b] = shown]
        /\ UNCHANGED <<tokenRows, nftRows, logRows>>
    BY <1>7 DEF listTransactionUserOperations
  <2>2. ASSUME shown # {}
        PROVE  shown = {l \in LogsOf(b) : Shape[l].topic0 = "UserOperationEvent"}
    <3>1. LogsOf(b) \subseteq logRows
      BY <2>2 DEF SavedInv, LogsOf
    <3> QED
      BY <3>1
  <2> HIDE DEF shown
  <2>3. ASSUME NEW c \in DOMAIN operations', operations'[c] # {}
        PROVE  operations'[c] = {l \in LogsOf(c) : Shape[l].topic0 = "UserOperationEvent"}
    <3>1. DOMAIN operations' = DOMAIN operations
      BY <2>1
    <3>2. CASE c = b
      BY <2>1, <2>2, <2>3, <3>1, <3>2
    <3>3. CASE c # b
      BY <2>1, <2>3, <3>1, <3>3 DEF SavedInv
    <3> QED
      BY <3>2, <3>3
  <2> QED
    BY <2>1, <2>3 DEF SavedInv
<1>8. CASE UNCHANGED receiptVars
  BY <1>1, <1>8 DEF receiptVars
<1> QED
  BY <1>2, <1>3, <1>4, <1>5, <1>6, <1>7, <1>8 DEF SaversNext

\* However the jobs overlap, repeat and die: no log is both a token transfer and an
\* NFT transfer, and a block's logs and user operations are all stored or none.
THEOREM EventStaysInOneTable == ReceiptsSpec => []EventInOneTable
<1>1. ReceiptsInit => SavedInv
  BY DEF ReceiptsInit, SavedInv
<1>2. SavedInv => EventInOneTable
  BY DEF SavedInv, EventInOneTable
<1> QED
  BY <1>1, <1>2, SavedStep, PTL DEF ReceiptsSpec

-----------------------------------------------------------------------------
(* TokenMetadata: the loop, its snapshot and the columns it fills. *)

\* wait is an integer and no more: what the provers know of a power of two.
MetaTypeOK ==
  /\ known \subseteq Tokens
  /\ meta \in [Tokens -> SUBSET Fields]
  /\ logo \in [Tokens -> {"unchecked", "none", "url"}]
  /\ loopAt \in {"down", "timer", "pass"}
  /\ todo \subseteq Tokens /\ script \subseteq Tokens
  /\ level \in 0 .. MaxLevel /\ wait \in Int /\ took \in Nat
  /\ status \in [level : Int, age : Nat]
  /\ published \in BOOLEAN /\ crashes \in 0 .. MaxCrashes

\* A pass is about rows without a name, each of them once.
PassInv ==
  /\ loopAt # "pass" => todo = {}
  /\ \A t \in todo : "name" \notin meta[t]

\* A published snapshot is never older than what the backoff and the pass after it
\* have used of its time.
SnapshotInv ==
  /\ loopAt # "pass" => took = 0
  /\ loopAt # "down" /\ published =>
       /\ status # NoStatus => status.level = level
       /\ BackoffMax + took < StatusTtl =>
            /\ status # NoStatus
            /\ status.age <= BackoffMax + took /\ status.age + wait <= BackoffMax + took

MetaInv == MetaTypeOK /\ PassInv /\ SnapshotInv

\* applyMetadataBackoff stays below its ceiling when its base does, and the level
\* below its own.
LEMMA BackoffBounded ==
  ASSUME NEW base \in Nat, base <= BackoffMax, NEW l \in 0 .. MaxLevel,
         NEW processed, NEW resolved, NEW threw
  PROVE  /\ applyMetadataBackoff(base, l) \in Int
         /\ applyMetadataBackoff(base, l) <= BackoffMax
         /\ nextMetadataBackoffLevel(l, processed, resolved, threw) \in 0 .. MaxLevel
<1>1. 2 ^ l \in Int /\ BackoffMax \in Nat /\ MaxLevel \in Nat
  BY MetadataAssumption
<1>2. base * 2 ^ l \in Int
  BY <1>1
<1>3. applyMetadataBackoff(base, l) \in Int /\ applyMetadataBackoff(base, l) <= BackoffMax
  BY <1>1, <1>2 DEF applyMetadataBackoff, Lesser
<1>4. nextMetadataBackoffLevel(l, processed, resolved, threw) \in 0 .. MaxLevel
  BY <1>1 DEF nextMetadataBackoffLevel, Lesser
<1> QED
  BY <1>3, <1>4

\* Both paces are below the ceiling of the backoff.
LEMMA PacesBounded ==
  ASSUME NEW backlog
  PROVE  /\ Plan(backlog) \in Nat /\ Plan(backlog) <= BackoffMax
         /\ BusyInterval \in Nat /\ BusyInterval <= BackoffMax
BY MetadataAssumption DEF Plan

\* The end of a pass publishes its level with an age of zero, or publishes nothing.
LEMMA PassOverStep ==
  ASSUME MetaInv, NEW l \in 0 .. MaxLevel, NEW delay \in Int, delay <= BackoffMax,
         PassOver(l, delay), UNCHANGED <<known, meta, logo, crashes, script>>
  PROVE  MetaInv'
<1>1. /\ level' = l /\ wait' = delay /\ took' = 0 /\ loopAt' = "timer" /\ todo' = {}
      /\ published' \in BOOLEAN
      /\ published' => status' = [level |-> l, age |-> 0]
      /\ status' \in {[level |-> l, age |-> 0], status}
  BY DEF PassOver
<1>2. MetaTypeOK'
  BY <1>1, MetadataAssumption DEF MetaInv, MetaTypeOK
<1>3. PassInv'
  BY <1>1 DEF PassInv
<1>4. SnapshotInv'
  <2>1. BackoffMax \in Nat /\ MaxLevel \in Nat
    BY MetadataAssumption
  <2>2. ASSUME published'
        PROVE  /\ status' # NoStatus /\ status'.level = level' /\ status'.age = 0
    BY <1>1, <2>1, <2>2 DEF NoStatus
  <2> QED
    BY <1>1, <2>1, <2>2 DEF SnapshotInv
<1> QED
  BY <1>2, <1>3, <1>4 DEF MetaInv

\* Neither a pass, nor the timer, nor a restart lets a live loop's snapshot expire.
LEMMA MetaStep == MetaInv /\ [MetaNext]_metaVars => MetaInv'
<1> SUFFICES ASSUME MetaInv, [MetaNext]_metaVars PROVE MetaInv'
  OBVIOUS
<1> USE MetadataAssumption
<1>0. /\ BackoffMax \in Nat /\ MaxLevel \in Nat /\ StatusTtl \in Nat
      /\ MaxCrashes \in Nat
  OBVIOUS
<1>1. CASE LoopStart
  <2>1. /\ loopAt = "down" /\ loopAt' = "timer" /\ wait' = 0 /\ level' = 0 /\ published' = FALSE
        /\ UNCHANGED <<known, meta, logo, todo, took, status, crashes, script>>
    BY <1>1 DEF LoopStart
  <2>2. level' \in 0 .. MaxLevel /\ wait' \in Int
    BY <1>0, <2>1
  <2>3. MetaTypeOK'
    BY <2>1, <2>2, Zenon DEF MetaInv, MetaTypeOK
  <2> QED
    BY <2>1, <2>3 DEF MetaInv, PassInv, SnapshotInv
<1>2. CASE PassBegin
  <2>1. loopAt = "timer" /\ wait = 0 /\ UNCHANGED <<known, meta, logo, crashes, script>>
    BY <1>2 DEF PassBegin
  <2>2. ASSUME NEW l, l = nextMetadataBackoffLevel(level, 0, 0, TRUE),
               PassOver(l, applyMetadataBackoff(BusyInterval, l))
        PROVE  MetaInv'
    <3>1. l \in 0 .. MaxLevel
      BY <2>2, BackoffBounded, PacesBounded DEF MetaInv, MetaTypeOK
    <3>2. applyMetadataBackoff(BusyInterval, l) \in Int
          /\ applyMetadataBackoff(BusyInterval, l) <= BackoffMax
      BY <3>1, BackoffBounded, PacesBounded
    <3> QED
      BY <2>1, <2>2, <3>1, <3>2, PassOverStep
  <2>3. ASSUME PassOver(0, Plan(0)) PROVE MetaInv'
    <3>1. 0 \in 0 .. MaxLevel /\ Plan(0) \in Int /\ Plan(0) <= BackoffMax
      BY PacesBounded
    <3> QED
      BY <2>1, <2>3, <3>1, PassOverStep
  <2>4. ASSUME todo' \in kSubset(Lesser(Limit, Cardinality(Pending)), Pending),
               loopAt' = "pass", UNCHANGED <<level, wait, took, status, published>>
        PROVE  MetaInv'
    <3>1. todo' \subseteq Pending
      BY <2>4 DEF kSubset
    <3>2. MetaTypeOK' /\ PassInv'
      BY <2>1, <2>4, <3>1 DEF MetaInv, MetaTypeOK, PassInv, Pending
    <3>3. SnapshotInv'
      BY <2>1, <2>4 DEF MetaInv, MetaTypeOK, SnapshotInv
    <3> QED
      BY <3>2, <3>3 DEF MetaInv
  <2> QED
    BY <1>2, <2>2, <2>3, <2>4 DEF PassBegin
<1>3. CASE PassEnd
  <2>1. loopAt = "pass" /\ UNCHANGED <<known, meta, logo, crashes, script>>
    BY <1>3 DEF PassEnd
  <2>2. ASSUME NEW base \in Nat, base <= BackoffMax,
               NEW processed, NEW resolved, NEW threw, NEW l,
               l = nextMetadataBackoffLevel(level, processed, resolved, threw),
               PassOver(l, applyMetadataBackoff(base, l))
        PROVE  MetaInv'
    <3>1. l \in 0 .. MaxLevel
      BY <2>2, BackoffBounded DEF MetaInv, MetaTypeOK
    <3>2. applyMetadataBackoff(base, l) \in Int /\ applyMetadataBackoff(base, l) <= BackoffMax
      BY <2>2, <3>1, BackoffBounded
    <3> QED
      BY <2>1, <2>2, <3>1, <3>2, PassOverStep
  <2>3. CASE \E l : /\ l = nextMetadataBackoffLevel(level, outcome.processed, outcome.resolved, FALSE)
                    /\ PassOver(l, applyMetadataBackoff(Plan(1), l))
    BY <2>2, <2>3, PacesBounded
  <2>4. CASE \E l : /\ l = nextMetadataBackoffLevel(level, 0, 0, TRUE)
                    /\ PassOver(l, applyMetadataBackoff(BusyInterval, l))
    BY <2>2, <2>4, PacesBounded
  <2> QED
    BY <1>3, <2>3, <2>4 DEF PassEnd
<1>4. CASE IndexerDies
  <2>1. /\ loopAt' = "down" /\ todo' = {} /\ wait' = 0 /\ took' = 0 /\ published' = FALSE
        /\ crashes < MaxCrashes /\ crashes' = crashes + 1
        /\ UNCHANGED <<known, meta, logo, level, status, script>>
    BY <1>4 DEF IndexerDies
  <2>2. crashes' \in 0 .. MaxCrashes /\ wait' \in Int
    BY <1>0, <2>1 DEF MetaInv, MetaTypeOK
  <2>3. MetaTypeOK'
    BY <2>1, <2>2, Zenon DEF MetaInv, MetaTypeOK
  <2> QED
    BY <2>1, <2>3 DEF MetaInv, PassInv, SnapshotInv
<1>5. CASE Tick
  <2>1. /\ loopAt # "timer" \/ wait > 0
        /\ wait' = (IF wait > 0 THEN wait - 1 ELSE 0)
        /\ took' = (IF loopAt = "pass" THEN Lesser(took + 1, StatusTtl) ELSE 0)
        /\ UNCHANGED <<known, meta, logo, loopAt, todo, level, crashes, script, published>>
    BY <1>5 DEF Tick
  <2>2. status' \in {NoStatus, [status EXCEPT !.age = @ + 1]}
        /\ (status.age + 1 < StatusTtl /\ status # NoStatus
              => status' = [status EXCEPT !.age = @ + 1])
    BY <1>5 DEF Tick, MetaInv, MetaTypeOK
  <2>3. took' \in Nat
    BY <1>0, <2>1 DEF MetaInv, MetaTypeOK, Lesser
  <2>4. MetaTypeOK'
    BY <2>1, <2>2, <2>3 DEF MetaInv, MetaTypeOK, NoStatus
  <2>5. status'.level = status.level \/ status' = NoStatus
    BY <2>2 DEF MetaInv, MetaTypeOK
  <2>6. ASSUME loopAt # "down", published, BackoffMax + took' < StatusTtl
        PROVE  /\ status' # NoStatus
               /\ status'.age <= BackoffMax + took'
               /\ status'.age + wait' <= BackoffMax + took'
    <3>1. /\ took \in Nat /\ wait \in Int /\ status.age \in Nat /\ status \in [level : Int, age : Nat]
      BY DEF MetaInv, MetaTypeOK
    <3>2. took' = (IF loopAt = "pass" THEN took + 1 ELSE took)
          /\ (loopAt = "pass" => took + 1 \in Nat)
      BY <1>0, <2>1, <2>6, <3>1 DEF MetaInv, SnapshotInv, Lesser
    <3>3. BackoffMax + took < StatusTtl
      BY <1>0, <2>6, <3>1, <3>2
    <3>4. status # NoStatus /\ status.level = level /\ level \in 0 .. MaxLevel
          /\ status.age <= BackoffMax + took /\ status.age + wait <= BackoffMax + took
      BY <2>6, <3>3 DEF MetaInv, MetaTypeOK, SnapshotInv
    <3>5. status.age + 1 < StatusTtl
      <4>1. CASE loopAt = "pass"
        BY <1>0, <2>6, <3>1, <3>2, <3>4, <4>1
      <4>2. CASE loopAt # "pass"
        <5>1. wait > 0
          BY <2>1, <2>6, <4>2 DEF MetaInv, MetaTypeOK
        <5> QED
          BY <1>0, <2>6, <3>1, <3>3, <3>4, <5>1
      <4> QED
        BY <4>1, <4>2
    <3>6. status' = [status EXCEPT !.age = @ + 1]
      BY <2>2, <3>4, <3>5
    <3>7. status'.age = status.age + 1 /\ status'.level = status.level
      BY <3>1, <3>6
    <3>8. status' # NoStatus
      BY <1>0, <3>4, <3>7 DEF NoStatus
    <3>9. status'.age <= BackoffMax + took' /\ status'.age + wait' <= BackoffMax + took'
      <4>1. CASE loopAt = "pass"
        BY <1>0, <2>1, <3>1, <3>2, <3>4, <3>7, <4>1
      <4>2. CASE loopAt # "pass"
        <5>1. wait > 0 /\ wait' = wait - 1
          BY <2>1, <2>6, <4>2 DEF MetaInv, MetaTypeOK
        <5> QED
          BY <1>0, <3>1, <3>2, <3>4, <3>7, <4>2, <5>1
      <4> QED
        BY <4>1, <4>2
    <3> QED
      BY <3>8, <3>9
  <2>7. status' # NoStatus => status # NoStatus
    BY <1>5 DEF Tick
  <2>8. SnapshotInv'
    <3>1. loopAt' # "pass" => took' = 0
      BY <2>1
    <3>2. loopAt' # "down" /\ published' /\ status' # NoStatus => status'.level = level'
      BY <2>1, <2>5, <2>7 DEF MetaInv, SnapshotInv
    <3> QED
      BY <2>1, <2>6, <3>1, <3>2 DEF SnapshotInv
  <2>9. PassInv'
    BY <2>1 DEF MetaInv, PassInv
  <2> QED
    BY <2>4, <2>8, <2>9 DEF MetaInv
<1>6. CASE LogoPage
  BY <1>6 DEF LogoPage, Unchecked, MetaInv, MetaTypeOK, PassInv, SnapshotInv
<1>7. ASSUME NEW t \in Tokens, ResolveToken(t) PROVE MetaInv'
  <2>1. PICK got \in SUBSET Exposed[t], answer \in LogoAnswers :
          /\ meta' = [meta EXCEPT ![t] = got]
          /\ logo' = [logo EXCEPT ![t] = LogoAfter(t, answer)]
    BY <1>7 DEF ResolveToken
  <2>2. /\ loopAt = "pass" /\ t \in todo /\ todo' = todo \ {t}
        /\ UNCHANGED <<known, loopAt, level, wait, took, status, crashes, script, published>>
    BY <1>7 DEF ResolveToken
  <2>3. MetaTypeOK'
    BY <2>1, <2>2 DEF MetaInv, MetaTypeOK, LogoAnswers, LogoAfter
  <2>4. PassInv'
    BY <2>1, <2>2 DEF MetaInv, MetaTypeOK, PassInv
  <2>5. SnapshotInv'
    BY <2>2 DEF MetaInv, SnapshotInv
  <2> QED
    BY <2>3, <2>4, <2>5 DEF MetaInv
<1>8. ASSUME NEW t \in Tokens, NewToken(t) PROVE MetaInv'
  BY <1>8 DEF NewToken, MetaInv, MetaTypeOK, PassInv, SnapshotInv
<1>9. ASSUME NEW t \in Tokens, LogoRow(t) PROVE MetaInv'
  <2>1. PICK answer \in LogoAnswers : logo' = [logo EXCEPT ![t] = LogoAfter(t, answer)]
    BY <1>9 DEF LogoRow
  <2>2. /\ script' = script \ {t}
        /\ UNCHANGED <<known, meta, loopAt, todo, level, wait, took, status, crashes, published>>
    BY <1>9 DEF LogoRow
  <2>3. MetaTypeOK'
    BY <2>1, <2>2 DEF MetaInv, MetaTypeOK, LogoAnswers, LogoAfter
  <2>4. PassInv' /\ SnapshotInv'
    BY <2>2 DEF MetaInv, PassInv, SnapshotInv
  <2> QED
    BY <2>3, <2>4 DEF MetaInv
<1>10. CASE UNCHANGED metaVars
  BY <1>10 DEF metaVars, MetaInv, MetaTypeOK, PassInv, SnapshotInv
<1> QED
  BY <1>1, <1>2, <1>3, <1>4, <1>5, <1>6, <1>7, <1>8, <1>9, <1>10 DEF MetaNext

\* So it is for every behaviour of the loop.
LEMMA MetaInvariance == MetaSpec => []MetaInv
<1>1. MetaInit => MetaInv
  <2> SUFFICES ASSUME MetaInit PROVE MetaInv
    OBVIOUS
  <2>1. MetaTypeOK
    <3>1. known \subseteq Tokens /\ todo \subseteq Tokens /\ script \subseteq Tokens
      BY DEF MetaInit
    <3>2. meta \in [Tokens -> SUBSET Fields] /\ logo \in [Tokens -> {"unchecked", "none", "url"}]
      BY DEF MetaInit
    <3>3. level \in 0 .. MaxLevel /\ crashes \in 0 .. MaxCrashes /\ wait \in Int
      BY MetadataAssumption DEF MetaInit
    <3>4. status \in [level : Int, age : Nat]
      BY DEF MetaInit, NoStatus
    <3> QED
      BY <3>1, <3>2, <3>3, <3>4 DEF MetaInit, MetaTypeOK
  <2> QED
    BY <2>1 DEF MetaInit, MetaInv, PassInv, SnapshotInv
<1> QED
  BY <1>1, MetaStep, PTL DEF MetaSpec

\* A snapshot that reached Redis outlasts the longest backoff and as much of the pass
\* after it as the TTL leaves: while the indexer runs it is there that long, and it
\* never shows another level than the loop's.
THEOREM StatusAlwaysOutlasts == MetaSpec => []StatusOutlasts
<1>1. MetaInv => StatusOutlasts
  BY DEF MetaInv, MetaTypeOK, SnapshotInv, StatusOutlasts, NoStatus
<1> QED
  BY <1>1, MetaInvariance, PTL

\* A name that was found stays, and a logo that was checked is never unchecked again.
THEOREM ResolvedAlwaysStays == MetaSpec => ResolvedStays
<1> DEFINE Stays ==
      \A t \in Tokens :
        /\ "name" \in meta[t] => "name" \in meta'[t]
        /\ logo[t] # "unchecked" => logo'[t] # "unchecked"
<1>1. ASSUME MetaInv, [MetaNext]_metaVars PROVE [Stays]_metaVars
  <2>1. ASSUME UNCHANGED <<meta, logo>> PROVE Stays
    BY <2>1
  <2>2. ASSUME NEW t \in Tokens, ResolveToken(t) PROVE Stays
    <3>1. PICK got \in SUBSET Exposed[t], answer \in LogoAnswers :
            /\ meta' = [meta EXCEPT ![t] = got]
            /\ logo' = [logo EXCEPT ![t] = LogoAfter(t, answer)]
      BY <2>2 DEF ResolveToken
    <3>2. "name" \notin meta[t]
      BY <1>1, <2>2 DEF ResolveToken, MetaInv, PassInv
    <3> QED
      BY <1>1, <3>1, <3>2 DEF MetaInv, MetaTypeOK, LogoAfter
  <2>3. ASSUME NEW t \in Tokens, LogoRow(t) PROVE Stays
    <3>1. PICK answer \in LogoAnswers : logo' = [logo EXCEPT ![t] = LogoAfter(t, answer)]
      BY <2>3 DEF LogoRow
    <3>2. UNCHANGED meta
      BY <2>3 DEF LogoRow
    <3> QED
      BY <1>1, <3>1, <3>2 DEF MetaInv, MetaTypeOK, LogoAfter
  <2>4. CASE LoopStart \/ PassBegin \/ PassEnd \/ IndexerDies \/ Tick \/ LogoPage
    BY <2>1, <2>4 DEF LoopStart, PassBegin, PassEnd, IndexerDies, Tick, LogoPage
  <2>5. ASSUME NEW t \in Tokens, NewToken(t) PROVE Stays
    BY <2>1, <2>5 DEF NewToken
  <2> HIDE DEF Stays
  <2> QED
    BY <1>1, <2>2, <2>3, <2>4, <2>5 DEF MetaNext
<1>2. MetaSpec => [][Stays]_metaVars
  <2> HIDE DEF Stays
  <2> QED
    BY <1>1, MetaInvariance, PTL DEF MetaSpec
<1> QED
  BY <1>2 DEF ResolvedStays

-----------------------------------------------------------------------------
(* Backfills: the walk over stored blocks. *)

\* What a job owes is in front of its persisted cursor; a job that keeps none starts
\* over.
CursorInv ==
  /\ \A b \in owed : b \in InFront(cursor, MaxBlock)
  /\ kind # "receipts" /\ ~Jobs[kind].keeps => cursor = NoBlock

\* Which locals a job has where it is.
PlaceInv ==
  /\ kind = "receipts" => at \notin {"page", "run"} /\ owed = {}
  /\ kind # "receipts" => at \notin {"query", "receipts"}
  /\ at \notin {"run", "receipts"} => page = {}
  /\ at # "run" => batch = {} /\ last = NoBlock
  /\ at = "run" /\ last = NoBlock => batch = {} /\ page # {}
  /\ at = "ended" => owed = {}

\* What a running job owes is in front of its cursor in memory, or in the page or the
\* batch, or beyond both.
OwedInv ==
  /\ at \in {"page", "run"} => \A b \in owed : b <= bound
  /\ at = "page" => \A b \in owed : b \in InFront(pos, bound)
  /\ at = "run" =>
       /\ \A b \in owed \ (page \cup batch) : \A x \in page \cup batch : Before(x, b)
       /\ last # NoBlock => \A b \in page \cup (owed \ batch) : Before(last, b)

ScanInv == ScanTypeOK /\ CursorInv /\ PlaceInv /\ OwedInv

\* The table of the jobs: who is bounded walks up.
LEMMA JobFields ==
  ASSUME NEW k \in Kinds, k # "receipts"
  PROVE  /\ Jobs[k].tasks \in Nat \ {0}
         /\ Jobs[k].bounded => Jobs[k].up
<1>1. k \in {"nft", "script", "logs", "internal"}
  BY DEF Kinds, Jobs
<1>2. Jobs.nft = backfillNftTransfers /\ Jobs.script = nftScript
      /\ Jobs.logs = backfillLogs /\ Jobs.internal = backfillLogs
  BY DEF Jobs, backfillInternalTx
<1>3. backfillNftTransfers.tasks = 1 /\ backfillNftTransfers.up
  BY DEF backfillNftTransfers
<1>4. nftScript.tasks = 1 /\ nftScript.up
  BY DEF nftScript, backfillNftTransfers
<1>5. backfillLogs.tasks = Parallel /\ ~backfillLogs.bounded
  BY DEF backfillLogs
<1> QED
  BY <1>1, <1>2, <1>3, <1>4, <1>5, BackfillsAssumption

\* The order of a walk.
LEMMA BeforeIsOrder ==
  /\ \A x, y, z \in Int : Before(x, y) /\ Before(y, z) => Before(x, z)
  /\ \A x, y \in Int : x = y \/ Before(x, y) \/ Before(y, x)
  /\ \A x \in Int : ~Before(x, x)
BY DEF Before

\* LastOf is the end of a set of blocks, and some element is the first.
LEMMA Ends ==
  ASSUME NEW S \in SUBSET Stored, S # {}
  PROVE  /\ LastOf(S) \in S /\ \A y \in S : y = LastOf(S) \/ Before(y, LastOf(S))
         /\ \E x \in S : \A y \in S : y = x \/ Before(x, y)
<1>1. S \subseteq 0 .. MaxBlock /\ S \subseteq Nat /\ MaxBlock \in Nat
  BY BackfillsAssumption DEF Stored
<1>2. Max(S) \in S /\ \A y \in S : Max(S) >= y
  BY <1>1, MaxOf
<1>3. Min(S) \in S /\ \A y \in S : Min(S) <= y
  BY <1>1, MinOf
<1>4. ASSUME NEW y \in S
      PROVE  /\ y = Max(S) \/ (y < Max(S) /\ Max(S) > y)
             /\ y = Min(S) \/ (Min(S) < y /\ y > Min(S))
  <2>1. y \in Nat /\ Max(S) \in Nat /\ Min(S) \in Nat
    BY <1>1, <1>2, <1>3, <1>4, Zenon
  <2>2. Max(S) >= y /\ Min(S) <= y
    BY <1>2, <1>3, <1>4, Zenon
  <2> QED
    BY <2>1, <2>2
<1>5. CASE Ascending
  <2>1. LastOf(S) = Max(S) /\ \A x, y : Before(x, y) <=> x < y
    BY <1>5, Zenon DEF LastOf, Before
  <2> QED
    BY <1>2, <1>3, <1>4, <2>1, Zenon
<1>6. CASE ~Ascending
  <2>1. LastOf(S) = Min(S) /\ \A x, y : Before(x, y) <=> x > y
    BY <1>6, Zenon DEF LastOf, Before
  <2> QED
    BY <1>2, <1>3, <1>4, <2>1, Zenon
<1> QED
  BY <1>5, <1>6

\* FirstOf is an initial part of a set of blocks, and not empty.
LEMMA FirstOfIsInitial ==
  ASSUME NEW S \in SUBSET Stored, S # {}, NEW n \in Nat \ {0}
  PROVE  /\ FirstOf(S, n) \subseteq S /\ FirstOf(S, n) # {}
         /\ \A x \in FirstOf(S, n), y \in S \ FirstOf(S, n) : Before(x, y)
<1> DEFINE below(b) == {c \in S : Before(c, b)}
<1>1. IsFiniteSet(S) /\ S \subseteq Int
  <2>1. IsFiniteSet(Stored) /\ Stored \subseteq Int
    BY BackfillsAssumption, FS_Interval DEF Stored
  <2> QED
    BY <2>1, FS_Subset
<1>2. FirstOf(S, n) = {b \in S : Cardinality(below(b)) < n}
  BY DEF FirstOf
<1>3. FirstOf(S, n) # {}
  <2>1. PICK x \in S : \A y \in S : y = x \/ Before(x, y)
    BY Ends
  <2>2. below(x) = {}
    BY <1>1, <2>1, BeforeIsOrder
  <2>3. Cardinality(below(x)) = 0
    BY <2>2, FS_EmptySet
  <2> HIDE DEF below
  <2> QED
    BY <1>2, <2>3
<1>4. ASSUME NEW x \in FirstOf(S, n), NEW y \in S \ FirstOf(S, n)
      PROVE  Before(x, y)
  <2>1. x \in S /\ y \in S /\ x # y /\ x \in Int /\ y \in Int
    BY <1>1, <1>2
  <2>2. ASSUME Before(y, x) PROVE FALSE
    <3>1. below(y) \subseteq below(x)
      BY <1>1, <2>1, <2>2, BeforeIsOrder
    <3>2. IsFiniteSet(below(x)) /\ IsFiniteSet(below(y))
      <4>1. below(x) \in SUBSET S /\ below(y) \in SUBSET S
        OBVIOUS
      <4> HIDE DEF below
      <4> QED
        BY <1>1, <4>1, FS_Subset
    <3> HIDE DEF below
    <3>3. Cardinality(below(y)) <= Cardinality(below(x))
          /\ Cardinality(below(y)) \in Nat /\ Cardinality(below(x)) \in Nat
      BY <3>1, <3>2, FS_Subset, FS_CardinalityType
    <3>4. Cardinality(below(x)) < n /\ ~(Cardinality(below(y)) < n)
      BY <1>2, <2>1, <1>4
    <3> QED
      BY <3>3, <3>4
  <2> QED
    BY <2>1, <2>2, BeforeIsOrder
<1> QED
  BY <1>2, <1>3, <1>4

\* What is in front of a cursor, in the order of the walk.
LEMMA InFrontMeans ==
  ASSUME NEW c \in Stored \cup {NoBlock}, NEW top, NEW b \in Stored
  PROVE  b \in InFront(c, top) <=>
           b \in rows /\ (c = NoBlock \/ Before(c, b)) /\ (Ascending => b <= top)
BY DEF InFront, Before, NoBlock, Stored

\* The job's locals are gone: nothing is left to say of them.
LEMMA OverStep ==
  ASSUME ScanInv, NEW place \in {"off", "ended"}, JobOver(place),
         UNCHANGED <<kind, rows, cursor, owed>>, derived' \subseteq rows,
         rejects' \in 0 .. MaxRejects, place = "ended" => owed = {}
  PROVE  ScanInv'
<1>1. /\ at' = place /\ pos' = NoBlock /\ bound' = MaxBlock /\ page' = {} /\ batch' = {}
      /\ last' = NoBlock /\ updated' = FALSE /\ partial' = FALSE
  BY DEF JobOver
<1>2. ScanTypeOK'
  <2>1. bound' \in 0 .. MaxBlock
    BY <1>1, BackfillsAssumption
  <2>2. page' \subseteq rows' /\ batch' \subseteq rows' /\ page' \cap batch' = {}
        /\ pos' \in rows' \cup {NoBlock} /\ last' \in rows' \cup {NoBlock}
    BY <1>1
  <2>3. at' \in {"off", "ended"} /\ updated' \in BOOLEAN /\ partial' \in BOOLEAN
    BY <1>1
  <2> QED
    BY <2>1, <2>2, <2>3 DEF ScanInv, ScanTypeOK
<1>3. CursorInv'
  BY DEF ScanInv, CursorInv, InFront, Ascending
<1>4. PlaceInv' /\ OwedInv'
  BY <1>1 DEF ScanInv, PlaceInv, OwedInv
<1> QED
  BY <1>2, <1>3, <1>4 DEF ScanInv

\* What a job finds in front of its cursor when it starts is owed, and in front of it;
\* what it owed before still is.
LEMMA LaunchStep ==
  ASSUME ScanInv, Launch
  PROVE  ScanInv'
<1> DEFINE top == IF Jobs[kind].bounded THEN Max(rows \cup {NoBlock}) ELSE MaxBlock
<1>1. /\ at \in {"off", "ended"} /\ kind # "receipts"
      /\ bound' = top /\ owed' = owed \cup InFront(cursor, top)
      /\ pos' = cursor /\ at' = "page"
      /\ UNCHANGED <<kind, rows, derived, cursor, page, batch, last, updated, partial>>
      /\ UNCHANGED rejects
  BY DEF Launch
<1>2. ScanTypeOK /\ CursorInv /\ PlaceInv
  BY DEF ScanInv
<1>3. rows \subseteq Stored /\ cursor \in Stored \cup {NoBlock} /\ owed \subseteq rows
  BY <1>2 DEF ScanTypeOK
<1>4. top \in 0 .. MaxBlock /\ \A b \in rows : b <= top
  <2>1. rows \cup {NoBlock} \subseteq 0 .. MaxBlock /\ MaxBlock \in Nat
    BY <1>3, BackfillsAssumption DEF Stored, NoBlock
  <2>2. Max(rows \cup {NoBlock}) \in rows \cup {NoBlock}
        /\ \A y \in rows \cup {NoBlock} : Max(rows \cup {NoBlock}) >= y
    BY <2>1, MaxOf
  <2> DEFINE m == Max(rows \cup {NoBlock})
  <2>3. m \in 0 .. MaxBlock /\ \A b \in rows : m >= b
    BY <2>1, <2>2, Zenon
  <2>4. \A b \in rows : b <= MaxBlock /\ b <= m
    <3> HIDE DEF m
    <3> QED BY <2>1, <2>3
  <2> HIDE DEF m
  <2>5. top \in {m, MaxBlock}
    BY DEF m
  <2> QED
    BY <2>1, <2>3, <2>4, <2>5
<1> HIDE DEF top
<1>5. ASSUME NEW b \in owed'
      PROVE  b \in InFront(cursor, MaxBlock) /\ b \in InFront(cursor, top) /\ b <= top
  <2>1. b \in rows /\ b \in Stored /\ b <= top /\ b <= MaxBlock
    <3>1. b \in rows
      BY <1>1, <1>3 DEF InFront
    <3> QED
      BY <1>3, <1>4, <3>1, BackfillsAssumption DEF Stored
  <2>2. cursor = NoBlock \/ Before(cursor, b)
    <3>1. CASE b \in owed
      BY <1>2, <1>3, <2>1, <3>1, InFrontMeans DEF CursorInv
    <3>2. CASE b \in InFront(cursor, top)
      BY <1>3, <2>1, <3>2, InFrontMeans
    <3> QED
      BY <1>1, <3>1, <3>2
  <2> QED
    BY <1>3, <2>1, <2>2, InFrontMeans
<1>6. ScanTypeOK'
  <2>1. owed' \subseteq rows
    BY <1>5 DEF InFront
  <2> QED
    BY <1>1, <1>2, <1>4, <2>1 DEF ScanTypeOK
<1>7. \A c, t : InFront(c, t)' = InFront(c, t)
  BY <1>1 DEF InFront, Ascending
<1>8. CursorInv'
  BY <1>1, <1>2, <1>5, <1>7 DEF CursorInv, InFront, Ascending
<1>9. PlaceInv'
  BY <1>1, <1>2 DEF PlaceInv
<1>10. OwedInv'
  BY <1>1, <1>5 DEF OwedInv, InFront, Ascending
<1> QED
  BY <1>6, <1>8, <1>9, <1>10 DEF ScanInv

\* The page is the first part of what is in front of the cursor.
LEMMA ReadPageStep ==
  ASSUME ScanInv, ReadPage
  PROVE  ScanInv'
<1> DEFINE rest == InFront(pos, bound)
<1>1. /\ at = "page" /\ kind # "receipts"
      /\ UNCHANGED <<kind, rows, derived, cursor, rejects, owed>>
      /\ IF rest = {} THEN JobOver("ended")
         ELSE /\ page' = FirstOf(rest, PageSize)
              /\ at' = "run"
              /\ UNCHANGED <<pos, bound, batch, last, updated, partial>>
  BY DEF ReadPage
<1>2. ScanTypeOK /\ CursorInv /\ PlaceInv /\ OwedInv
  BY DEF ScanInv
<1>3. rest \in SUBSET Stored /\ rest \subseteq rows /\ owed \subseteq rest
  BY <1>1, <1>2 DEF ScanTypeOK, OwedInv, InFront
<1>4. CASE rest = {}
  <2>1. owed = {}
    BY <1>3, <1>4
  <2> QED
    BY <1>1, <1>2, <1>4, <2>1, OverStep DEF ScanTypeOK
<1>5. CASE rest # {}
  <2>1. /\ page' = FirstOf(rest, PageSize) /\ at' = "run"
        /\ UNCHANGED <<kind, rows, derived, cursor, rejects, owed, pos, bound, batch, last>>
        /\ UNCHANGED <<updated, partial>>
    BY <1>1, <1>5
  <2> HIDE DEF rest
  <2>2. /\ page' \subseteq rest /\ page' # {}
        /\ \A x \in page', y \in rest \ page' : Before(x, y)
    BY <1>3, <1>5, <2>1, FirstOfIsInitial, BackfillsAssumption
  <2>3. batch = {} /\ last = NoBlock
    BY <1>1, <1>2 DEF PlaceInv
  <2>4. ScanTypeOK'
    BY <1>2, <1>3, <2>1, <2>2, <2>3 DEF ScanTypeOK
  <2>5. CursorInv'
    BY <1>2, <2>1 DEF CursorInv, InFront, Ascending
  <2>6. PlaceInv'
    BY <1>1, <1>2, <2>1, <2>2, <2>3 DEF PlaceInv
  <2>7. OwedInv'
    <3>1. \A b \in owed' \ (page' \cup batch') : \A x \in page' \cup batch' : Before(x, b)'
      BY <1>3, <2>1, <2>2, <2>3 DEF Before, Ascending
    <3> QED
      BY <1>1, <1>2, <2>1, <2>3, <3>1 DEF OwedInv
  <2> QED
    BY <2>4, <2>5, <2>6, <2>7 DEF ScanInv
<1> QED
  BY <1>4, <1>5

\* The batch is the first part of the page, and its last block is before the rest.
LEMMA StartBatchStep ==
  ASSUME ScanInv, StartBatch
  PROVE  ScanInv'
<1>1. /\ at = "run" /\ batch = {} /\ last = NoBlock
      /\ batch' = FirstOf(page, Jobs[kind].tasks)
      /\ last' = LastOf(batch)' /\ page' = page \ batch'
      /\ UNCHANGED <<kind, rows, derived, cursor, at, pos, bound, updated, partial>>
      /\ UNCHANGED <<rejects, owed>>
  BY DEF StartBatch, LastOf, Ascending
<1>2. ScanTypeOK /\ CursorInv /\ PlaceInv /\ OwedInv
  BY DEF ScanInv
<1>3. kind \in Kinds /\ kind # "receipts" /\ page # {} /\ page \in SUBSET Stored
      /\ page \subseteq rows /\ owed \subseteq rows /\ rows \subseteq Stored
  BY <1>1, <1>2 DEF ScanTypeOK, PlaceInv
<1>4. /\ batch' \subseteq page /\ batch' # {}
      /\ \A x \in batch', y \in page \ batch' : Before(x, y)
  BY <1>1, <1>3, FirstOfIsInitial, JobFields
<1>5. last' \in batch'
  <2>1. batch' \in SUBSET Stored /\ batch' # {}
    BY <1>3, <1>4
  <2>2. LastOf(batch') \in batch'
    BY <2>1, Ends
  <2>3. LastOf(batch)' = LastOf(batch')
    BY <1>1 DEF LastOf, Ascending
  <2> QED
    BY <1>1, <2>2, <2>3
<1>6. \A x, y : Before(x, y)' <=> Before(x, y)
  BY <1>1 DEF Before, Ascending
<1>7. ScanTypeOK'
  BY <1>1, <1>2, <1>3, <1>4, <1>5 DEF ScanTypeOK
<1>8. CursorInv'
  BY <1>1, <1>2 DEF CursorInv, InFront, Ascending
<1>9. PlaceInv'
  <2>1. last' # NoBlock
    BY <1>3, <1>4, <1>5, BackfillsAssumption DEF Stored, NoBlock
  <2> QED
    BY <1>1, <1>2, <1>3, <2>1 DEF PlaceInv
<1>10. OwedInv'
  <2>1. page' \cup batch' = page
    BY <1>1, <1>4
  <2>2. \A b \in owed' \ (page' \cup batch') : \A x \in page' \cup batch' : Before(x, b)
    BY <1>1, <1>2, <2>1 DEF OwedInv
  <2>3. ASSUME NEW b \in page' \cup (owed' \ batch') PROVE Before(last', b)
    <3>1. CASE b \in page'
      BY <1>1, <1>4, <1>5, <3>1
    <3>2. CASE b \in owed' \ (page' \cup batch')
      BY <1>5, <2>2, <3>2
    <3> QED
      BY <2>3, <3>1, <3>2
  <2>4. \A b \in owed' : b <= bound'
    BY <1>1, <1>2 DEF OwedInv
  <2> QED
    BY <1>1, <1>6, <2>2, <2>3, <2>4 DEF OwedInv
<1> QED
  BY <1>7, <1>8, <1>9, <1>10 DEF ScanInv

\* A block that has been tried is owed no more.
LEMMA ScanBlockStep ==
  ASSUME ScanInv, NEW b \in Stored, Scan(b)
  PROVE  ScanInv'
<1>1. /\ b \in batch /\ batch' = batch \ {b} /\ owed' = owed \ {b}
      /\ derived' \in {derived, derived \cup {b}}
      /\ UNCHANGED <<kind, rows, cursor, at, pos, bound, page, last, updated, partial>>
  BY DEF Scan
<1>2. ScanTypeOK /\ CursorInv /\ PlaceInv /\ OwedInv
  BY DEF ScanInv
<1>3. rejects' \in 0 .. MaxRejects
  BY <1>2, BackfillsAssumption DEF Scan, Reject, ScanTypeOK
<1>4. ScanTypeOK'
  BY <1>1, <1>2, <1>3 DEF ScanTypeOK
<1>5. CursorInv'
  BY <1>1, <1>2 DEF CursorInv, InFront, Ascending
<1>6. at = "run" /\ last # NoBlock
  BY <1>1, <1>2 DEF PlaceInv
<1>7. PlaceInv'
  BY <1>1, <1>2, <1>6 DEF PlaceInv
<1>8. OwedInv'
  <2>1. owed' \ (page' \cup batch') \subseteq owed \ (page \cup batch)
        /\ page' \cup batch' \subseteq page \cup batch
        /\ page' \cup (owed' \ batch') \subseteq page \cup (owed \ batch)
    BY <1>1
  <2>2. \A x, y : Before(x, y)' <=> Before(x, y)
    BY <1>1 DEF Before, Ascending
  <2> QED
    BY <1>1, <1>2, <1>6, <2>1, <2>2 DEF OwedInv
<1> QED
  BY <1>4, <1>5, <1>7, <1>8 DEF ScanInv

\* The cursor moves to the last block of a batch that has been tried.
LEMMA CursorStep ==
  ASSUME ScanInv, Checkpoint
  PROVE  ScanInv'
<1>1. /\ at = "run" /\ last # NoBlock /\ batch = {}
      /\ cursor' = (IF Jobs[kind].keeps THEN last ELSE cursor)
      /\ at' = (IF page = {} THEN "page" ELSE "run")
      /\ pos' = (IF page = {} THEN last ELSE pos)
      /\ last' = NoBlock
      /\ UNCHANGED <<kind, rows, derived, bound, page, batch, updated, partial>>
      /\ UNCHANGED <<rejects, owed>>
  BY DEF Checkpoint
<1>2. ScanTypeOK /\ CursorInv /\ PlaceInv /\ OwedInv
  BY DEF ScanInv
<1>3. kind # "receipts" /\ last \in rows /\ rows \subseteq Stored /\ owed \subseteq rows
  BY <1>1, <1>2 DEF ScanTypeOK, PlaceInv
<1>4. ScanTypeOK'
  BY <1>1, <1>2, <1>3 DEF ScanTypeOK
<1>5. \A x, y : Before(x, y)' <=> Before(x, y)
  BY <1>1 DEF Before, Ascending
<1>6. \A c, t : InFront(c, t)' = InFront(c, t)
  BY <1>1 DEF InFront, Ascending
<1>7. ASSUME NEW b \in owed
      PROVE  b \in InFront(last, MaxBlock) /\ b \in InFront(last, bound)
  <2>1. Before(last, b) /\ b <= bound
    BY <1>1, <1>2 DEF OwedInv
  <2>2. b \in rows /\ b \in Stored /\ b <= MaxBlock /\ last \in Stored
    BY <1>3, BackfillsAssumption DEF Stored
  <2> QED
    BY <2>1, <2>2, InFrontMeans
<1>8. CursorInv'
  <2>1. \A b \in owed' : b \in InFront(cursor', MaxBlock)
    BY <1>1, <1>2, <1>7 DEF CursorInv
  <2>2. \A b \in owed' : b \in InFront(cursor, MaxBlock)'
    BY <1>1, <2>1 DEF InFront, Ascending
  <2> QED
    BY <1>1, <1>2, <2>2 DEF CursorInv
<1>9. PlaceInv'
  BY <1>1, <1>2, <1>3 DEF PlaceInv
<1>10. OwedInv'
  <2>1. CASE page = {}
    <3>1. \A b \in owed' : b \in InFront(pos, bound)'
      BY <1>1, <1>7, <2>1 DEF InFront, Ascending
    <3> QED
      BY <1>1, <1>2, <2>1, <3>1 DEF OwedInv
  <2>2. CASE page # {}
    BY <1>1, <1>2, <1>5, <2>2 DEF OwedInv
  <2> QED
    BY <2>1, <2>2
<1> QED
  BY <1>4, <1>8, <1>9, <1>10 DEF ScanInv

\* The receipt job owes nothing: its query is its memory.
LEMMA ReceiptsSteps ==
  ASSUME ScanInv, ReceiptsLaunch \/ ReceiptsStep
  PROVE  ScanInv'
<1>1. ScanTypeOK /\ CursorInv /\ PlaceInv /\ OwedInv
  BY DEF ScanInv
<1>2. ASSUME UNCHANGED <<kind, rows, cursor, owed, pos, bound, batch, last>>, kind = "receipts",
             at' \in {"query", "receipts"}, at' = "query" => page' = {}, at \notin {"page", "run"},
             derived' \subseteq rows, page' \subseteq rows, updated' \in BOOLEAN,
             partial' \in BOOLEAN, rejects' \in 0 .. MaxRejects
      PROVE  ScanInv'
  <2>1. batch = {} /\ last = NoBlock
    BY <1>1, <1>2 DEF PlaceInv
  <2>2. ScanTypeOK'
    BY <1>1, <1>2, <2>1 DEF ScanTypeOK
  <2>3. CursorInv'
    BY <1>1, <1>2 DEF CursorInv, InFront, Ascending
  <2>4. PlaceInv' /\ OwedInv'
    BY <1>1, <1>2, <2>1 DEF PlaceInv, OwedInv
  <2> QED
    BY <2>2, <2>3, <2>4 DEF ScanInv
<1>3. CASE ReceiptsLaunch
  BY <1>1, <1>2, <1>3 DEF ReceiptsLaunch, localVars, ScanTypeOK, PlaceInv
<1>4. CASE ReceiptsQuery
  <2>1. at = "query" /\ UNCHANGED <<kind, rows, derived, cursor, rejects, owed>>
    BY <1>4 DEF ReceiptsQuery
  <2>2. kind = "receipts" /\ owed = {}
    BY <1>1, <2>1 DEF PlaceInv
  <2>3. CASE rows \ derived = {}
    BY <1>1, <1>4, <2>1, <2>2, <2>3, OverStep DEF ReceiptsQuery, ScanTypeOK
  <2>4. CASE rows \ derived # {}
    <3>1. /\ page' = FirstOf(rows \ derived, PageSize) /\ updated' = FALSE /\ at' = "receipts"
          /\ partial' = FALSE /\ UNCHANGED <<pos, bound, batch, last>>
      BY <1>4, <2>4 DEF ReceiptsQuery
    <3>2. page' \subseteq rows
      BY <3>1 DEF FirstOf
    <3> QED
      BY <1>1, <1>2, <2>1, <2>2, <3>1, <3>2 DEF ScanTypeOK
  <2> QED
    BY <2>3, <2>4
<1>5. CASE ReceiptsBlock
  <2> DEFINE b == Max(page)
  <2>1. /\ at = "receipts" /\ page # {} /\ page' = page \ {b}
        /\ derived' \in {derived, derived \cup {b}} /\ updated' \in {updated, TRUE}
        /\ partial' \in {partial, TRUE}
        /\ rejects' = rejects \/ Reject
        /\ UNCHANGED <<kind, rows, cursor, at, pos, bound, batch, last, owed>>
    BY <1>5 DEF ReceiptsBlock
  <2>2. kind = "receipts"
    BY <1>1, <2>1 DEF PlaceInv
  <2>3. b \in rows
    <3>1. page \subseteq 0 .. MaxBlock /\ page \subseteq rows /\ MaxBlock \in Nat
      BY <1>1, BackfillsAssumption DEF ScanTypeOK, Stored
    <3>2. Max(page) \in page
      BY <2>1, <3>1, MaxOf
    <3> QED
      BY <3>1, <3>2
  <2> HIDE DEF b
  <2>4. rejects' \in 0 .. MaxRejects
    BY <1>1, <2>1, BackfillsAssumption DEF ScanTypeOK, Reject
  <2> QED
    BY <1>1, <1>2, <2>1, <2>2, <2>3, <2>4 DEF ScanTypeOK
<1>6. CASE ReceiptsNext
  <2>1. at = "receipts" /\ page = {} /\ UNCHANGED <<kind, rows, derived, cursor, rejects, owed>>
    BY <1>6 DEF ReceiptsNext
  <2>2. kind = "receipts" /\ owed = {}
    BY <1>1, <2>1 DEF PlaceInv
  <2>3. CASE updated
    BY <1>1, <1>2, <1>6, <2>1, <2>2, <2>3 DEF ReceiptsNext, localVars, ScanTypeOK
  <2>4. CASE ~updated
    BY <1>1, <1>6, <2>1, <2>2, <2>4, OverStep DEF ReceiptsNext, ScanTypeOK
  <2> QED
    BY <2>3, <2>4
<1> QED
  BY <1>3, <1>4, <1>5, <1>6 DEF ReceiptsStep

\* A backfill's steps keep what it owes in its page, its batch or ahead of it.
LEMMA ScanInductive == ScanInv /\ [ScanNext]_scanVars => ScanInv'
<1> SUFFICES ASSUME ScanInv, [ScanNext]_scanVars PROVE ScanInv'
  OBVIOUS
<1>1. CASE JobDies
  <2>1. at \notin {"off", "ended"} /\ Reject /\ JobOver("off")
        /\ UNCHANGED <<kind, rows, cursor, owed>>
    BY <1>1 DEF JobDies
  <2>2. derived' \subseteq rows
    BY <1>1 DEF JobDies, ScanInv, ScanTypeOK
  <2>3. rejects' \in 0 .. MaxRejects
    BY <2>1, BackfillsAssumption DEF Reject, ScanInv, ScanTypeOK
  <2> QED
    BY <2>1, <2>2, <2>3, OverStep
<1>2. ASSUME NEW b \in Stored, StoreBlock(b) PROVE ScanInv'
  <2>1. /\ rows' = rows \cup {b} /\ derived' \subseteq derived \cup {b}
        /\ UNCHANGED <<kind, cursor, at, pos, bound, page, batch, last, updated, partial>>
        /\ UNCHANGED <<rejects, owed>>
    BY <1>2 DEF StoreBlock, localVars
  <2>2. ScanTypeOK'
    BY <2>1 DEF ScanInv, ScanTypeOK
  <2>3. CursorInv'
    BY <2>1 DEF ScanInv, CursorInv, InFront, Ascending
  <2>4. PlaceInv'
    BY <2>1 DEF ScanInv, PlaceInv
  <2>5. OwedInv'
    BY <2>1 DEF ScanInv, OwedInv, InFront, Before, Ascending
  <2> QED
    BY <2>2, <2>3, <2>4, <2>5 DEF ScanInv
<1>3. CASE UNCHANGED scanVars
  <2>1. UNCHANGED <<kind, rows, derived, cursor, at, pos, bound, page, batch, last, updated,
                    partial, rejects, owed>>
    BY <1>3 DEF scanVars, localVars
  <2> QED
    BY <2>1 DEF ScanInv, ScanTypeOK, CursorInv, PlaceInv, OwedInv, InFront, Before, Ascending
<1> QED
  BY <1>1, <1>2, <1>3, LaunchStep, ReadPageStep, StartBatchStep, ScanBlockStep, CursorStep,
     ReceiptsSteps DEF ScanNext, ScanStep

\* So it is for every behaviour of the backfills.
LEMMA ScanInvariance == ScanSpec => []ScanInv
<1>1. ScanInit => ScanInv
  <2> SUFFICES ASSUME ScanInit PROVE ScanInv
    OBVIOUS
  <2>1. ScanTypeOK
    <3>1. rejects \in 0 .. MaxRejects /\ bound \in 0 .. MaxBlock
      BY BackfillsAssumption DEF ScanInit
    <3> QED
      BY <3>1 DEF ScanInit, ScanTypeOK
  <2> QED
    BY <2>1 DEF ScanInit, ScanInv, CursorInv, PlaceInv, OwedInv
<1> QED
  BY <1>1, ScanInductive, PTL DEF ScanSpec

\* A block that was stored when a backfill started is tried before the persisted
\* cursor is past it and before a run ends, over any crash, rejection and insert.
THEOREM NothingIsPassedBy == ScanSpec => []NothingPassedBy
<1>1. ScanInv => NothingPassedBy
  BY DEF ScanInv, CursorInv, PlaceInv, NothingPassedBy
<1> QED
  BY <1>1, ScanInvariance, PTL

-----------------------------------------------------------------------------
(* StandaloneBackfill: backfill.ts and fill-gaps.ts side by side. *)

\* Where backfill.ts stands: `current` is above the checkpoint and within a window of
\* the head it read, every block it has moved past is in the batch or was answered
\* null, and the batch is in the tables it has been written to.
MainInv ==
  /\ mainAt = "off" => buffer = {}
  /\ mainAt = "fetch" => current <= chainHead
  /\ mainAt # "off" =>
       /\ lastIndexedBlock + 1 <= current /\ current <= chainHead + Concurrency
       /\ \A b \in lastIndexedBlock + 1 .. Least(current - 1, chainHead) :
            b \in buffer \cup nulled
  /\ mainAt = "transactions" => buffer \subseteq table
  /\ mainAt = "checkpoint" => buffer \subseteq table \cap txTable

\* Every number up to the checkpoint, above the tip too.
HolesInv ==
  \A b \in 0 .. lastIndexedBlock : b \in table \cap txTable \/ b \in nulled \cup beyond

\* Where fill-gaps.ts stands: what it has looked at is stored, still on its list, in
\* its window, or given up.
FillInv ==
  /\ listed \subseteq 0 .. tip
  /\ fillAt \in {"off", "done"} => missing = {}
  /\ fillAt \in {"off", "done", "window"} => fillBatch = {}
  /\ fillAt # "off" => listed \subseteq table \cup missing \cup fillBatch \cup failed
  /\ fillAt = "transactions" => fillBatch \subseteq table

\* A row without its transactions: a program is about to store them, or died.
HalfInv ==
  \A b \in table :
    \/ b \in txTable \cup torn
    \/ mainAt = "transactions" /\ b \in buffer
    \/ fillAt = "transactions" /\ b \in fillBatch

StandaloneInv == StandaloneTypeOK /\ MainInv /\ HolesInv /\ FillInv /\ HalfInv

-----------------------------------------------------------------------------
(* Lemmas about the model's operators. *)

\* findMissingBlockNumbers finds the numbers without a row between the least and
\* the greatest row, all of them, and no other.
LEMMA MissingBetweenRows ==
  ASSUME NEW n \in Nat, table \subseteq 0 .. n, table # {}
  PROVE  findMissingBlockNumbers = (Min(table) .. Max(table)) \ table
<1> DEFINE lo == Min(table)  hi == Max(table)
           next(b) == Min({c \in table : c > b})
<1>1. table \subseteq Nat /\ lo \in table /\ hi \in table
      /\ \A c \in table : lo <= c /\ c <= hi
  <2>1. table \subseteq Nat
    OBVIOUS
  <2> QED
    BY <2>1, MaxOf, MinOf
<1>2. ASSUME NEW b \in table, b < hi
      PROVE  next(b) \in table /\ b < next(b) /\ \A c \in table : c > b => next(b) <= c
  <2> DEFINE S == {c \in table : c > b}
  <2>1. S \subseteq Nat /\ S # {}
    BY <1>1, <1>2
  <2>2. Min(S) \in S /\ \A y \in S : Min(S) <= y
    <3> HIDE DEF S
    <3> QED BY <2>1, MinOf
  <2> QED
    BY <2>2
<1> HIDE DEF lo, hi, next
<1>3. ASSUME NEW x
      PROVE  x \in findMissingBlockNumbers <=>
               \E b \in table : b < hi /\ b + 1 \notin table /\ x \in b + 1 .. next(b) - 1
  <2>1. Gaps = {<<b + 1, next(b) - 1>> : b \in {d \in table : d < hi /\ d + 1 \notin table}}
    BY DEF Gaps, hi, next
  <2>2. x \in findMissingBlockNumbers <=> \E g \in Gaps : x \in g[1] .. g[2]
    BY Zenon DEF findMissingBlockNumbers
  <2>3. ASSUME NEW g \in Gaps, x \in g[1] .. g[2]
        PROVE  \E b \in table : b < hi /\ b + 1 \notin table /\ x \in b + 1 .. next(b) - 1
    <3>1. PICK b \in {d \in table : d < hi /\ d + 1 \notin table} : g = <<b + 1, next(b) - 1>>
      BY <2>1, Zenon
    <3>2. g[1] = b + 1 /\ g[2] = next(b) - 1
      BY <3>1
    <3> QED
      BY <2>3, <3>1, <3>2, Zenon
  <2>4. ASSUME NEW b \in table, b < hi, b + 1 \notin table, x \in b + 1 .. next(b) - 1
        PROVE  \E g \in Gaps : x \in g[1] .. g[2]
    <3> DEFINE g == <<b + 1, next(b) - 1>>
    <3>1. g[1] = b + 1 /\ g[2] = next(b) - 1
      OBVIOUS
    <3>2. g \in Gaps
      BY <2>1, <2>4, Zenon
    <3> HIDE DEF g
    <3> QED
      BY <2>4, <3>1, <3>2, Zenon
  <2> QED
    BY <2>2, <2>3, <2>4, Zenon
<1>4. ASSUME NEW x \in findMissingBlockNumbers
      PROVE  x \in (lo .. hi) \ table
  <2>1. PICK b \in table : b < hi /\ x \in b + 1 .. next(b) - 1
    BY <1>3, <1>4
  <2>2. next(b) \in table /\ b < next(b) /\ \A c \in table : c > b => next(b) <= c
    BY <1>2, <2>1
  <2>3. b \in Nat /\ next(b) \in Nat /\ lo \in Nat /\ hi \in Nat /\ lo <= b /\ next(b) <= hi
    BY <1>1, <2>2
  <2>4. x \in Nat /\ b < x /\ x < next(b)
    BY <2>1, <2>3
  <2>5. x \notin table
    BY <2>2, <2>3, <2>4
  <2> QED
    BY <2>3, <2>4, <2>5
<1>5. ASSUME NEW x \in (lo .. hi) \ table
      PROVE  x \in findMissingBlockNumbers
  <2> DEFINE S == {c \in table : c < x}
  <2>0. lo \in Nat /\ hi \in Nat /\ x \in Nat /\ lo <= x /\ x <= hi
    BY <1>1
  <2>1. S \subseteq 0 .. n /\ S # {}
    <3>1. lo \in table /\ lo # x
      BY <1>1
    <3>2. lo \in S
      BY <2>0, <3>1
    <3> QED
      BY <3>2
  <2>2. Max(S) \in S /\ \A y \in S : Max(S) >= y
    <3> HIDE DEF S
    <3> QED BY <2>1, MaxOf
  <2>3. PICK b \in table : b < x /\ \A c \in table : c < x => c <= b
    BY <2>2, <1>1
  <2>4. b < hi /\ b \in Nat
    BY <2>3, <2>0, <1>1
  <2>5. b + 1 \notin table
    BY <2>3, <2>4, <2>0
  <2>6. next(b) \in table /\ b < next(b)
    BY <1>2, <2>4
  <2>7. next(b) \in Nat /\ ~(next(b) <= x)
    <3>1. next(b) \in Nat
      BY <1>1, <2>6
    <3>2. next(b) # x
      BY <2>6
    <3>3. next(b) < x => FALSE
      BY <2>3, <2>4, <2>6, <3>1
    <3> QED
      BY <3>1, <3>2, <3>3, <2>0
  <2>8. x \in b + 1 .. next(b) - 1
    BY <2>3, <2>4, <2>7, <2>0
  <2> QED
    BY <1>3, <2>4, <2>5, <2>8
<1> QED
  BY <1>4, <1>5 DEF lo, hi

\* What is left of a window that some answers are missing from is finite, and the
\* missing ones count against the bound.
LEMMA TroubleBounded ==
  ASSUME NEW lo \in Int, NEW hi \in Int, NEW N \in SUBSET (lo .. hi),
         trouble \in 0 .. MaxTrouble, Trouble(Cardinality(N))
  PROVE  trouble' \in 0 .. MaxTrouble
<1>1. IsFiniteSet(N)
  BY FS_Interval, FS_Subset
<1>2. Cardinality(N) \in Nat
  BY <1>1, FS_CardinalityType
<1> QED
  BY <1>2, StandaloneAssumption DEF Trouble

-----------------------------------------------------------------------------
(* The inductive step: backfill.ts. *)

\* Nothing is stored, asked for or checkpointed at first.
LEMMA StandaloneStart == StandaloneInit => StandaloneInv
BY StandaloneAssumption
   DEF StandaloneInit, StandaloneInv, StandaloneTypeOK, MainInv, HolesInv, FillInv, HalfInv,
       Chain, Least

\* Types of what backfill.ts moves.
LEMMA MainTypes ==
  ASSUME StandaloneTypeOK, MainInv,
         MainStart \/ FetchWindow \/ FlushBlocks \/ FlushTransactions \/ SaveCheckpoint \/ MainDies
  PROVE  StandaloneTypeOK'
<1> USE StandaloneAssumption DEF StandaloneTypeOK, MainInv, Chain, fillVars
<1>1. CASE MainStart
  BY <1>1 DEF MainStart
<1>2. CASE FetchWindow
  <2> DEFINE window == current .. Least(current + Concurrency - 1, chainHead)
  <2>1. PICK N \in SUBSET window :
          /\ Trouble(Cardinality(N))
          /\ buffer' = buffer \cup (window \ N)
          /\ nulled' = nulled \cup N
    BY <1>2 DEF FetchWindow
  <2>2. /\ mainAt = "fetch" /\ current' = current + Concurrency
        /\ mainAt' \in {"fetch", "blocks"}
        /\ UNCHANGED <<tip, table, txTable, torn, lastIndexedBlock, chainHead, beyond, fillVars>>
    BY <1>2 DEF FetchWindow
  <2>3. Least(current + Concurrency - 1, chainHead) \in Int
        /\ Least(current + Concurrency - 1, chainHead) <= chainHead
    BY DEF Least
  <2>4. window \subseteq lastIndexedBlock + 1 .. chainHead /\ window \subseteq 0 .. tip
    BY <2>2, <2>3
  <2>5. trouble' \in 0 .. MaxTrouble
    <3>1. current \in Int /\ N \in SUBSET (current .. Least(current + Concurrency - 1, chainHead))
      BY <2>1
    <3> HIDE DEF window
    <3> QED
      BY <2>1, <2>3, <3>1, TroubleBounded
  <2>6. current' \in 0 .. MaxTip + Concurrency
    BY <2>2
  <2> HIDE DEF window
  <2> QED
    BY <2>1, <2>2, <2>4, <2>5, <2>6
<1>3. CASE FlushBlocks
  <2>1. buffer \subseteq 0 .. tip
    OBVIOUS
  <2> QED
    BY <1>3, <2>1 DEF FlushBlocks
<1>4. CASE FlushTransactions
  BY <1>4 DEF FlushTransactions
<1>5. CASE SaveCheckpoint
  <2>1. chainHead + 1 .. current - 1 \subseteq 0 .. MaxTip + Concurrency
    OBVIOUS
  <2>2. current - 1 \in -1 .. MaxTip + Concurrency - 1
    BY <1>5 DEF SaveCheckpoint
  <2> QED
    BY <1>5, <2>1, <2>2 DEF SaveCheckpoint
<1>6. CASE MainDies
  BY <1>6 DEF MainDies, Trouble
<1> QED
  BY <1>1, <1>2, <1>3, <1>4, <1>5, <1>6

\* backfill.ts and the blocks it has moved past.
LEMMA MainSteps ==
  ASSUME StandaloneTypeOK, MainInv, HolesInv,
         MainStart \/ FetchWindow \/ FlushBlocks \/ FlushTransactions \/ SaveCheckpoint \/ MainDies
  PROVE  MainInv' /\ HolesInv'
<1> USE StandaloneAssumption DEF StandaloneTypeOK, Chain
<1>1. CASE MainStart
  <2>1. /\ current' = lastIndexedBlock + 1 /\ current' <= chainHead' /\ mainAt' = "fetch"
        /\ chainHead' \in 0 .. tip
        /\ UNCHANGED <<tip, table, txTable, lastIndexedBlock, buffer, nulled, beyond>>
    BY <1>1 DEF MainStart
  <2>2. \A b \in lastIndexedBlock' + 1 .. Least(current' - 1, chainHead') : FALSE
    BY <2>1 DEF Least
  <2>3. lastIndexedBlock' + 1 <= current' /\ current' <= chainHead' + Concurrency
    <3>1. lastIndexedBlock \in Int /\ lastIndexedBlock' = lastIndexedBlock /\ chainHead' \in Int
          /\ Concurrency \in Nat /\ current' \in Int
      BY <2>1
    <3>2. lastIndexedBlock' + 1 <= current'
      BY <2>1, <3>1
    <3>3. current' <= chainHead' + Concurrency
      <4>1. \A i, j \in Int, k \in Nat : i <= j => i <= j + k
        OBVIOUS
      <4> QED
        BY <2>1, <3>1, <4>1, Zenon
    <3> QED
      BY <3>2, <3>3
  <2>4. MainInv'
    BY <2>1, <2>2, <2>3 DEF MainInv
  <2> QED
    BY <2>1, <2>4 DEF HolesInv
<1>2. CASE FetchWindow
  <2> DEFINE window == current .. Least(current + Concurrency - 1, chainHead)
  <2>1. PICK N \in SUBSET window :
          /\ buffer' = buffer \cup (window \ N)
          /\ nulled' = nulled \cup N
    BY <1>2 DEF FetchWindow
  <2>2. /\ mainAt = "fetch" /\ current' = current + Concurrency
        /\ mainAt' = "blocks" \/ (mainAt' = "fetch" /\ ~(current' > chainHead))
        /\ UNCHANGED <<tip, table, txTable, lastIndexedBlock, chainHead, beyond>>
    BY <1>2 DEF FetchWindow
  <2>3. ASSUME NEW b \in lastIndexedBlock + 1 .. Least(current' - 1, chainHead)
        PROVE  b \in buffer' \cup nulled'
    <3>1. CASE b < current
      <4>1. b \in lastIndexedBlock + 1 .. Least(current - 1, chainHead)
        BY <2>2, <3>1 DEF Least, MainInv
      <4> QED
        BY <2>1, <2>2, <4>1 DEF MainInv
    <3>2. CASE b >= current
      <4>1. b \in window
        BY <2>2, <3>2 DEF Least
      <4> QED
        BY <2>1, <4>1
    <3> QED
      BY <2>2, <3>1, <3>2 DEF Least
  <2>4. MainInv'
    <3>1. lastIndexedBlock' + 1 <= current' /\ current' <= chainHead' + Concurrency
      BY <2>2 DEF MainInv
    <3> QED
      BY <2>2, <2>3, <3>1 DEF MainInv
  <2>5. HolesInv'
    BY <2>1, <2>2 DEF HolesInv
  <2> QED
    BY <2>4, <2>5
<1>3. CASE FlushBlocks
  BY <1>3 DEF FlushBlocks, MainInv, HolesInv
<1>4. CASE FlushTransactions
  BY <1>4 DEF FlushTransactions, MainInv, HolesInv
<1>5. CASE SaveCheckpoint
  <2>1. /\ mainAt = "checkpoint" /\ lastIndexedBlock' = current - 1
        /\ beyond' = beyond \cup (chainHead + 1 .. current - 1) /\ buffer' = {}
        /\ mainAt' = (IF current <= chainHead THEN "fetch" ELSE "off")
        /\ UNCHANGED <<tip, table, txTable, trouble, chainHead, current, nulled>>
    BY <1>5 DEF SaveCheckpoint
  <2>2. MainInv'
    <3>1. \A b \in lastIndexedBlock' + 1 .. Least(current' - 1, chainHead') : FALSE
      BY <2>1 DEF Least
    <3>2. current <= chainHead => lastIndexedBlock' + 1 <= current'
                                   /\ current' <= chainHead' + Concurrency
      BY <2>1
    <3> QED
      BY <2>1, <3>1, <3>2 DEF MainInv
  <2>3. ASSUME NEW b \in 0 .. lastIndexedBlock'
        PROVE  b \in table' \cap txTable' \/ b \in nulled' \cup beyond'
    <3>1. CASE b <= lastIndexedBlock
      BY <2>1, <3>1 DEF HolesInv
    <3>2. CASE lastIndexedBlock < b /\ b <= chainHead
      <4>1. b \in lastIndexedBlock + 1 .. Least(current - 1, chainHead)
        BY <2>1, <3>2 DEF Least
      <4> QED
        BY <2>1, <4>1 DEF MainInv
    <3>3. CASE chainHead < b
      BY <2>1, <3>3
    <3> QED
      BY <2>1, <3>1, <3>2, <3>3
  <2> QED
    BY <2>2, <2>3 DEF HolesInv
<1>6. CASE MainDies
  BY <1>6 DEF MainDies, MainInv, HolesInv
<1> QED
  BY <1>1, <1>2, <1>3, <1>4, <1>5, <1>6

\* backfill.ts only adds rows, and leaves fill-gaps.ts where it is.
LEMMA MainLeavesFill ==
  ASSUME StandaloneTypeOK, FillInv,
         MainStart \/ FetchWindow \/ FlushBlocks \/ FlushTransactions \/ SaveCheckpoint \/ MainDies
  PROVE  FillInv'
<1>1. table \subseteq table' /\ UNCHANGED <<tip, fillVars>>
  BY DEF MainStart, FetchWindow, FlushBlocks, FlushTransactions, SaveCheckpoint, MainDies
<1> QED
  BY <1>1 DEF FillInv, fillVars

-----------------------------------------------------------------------------
(* The inductive step: fill-gaps.ts, and the chain. *)

\* fill-gaps.ts only adds rows, and leaves backfill.ts where it is.
LEMMA FillLeavesMain ==
  ASSUME StandaloneTypeOK, MainInv, HolesInv,
         table \subseteq table', txTable \subseteq txTable', UNCHANGED mainVars
  PROVE  MainInv' /\ HolesInv'
<1>1. UNCHANGED <<lastIndexedBlock, mainAt, chainHead, current, buffer, nulled, beyond>>
  BY DEF mainVars
<1>2. MainInv'
  BY <1>1 DEF MainInv, Least
<1>3. HolesInv'
  BY <1>1 DEF HolesInv
<1> QED
  BY <1>2, <1>3

\* The list is the whole of the range's holes, and nothing leaves it but through the
\* window or the count of failures.
LEMMA FillSteps ==
  ASSUME StandaloneTypeOK, FillInv,
         FillStart \/ FillWindow \/ FillBlocks \/ FillTransactions \/ FillDies
  PROVE  StandaloneTypeOK' /\ FillInv' /\ table \subseteq table' /\ txTable \subseteq txTable'
         /\ UNCHANGED mainVars
<1> USE StandaloneAssumption DEF StandaloneTypeOK, Chain
<1>0. ASSUME UNCHANGED <<tip, mainVars>>, table' \subseteq 0 .. tip, txTable' \subseteq table',
             trouble' \in 0 .. MaxTrouble,
             fillAt' \in {"off", "window", "blocks", "transactions", "done"},
             missing' \subseteq listed', fillBatch' \subseteq listed' \ missing',
             torn' \subseteq table'
      PROVE  StandaloneTypeOK'
  BY <1>0 DEF mainVars
<1>1. CASE FillStart
  <2>1. /\ missing' = findMissingBlockNumbers
        /\ listed' = (IF table = {} THEN {} ELSE Min(table) .. Max(table))
        /\ fillAt \in {"off", "done"}
        /\ fillAt' = (IF missing' = {} THEN "done" ELSE "window")
        /\ UNCHANGED <<tip, table, txTable, trouble, torn, mainVars, fillBatch>>
    BY <1>1 DEF FillStart
  <2>2. missing' = listed' \ table /\ listed' \subseteq 0 .. tip
    <3>1. CASE table = {}
      <4>1. Gaps = {}
        BY <3>1 DEF Gaps
      <4> QED
        BY <2>1, <3>1, <4>1 DEF findMissingBlockNumbers
    <3>2. CASE table # {}
      <4>1. tip \in Nat /\ table \subseteq 0 .. tip /\ table \subseteq Nat
        OBVIOUS
      <4>2. missing' = listed' \ table
        BY <2>1, <3>2, <4>1, MissingBetweenRows
      <4>3. Min(table) \in 0 .. tip /\ Max(table) \in 0 .. tip
        BY <3>2, <4>1, MaxOf, MinOf
      <4> QED
        BY <2>1, <3>2, <4>1, <4>2, <4>3
    <3> QED
      BY <3>1, <3>2
  <2>3. fillBatch = {}
    BY <2>1 DEF FillInv
  <2>4. FillInv'
    BY <2>1, <2>2, <2>3 DEF FillInv
  <2> QED
    BY <1>0, <2>1, <2>2, <2>3, <2>4
<1>2. CASE FillWindow
  <2> DEFINE window == {b \in missing : Cardinality({c \in missing : c < b}) < Concurrency}
  <2>1. PICK N \in SUBSET window :
          /\ Trouble(Cardinality(N))
          /\ fillBatch' = window \ N
          /\ failed' = failed \cup N
          /\ missing' = missing \ window
    BY <1>2 DEF FillWindow
  <2>2. /\ fillAt = "window" /\ fillAt' = "blocks"
        /\ UNCHANGED <<tip, table, txTable, torn, mainVars, listed>>
    BY <1>2 DEF FillWindow
  <2>3. window \subseteq missing
    OBVIOUS
  <2> HIDE DEF window
  <2>4. trouble' \in 0 .. MaxTrouble
    <3>1. N \in SUBSET (0 .. tip) /\ tip \in Int /\ 0 \in Int
      BY <2>3 DEF FillInv
    <3> QED
      BY <2>1, <3>1, TroubleBounded
  <2>5. FillInv'
    BY <2>1, <2>2, <2>3 DEF FillInv
  <2> QED
    BY <1>0, <2>1, <2>2, <2>3, <2>4, <2>5
<1>3. CASE FillBlocks
  <2>1. FillInv'
    BY <1>3 DEF FillBlocks, FillInv
  <2> QED
    BY <1>0, <1>3, <2>1 DEF FillBlocks, FillInv
<1>4. CASE FillTransactions
  <2>1. FillInv'
    BY <1>4 DEF FillTransactions, FillInv
  <2> QED
    BY <1>0, <1>4, <2>1 DEF FillTransactions, FillInv
<1>5. CASE FillDies
  <2>1. FillInv'
    BY <1>5 DEF FillDies, FillInv
  <2> QED
    BY <1>0, <1>5, <2>1 DEF FillDies, FillInv, Trouble
<1> QED
  BY <1>1, <1>2, <1>3, <1>4, <1>5

\* A row that gets in has its program between the two statements, which either does the
\* second or dies.
LEMMA HalfSteps ==
  ASSUME StandaloneTypeOK, FillInv, HalfInv, StandaloneNext
  PROVE  HalfInv'
<1> USE DEF HalfInv, mainVars, fillVars
<1>1. CASE MainStart
  BY <1>1 DEF MainStart
<1>2. CASE FetchWindow
  BY <1>2 DEF FetchWindow
<1>3. CASE FlushBlocks
  BY <1>3 DEF FlushBlocks
<1>4. CASE FlushTransactions
  BY <1>4 DEF FlushTransactions
<1>5. CASE SaveCheckpoint
  BY <1>5 DEF SaveCheckpoint
<1>6. CASE MainDies
  BY <1>6 DEF MainDies
<1>7. CASE FillStart
  BY <1>7 DEF FillStart, FillInv
<1>8. CASE FillWindow
  BY <1>8 DEF FillWindow
<1>9. CASE FillBlocks
  BY <1>9 DEF FillBlocks
<1>10. CASE FillTransactions
  BY <1>10 DEF FillTransactions
<1>11. CASE FillDies
  BY <1>11 DEF FillDies
<1>12. CASE ChainGrows
  BY <1>12 DEF ChainGrows
<1> QED
  BY <1>1, <1>2, <1>3, <1>4, <1>5, <1>6, <1>7, <1>8, <1>9, <1>10, <1>11, <1>12
     DEF StandaloneNext

\* The chain grows under both.
LEMMA TipStep ==
  ASSUME StandaloneInv, ChainGrows
  PROVE  StandaloneTypeOK' /\ MainInv' /\ HolesInv' /\ FillInv'
<1> USE StandaloneAssumption
<1>1. /\ tip < MaxTip /\ tip' = tip + 1
      /\ UNCHANGED <<table, txTable, trouble, torn, lastIndexedBlock, mainAt, chainHead,
                     current, buffer, nulled, beyond, fillAt, missing, fillBatch, listed, failed>>
  BY DEF ChainGrows, mainVars, fillVars
<1>2. StandaloneTypeOK'
  BY <1>1 DEF StandaloneInv, StandaloneTypeOK, Chain
<1>3. MainInv' /\ HolesInv'
  BY <1>1 DEF StandaloneInv, MainInv, HolesInv, Least
<1>4. FillInv'
  BY <1>1 DEF StandaloneInv, FillInv, StandaloneTypeOK, Chain
<1> QED
  BY <1>2, <1>3, <1>4

\* Neither program's steps leave a hole that is not one of the two known kinds.
LEMMA StandaloneInductive == StandaloneInv /\ [StandaloneNext]_standaloneVars => StandaloneInv'
<1> SUFFICES ASSUME StandaloneInv, [StandaloneNext]_standaloneVars PROVE StandaloneInv'
  OBVIOUS
<1>0. StandaloneNext => HalfInv'
  BY HalfSteps DEF StandaloneInv
<1>1. CASE MainStart \/ FetchWindow \/ FlushBlocks \/ FlushTransactions \/ SaveCheckpoint
           \/ MainDies
  <2>1. StandaloneNext
    BY <1>1 DEF StandaloneNext
  <2> QED
    BY <1>0, <1>1, <2>1, MainTypes, MainSteps, MainLeavesFill DEF StandaloneInv
<1>2. CASE FillStart \/ FillWindow \/ FillBlocks \/ FillTransactions \/ FillDies
  <2>1. StandaloneNext
    BY <1>2 DEF StandaloneNext
  <2> QED
    BY <1>0, <1>2, <2>1, FillSteps, FillLeavesMain DEF StandaloneInv
<1>3. CASE ChainGrows
  <2>1. StandaloneNext
    BY <1>3 DEF StandaloneNext
  <2> QED
    BY <1>0, <1>3, <2>1, TipStep DEF StandaloneInv
<1>4. CASE UNCHANGED standaloneVars
  <2>1. UNCHANGED <<tip, table, txTable, trouble, torn, lastIndexedBlock, mainAt, chainHead,
                    current, buffer, nulled, beyond, fillAt, missing, fillBatch, listed, failed>>
    BY <1>4 DEF standaloneVars, mainVars, fillVars
  <2> QED
    BY <2>1 DEF StandaloneInv, StandaloneTypeOK, MainInv, HolesInv, FillInv, HalfInv, Least
<1> QED
  BY <1>1, <1>2, <1>3, <1>4 DEF StandaloneNext

-----------------------------------------------------------------------------
(* The results. *)

\* So it is for every behaviour of the two programs.
LEMMA StandaloneInvariance == StandaloneSpec => []StandaloneInv
BY StandaloneStart, StandaloneInductive, PTL DEF StandaloneSpec

\* The variables of both programs stay in their types: no transaction without a row,
\* no batch beyond the head that was read.
THEOREM StandaloneTypes == StandaloneSpec => []StandaloneTypeOK
<1>1. StandaloneInv => StandaloneTypeOK
  BY DEF StandaloneInv
<1> QED
  BY <1>1, StandaloneInvariance, PTL

\* Behind the checkpoint of backfill.ts, every block has its row and transactions or
\* is one of the two known kinds of hole, over any interrupts and beside fill-gaps.ts.
THEOREM HolesAreKnown == StandaloneSpec => []HolesKnown
<1>1. StandaloneInv => HolesKnown
  BY DEF StandaloneInv, StandaloneTypeOK, HolesInv, HolesKnown, Least, Chain
<1> QED
  BY <1>1, StandaloneInvariance, PTL

\* A gap fill that ends has closed every hole between the first and the last row there was
\* that it could fetch; rows there without transactions are in a flush or of one that died.
THEOREM FillerAlwaysCovers == StandaloneSpec => []FillerCovers
<1>1. StandaloneInv => FillerCovers
  BY DEF StandaloneInv, FillInv, HalfInv, FillerCovers
<1> QED
  BY <1>1, StandaloneInvariance, PTL
=============================================================================
