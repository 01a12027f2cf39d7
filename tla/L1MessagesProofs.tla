-------------------------- MODULE L1MessagesProofs --------------------------
(***************************************************************************)
(* Safety of the L1 watcher and of the linking of its messages, for every  *)
(* sequence of deliveries, batch size, set of saving processes and number  *)
(* of failures.                                                            *)
(*                                                                         *)
(* LinksMeet is not inductive: a ticket whose transaction somebody else    *)
(* stores while the watcher fetches it is not the watcher's to link, and   *)
(* LinkInv says whose it is.  NoBlockSkipped needs WalkInv and PassedInv:  *)
(* deliveries come in the order of the chain, so what lies before the      *)
(* watcher's position, before either cursor or before its batch has left   *)
(* a record.                                                               *)
(***************************************************************************)
EXTENDS L1Messages, LibraryFacts, FiniteSetTheorems, TLAPS

Linking == {"lookup", "fetch", "persist", "update"}

\* A block with a record of its messages, or one that a tick is known to have left.
Accounted(b) == b \in leftBehind \/ Recorded(b)

\* A record holds a message that was delivered under its id.
RowInv ==
  \A i \in Ids : row[i] # None =>
    \E j \in Indices : Deliveries[j].id = i /\ Deliveries[j].msg = row[i]

\* Where the watcher is within its tick.
WalkInv ==
  /\ at \in {"idle", "scan", "pending"} => todo = {}
  /\ at # "idle" => start \in L1Blocks /\ to \in L1Blocks /\ start <= to
  /\ at = "scan" => pos >= 1
  /\ at \in Linking /\ todo = {} =>
       pos \in Indices /\ Accounted(Deliveries[pos].block)
  /\ at = "persist" => Current \in blocks

\* What lies behind a cursor, a recorded block, the batch or the position is
\* recorded, from the block on that the watcher's coverage starts at.
PassedInv ==
  /\ \A b \in L1Blocks : origin <= b /\ b <= lastScanned => Accounted(b)
  /\ \A i \in Ids, b \in L1Blocks :
       row[i] # None /\ origin <= b /\ b <= BlockOfId(i) => Accounted(b)
  /\ at # "idle" => \A b \in L1Blocks : origin <= b /\ b < start => Accounted(b)
  /\ at = "scan" \/ (at \in Linking /\ todo = {}) =>
       \A j \in Indices :
         j < pos /\ origin <= Deliveries[j].block => Accounted(Deliveries[j].block)

\* Both are there and unlinked: somebody's insert is to be followed by its link, a
\* failure has cut that short, or the watcher comes to it without a fetch.
LinkInv ==
  \A m \in (Saved \cap txs) \ linked :
    \/ m \in cut
    \/ \E p \in Savers : <<p, m>> \in linking
    \/ at \in {"lookup", "update"} /\ m = Current

IInv == TypeOK /\ RowInv /\ WalkInv /\ PassedInv /\ LinkInv
-----------------------------------------------------------------------------
(* Lemmas about the model's operators. *)

\* The types of a delivery.
LEMMA DeliveryTypes ==
  /\ Len(Deliveries) \in Nat
  /\ \A j \in Indices : /\ Deliveries[j].block \in 1 .. MaxL1 - 1
                        /\ Deliveries[j].id \in Ids
                        /\ Deliveries[j].msg \in Messages
<1>1. Len(Deliveries) \in Nat
  BY DeliveriesAssumption
<1>2. ASSUME NEW j \in Indices
      PROVE  Deliveries[j] \in [block : 1 .. MaxL1 - 1, id : Nat \ {0}, msg : Messages]
  <2> DEFINE D == [block : 1 .. MaxL1 - 1, id : Nat \ {0}, msg : Messages]
  <2>1. Deliveries \in Seq(D) /\ j \in 1 .. Len(Deliveries)
    BY DeliveriesAssumption DEF Indices
  <2> HIDE DEF D
  <2>2. Deliveries[j] \in D
    BY <2>1
  <2> QED BY <2>2 DEF D
<1> QED
  BY <1>1, <1>2 DEF Ids, Indices

\* The events of a block carry ids that no other block's events have.
LEMMA BlockOfIdIs ==
  ASSUME NEW j \in Indices
  PROVE  BlockOfId(Deliveries[j].id) = Deliveries[j].block
<1> DEFINE D == {Deliveries[i] : i \in Indices}
<1>1. PICK d \in D : d = (CHOOSE x \in D : x.id = Deliveries[j].id)
                     /\ d.id = Deliveries[j].id
  OBVIOUS
<1>2. PICK i \in Indices : d = Deliveries[i]
  OBVIOUS
<1>3. Deliveries[i].block = Deliveries[j].block
  BY <1>1, <1>2, DeliveriesAssumption
<1> QED
  BY <1>1, <1>2, <1>3 DEF BlockOfId

\* Every messageIndex was delivered, in the one block it belongs to.
LEMMA IdDelivered ==
  ASSUME NEW i \in Ids
  PROVE  /\ BlockOfId(i) \in 1 .. MaxL1 - 1
         /\ \E j \in Indices : Deliveries[j].id = i /\ Deliveries[j].block = BlockOfId(i)
<1>1. PICK j \in Indices : Deliveries[j].id = i
  BY DEF Ids, Indices
<1> QED
  BY <1>1, BlockOfIdIs, DeliveryTypes

\* The inner loops skip nothing of a batch: what comes before the first delivery
\* of a batch is of an earlier block.
LEMMA FirstFromSplits ==
  ASSUME NEW b \in Int
  PROVE  /\ FirstFrom(b) \in 1 .. Len(Deliveries) + 1
         /\ \A j \in Indices : j < FirstFrom(b) => Deliveries[j].block < b
<1> DEFINE S == {i \in Indices : Deliveries[i].block < b}
           n == Len(Deliveries)
<1>1. n \in Nat /\ IsFiniteSet(1 .. n) /\ Cardinality(1 .. n) <= n
  BY DeliveryTypes, FS_Interval, ZenonT(60), SMTT(40)
<1>2. IsFiniteSet(S) /\ Cardinality(S) \in Nat /\ Cardinality(S) <= n
  <2>1. S \in SUBSET (1 .. n)
    BY DEF Indices
  <2>2. IsFiniteSet(S) /\ Cardinality(S) <= Cardinality(1 .. n)
    BY <1>1, <2>1, FS_Subset
  <2>3. Cardinality(1 .. n) \in Nat /\ Cardinality(S) \in Nat
    BY <1>1, <2>2, FS_CardinalityType
  <2> HIDE DEF n, S
  <2> QED
    BY <1>1, <2>2, <2>3
<1>3. ASSUME NEW j \in Indices, j <= Cardinality(S)
      PROVE  Deliveries[j].block < b
  <2> SUFFICES ASSUME ~(Deliveries[j].block < b) PROVE FALSE
    OBVIOUS
  <2>1. S \subseteq 1 .. j - 1
    <3>1. ASSUME NEW i \in S PROVE i <= j - 1
      <4>1. i \in Indices /\ i \in Int /\ j \in Int
        BY DEF Indices
      <4>2. Deliveries[i].block \in Int /\ Deliveries[j].block \in Int
        BY <4>1, DeliveryTypes
      <4>3. j <= i => Deliveries[j].block <= Deliveries[i].block
        BY <4>1, DeliveriesAssumption
      <4> QED
        BY <4>1, <4>2, <4>3
    <3>2. \A i \in S : i \in Int /\ i >= 1
      BY DEF Indices
    <3> QED
      BY <3>1, <3>2 DEF Indices
  <2>2. j \in Nat /\ j >= 1
    BY DEF Indices
  <2>3. IsFiniteSet(1 .. j - 1) /\ Cardinality(1 .. j - 1) = j - 1
    BY <2>2, FS_Interval
  <2>4. Cardinality(S) <= Cardinality(1 .. j - 1)
    BY <2>1, <2>3, FS_Subset
  <2> HIDE DEF S
  <2> QED
    BY <1>2, <1>3, <2>2, <2>3, <2>4
<1>4. FirstFrom(b) = 1 + Cardinality(S)
  BY DEF FirstFrom
<1> HIDE DEF S
<1> QED
  BY <1>1, <1>2, <1>3, <1>4 DEF Indices

\* The watcher resumes from its own cursor or from a recorded block, whichever
\* is further ahead.
LEMMA CursorIs ==
  ASSUME TypeOK
  PROVE  /\ Cursor \in 0 .. MaxL1
         /\ Cursor = lastScanned \/ \E i \in Ids : row[i] # None /\ Cursor = BlockOfId(i)
         /\ lastScanned <= Cursor
         /\ \A i \in Ids : row[i] # None => BlockOfId(i) <= Cursor
<1> DEFINE S == {BlockOfId(i) : i \in {j \in Ids : row[j] # None}} \cup {None}
<1>1. MaxL1 \in Nat /\ lastScanned \in 0 .. MaxL1
  BY BoundsAssumption DEF TypeOK, L1Blocks, None
<1>2. \A i \in Ids : BlockOfId(i) \in 0 .. MaxL1
  BY <1>1, IdDelivered
<1>3. S \subseteq 0 .. MaxL1 /\ S # {}
  BY <1>1, <1>2 DEF None
<1>4. LatestIndexed \in S /\ \A x \in S : LatestIndexed >= x
  <2> HIDE DEF S
  <2>1. Max(S) \in S /\ \A x \in S : Max(S) >= x
    BY <1>1, <1>3, MaxOf
  <2> QED
    BY <2>1 DEF LatestIndexed, S
<1>5. {LatestIndexed, lastScanned} \subseteq 0 .. MaxL1
  BY <1>1, <1>3, <1>4
<1>6. /\ Cursor \in {LatestIndexed, lastScanned}
      /\ Cursor >= LatestIndexed /\ Cursor >= lastScanned
  BY <1>1, <1>5, MaxOf DEF Cursor
<1>7. LatestIndexed = None \/ \E i \in Ids : row[i] # None /\ LatestIndexed = BlockOfId(i)
  BY <1>4
<1>8. Cursor \in 0 .. MaxL1 /\ lastScanned <= Cursor
  BY <1>1, <1>5, <1>6
<1>9. ASSUME NEW i \in Ids, row[i] # None PROVE BlockOfId(i) <= Cursor
  <2>1. LatestIndexed >= BlockOfId(i)
    BY <1>4, <1>9
  <2> QED
    BY <1>1, <1>2, <1>5, <1>6, <2>1
<1>10. Cursor = lastScanned \/ \E i \in Ids : row[i] # None /\ Cursor = BlockOfId(i)
  <2>1. CASE LatestIndexed = None
    BY <1>1, <1>6, <2>1 DEF None
  <2>2. CASE LatestIndexed # None
    BY <1>6, <1>7, <2>2
  <2> QED BY <2>1, <2>2
<1> QED
  BY <1>8, <1>9, <1>10

\* The list of a reconciliation is one the database can order.
LEMMA OldestIn ==
  ASSUME TypeOK, todo # {}
  PROVE  Oldest(todo) \in todo
<1>1. \A m \in todo : BlockOf(m) \in Nat
  <2> SUFFICES ASSUME NEW m \in todo PROVE BlockOf(m) \in Nat
    OBVIOUS
  <2>1. \E i \in Ids : row[i] = m
    BY DEF TypeOK, Saved
  <2>2. (CHOOSE i \in Ids : row[i] = m) \in Ids
    BY <2>1
  <2> QED
    BY <2>2, IdDelivered, BoundsAssumption DEF BlockOf
<1> DEFINE B == {BlockOf(m) : m \in todo}
<1>2. PICK x \in B : \A y \in B : x <= y
  <2>1. B \subseteq Nat /\ B # {}
    BY <1>1
  <2> HIDE DEF B
  <2> QED BY <2>1, LeastElement
<1>3. PICK m \in todo : \A n \in todo : BlockOf(m) <= BlockOf(n)
  BY <1>2
<1> QED
  BY <1>3 DEF Oldest

\* The message the watcher links is one of the types, and on its list if it has one.
LEMMA CurrentIn ==
  ASSUME TypeOK, WalkInv, at \in Linking
  PROVE  Current \in Messages /\ (todo # {} => Current \in todo)
<1>1. CASE todo = {}
  BY <1>1, DeliveryTypes DEF WalkInv, Current
<1>2. CASE todo # {}
  <2>1. todo \subseteq Messages
    BY DEF TypeOK, Saved
  <2> QED BY <1>2, <2>1, OldestIn DEF Current
<1> QED BY <1>1, <1>2

\* What tryLinkL1Message works on does not depend on what others write.
LEMMA CurrentKept ==
  ASSUME UNCHANGED <<row, todo, pos>>
  PROVE  Current' = Current
BY DEF Current, Oldest, BlockOf

\* A message once recorded stays recorded, under whatever id.
LEMMA SavedKept ==
  ASSUME TypeOK, NEW i \in Ids, NEW m \in Messages,
         row' = [row EXCEPT ![i] = IF @ = None THEN m ELSE @]
  PROVE  /\ Saved \subseteq Saved'
         /\ Saved' \subseteq Saved \cup {m}
         /\ row[i] = None => m \in Saved'
         /\ \A k \in Ids : row'[k] # None => row[k] # None \/ (k = i /\ row'[k] = m)
         /\ \A k \in Ids : row[k] # None => row'[k] = row[k]
<1>1. row \in [Ids -> Messages \cup {None}]
  BY DEF TypeOK
<1>2. \A k \in Ids : row'[k] = IF k = i /\ row[k] = None THEN m ELSE row[k]
  BY <1>1
<1>3. Saved \subseteq Saved'
  BY <1>2 DEF Saved
<1>4. Saved' \subseteq Saved \cup {m}
  BY <1>2 DEF Saved
<1>5. row[i] = None => m \in Saved'
  BY <1>2, MessagesAssumption DEF Saved
<1> QED BY <1>2, <1>3, <1>4, <1>5

\* Only finitely many messages are recorded.
LEMMA SavedFinite == ASSUME TypeOK PROVE IsFiniteSet(Saved)
<1>1. IsFiniteSet(Indices)
  BY DeliveryTypes, FS_Interval DEF Indices
<1>2. IsFiniteSet(Ids)
  <2> DEFINE f == [j \in Indices |-> Deliveries[j].id]
  <2>1. f \in Surjection(Indices, Ids)
    BY DeliveryTypes, IdDelivered DEF Surjection
  <2> QED BY <1>1, <2>1, FS_Surjection
<1>3. IsFiniteSet({row[i] : i \in Ids})
  <2> DEFINE g == [i \in Ids |-> row[i]]
  <2>1. g \in Surjection(Ids, {row[i] : i \in Ids})
    BY DEF Surjection
  <2> QED BY <1>2, <2>1, FS_Surjection
<1> QED
  BY <1>3, FS_Difference DEF Saved
-----------------------------------------------------------------------------
(* Facts about a step that several layers need. *)

\* The batch of eth_getLogs lies between its start and the tick's end.
LEMMA BatchEndIn ==
  ASSUME TypeOK, WalkInv, at = "scan"
  PROVE  BatchEnd \in L1Blocks /\ start <= BatchEnd /\ BatchEnd <= to
<1>1. start \in L1Blocks /\ to \in L1Blocks /\ start <= to
  BY DEF WalkInv
<1> QED
  BY <1>1, BoundsAssumption DEF BatchEnd, L1Blocks

\* tryLinkL1Message returns to the next delivery, to the next message of the list
\* or out of the tick.
LEMMA ReturnsTo ==
  ASSUME TypeOK, WalkInv, at \in Linking, Return
  PROVE  /\ at' \in {"scan", "lookup", "idle"}
         /\ start' \in L1Blocks \cup {None} /\ to' \in L1Blocks \cup {None}
         /\ pos' \in 0 .. Len(Deliveries) + 1 /\ todo' \subseteq todo
         /\ at' = "lookup" => todo' # {}
         /\ at' \in {"scan", "idle"} => todo' = {}
         /\ at' # "idle" => start' = start /\ to' = to
         /\ at' = "scan" => todo = {} /\ pos' = pos + 1 /\ pos' >= 1
<1>1. todo = {} => pos \in 1 .. Len(Deliveries)
  BY DEF WalkInv, Indices
<1>2. todo # {} => Current \in todo
  BY CurrentIn
<1>3. Len(Deliveries) \in Nat
  BY DeliveryTypes
<1>4. CASE todo = {}
  <2>1. at' = "scan" /\ pos' = pos + 1 /\ UNCHANGED <<start, to, todo>>
    BY <1>4 DEF Return
  <2> QED BY <1>1, <1>3, <1>4, <2>1 DEF TypeOK
<1>5. CASE todo # {} /\ todo # {Current}
  <2>1. at' = "lookup" /\ todo' = todo \ {Current} /\ UNCHANGED <<start, to, pos>>
    BY <1>5 DEF Return
  <2> QED BY <1>2, <1>3, <1>5, <2>1 DEF TypeOK
<1>6. CASE todo = {Current}
  <2>1. EndTick
    BY <1>6 DEF Return
  <2> QED BY <1>3, <2>1 DEF EndTick, None
<1> QED BY <1>4, <1>5, <1>6

\* Only saveL1Message writes a record, of the delivery the watcher is at.
LEMMA RowStep ==
  ASSUME TypeOK, [Next]_vars
  PROVE  \/ UNCHANGED row
         \/ /\ SaveMessage /\ Deliveries[pos].id \in Ids
            /\ Deliveries[pos].msg \in Messages /\ pos \in Indices
            /\ row' = [row EXCEPT ![Deliveries[pos].id] =
                         IF @ = None THEN Deliveries[pos].msg ELSE @]
<1>1. CASE SaveMessage
  BY <1>1, DeliveryTypes DEF SaveMessage, InBatch
<1>2. CASE ~SaveMessage
  BY <1>2 DEF Next, WatchStep, Tick, SaveRefused, BatchScanned, Reconcile, Lookup,
     FetchTicket, PersistTicket, UpdateLink, WatchFails, Crash, SaveTransactions,
     LinkL2Transaction, LinkFails, NewL1Block, Mint, vars
<1> QED BY <1>1, <1>2

\* No record is taken back, so a block with a record keeps one.
LEMMA RecordsKept ==
  ASSUME TypeOK, [Next]_vars
  PROVE  /\ row' \in [Ids -> Messages \cup {None}]
         /\ Saved \subseteq Saved'
         /\ \A b : Accounted(b) => Accounted(b)'
<1>1. row' \in [Ids -> Messages \cup {None}] /\ Saved \subseteq Saved'
  <2>1. CASE UNCHANGED row
    BY <2>1 DEF TypeOK, Saved
  <2>2. CASE ~UNCHANGED row
    BY <2>2, RowStep, SavedKept DEF TypeOK
  <2> QED BY <2>1, <2>2
<1>2. leftBehind \subseteq leftBehind'
  <2>1. CASE Tick
    BY <2>1 DEF Tick
  <2>2. CASE ~Tick
    BY <2>2 DEF Next, WatchStep, SaveMessage, SaveRefused, BatchScanned, Reconcile, Lookup,
       FetchTicket, PersistTicket, UpdateLink, WatchFails, Crash, SaveTransactions,
       LinkL2Transaction, LinkFails, NewL1Block, Mint, vars, historyVars
  <2> QED BY <2>1, <2>2
<1> QED BY <1>1, <1>2 DEF Accounted, Recorded, Delivered

\* Only what was delivered under an id is recorded under it.
LEMMA RowInvStep ==
  ASSUME TypeOK, RowInv, [Next]_vars
  PROVE  RowInv'
<1>1. CASE UNCHANGED row
  BY <1>1 DEF RowInv
<1>2. CASE ~UNCHANGED row
  <2> DEFINE d == Deliveries[pos]
  <2>1. /\ d.id \in Ids /\ d.msg \in Messages /\ pos \in Indices
        /\ row' = [row EXCEPT ![d.id] = IF @ = None THEN d.msg ELSE @]
    BY <1>2, RowStep
  <2>2. \A k \in Ids : row'[k] = row[k] \/ (k = d.id /\ row'[k] = d.msg)
    BY <2>1 DEF TypeOK
  <2> QED BY <2>1, <2>2 DEF RowInv
<1> QED BY <1>1, <1>2

\* The delivery just saved is of a block that has left a record: its own message,
\* or the one that its id was recorded with.
LEMMA SavedRecords ==
  ASSUME TypeOK, RowInv, SaveMessage, [Next]_vars
  PROVE  Accounted(Deliveries[pos].block)' /\ pos \in Indices
<1> DEFINE d == Deliveries[pos]
<1>1. /\ pos \in Indices /\ d.id \in Ids /\ d.msg \in Messages
      /\ row' = [row EXCEPT ![d.id] = IF @ = None THEN d.msg ELSE @]
  BY DeliveryTypes DEF SaveMessage, InBatch
<1>2. d.msg \in Delivered(d.block)
  BY <1>1 DEF Delivered
<1>3. CASE row[d.id] = None
  <2>1. d.msg \in Saved'
    BY <1>1, <1>3, SavedKept
  <2>2. pos' = pos
    BY DEF SaveMessage
  <2> QED BY <1>1, <1>2, <2>1, <2>2 DEF Accounted, Recorded, Delivered
<1>4. CASE row[d.id] # None
  <2>1. PICK j \in Indices : Deliveries[j].id = d.id /\ Deliveries[j].msg = row[d.id]
    BY <1>1, <1>4 DEF RowInv
  <2>2. Deliveries[j].block = d.block
    BY <1>1, <2>1, BlockOfIdIs
  <2>3. row[d.id] \in Delivered(d.block) \cap Saved
    BY <1>1, <1>4, <2>1, <2>2 DEF Delivered, Saved
  <2>4. Accounted(d.block) /\ pos' = pos
    BY <2>3 DEF Accounted, Recorded, SaveMessage
  <2> QED BY <1>1, <2>4, RecordsKept
<1> QED BY <1>1, <1>3, <1>4

-----------------------------------------------------------------------------
(* Types. *)

\* The types are kept.
LEMMA TypeStep ==
  ASSUME TypeOK, RowInv, WalkInv, [Next]_vars
  PROVE  TypeOK'
<1>t. /\ MaxL1 \in Nat \ {0} /\ MaxFaults \in Nat /\ Len(Deliveries) \in Nat
      /\ 0 \in 0 .. Len(Deliveries) + 1
  BY BoundsAssumption, DeliveryTypes
<1>r. row' \in [Ids -> Messages \cup {None}] /\ Saved \subseteq Saved'
  BY RecordsKept
<1>f. Fault => faults' \in 0 .. MaxFaults
  BY <1>t DEF Fault, TypeOK
<1>w. WatcherLinking \subseteq Messages
  BY CurrentIn DEF WatcherLinking, Linking
<1>e. EndTick => /\ at' \in Places /\ todo' \subseteq Saved'
                 /\ start' \in L1Blocks \cup {None} /\ to' \in L1Blocks \cup {None}
                 /\ pos' \in 0 .. Len(Deliveries) + 1
  BY <1>t DEF EndTick, Places, None
<1>m. at \in Linking /\ Return =>
        /\ at' \in Places /\ todo' \subseteq Saved'
        /\ start' \in L1Blocks \cup {None} /\ to' \in L1Blocks \cup {None}
        /\ pos' \in 0 .. Len(Deliveries) + 1
  BY <1>r, ReturnsTo DEF TypeOK, Places
<1> USE DEF chainVars, tickVars, historyVars
<1>1. CASE Tick
  <2>1. Cursor \in 0 .. MaxL1 /\ l1Head \in 1 .. MaxL1
    BY CursorIs DEF TypeOK, L1Blocks
  <2>2. FromBlock \in L1Blocks
    BY <1>1, <1>t, <2>1 DEF Tick, FromBlock, L1Blocks, None
  <2>3. FirstFrom(FromBlock) \in 0 .. Len(Deliveries) + 1
    BY <1>t, <2>2, FirstFromSplits, SMTT(40) DEF L1Blocks
  <2>4. leftBehind' \subseteq L1Blocks
    <3>1. leftBehind \subseteq L1Blocks /\ origin \in L1Blocks \cup {None}
      BY DEF TypeOK
    <3>2. FromBlock \in L1Blocks /\ (origin # None => origin .. FromBlock - 1 \subseteq L1Blocks)
      BY <1>t, <2>2, <3>1 DEF L1Blocks, None
    <3> QED BY <1>1, <3>1, <3>2 DEF Tick
  <2>5. origin' \in L1Blocks \cup {None}
    BY <1>1, <2>2 DEF Tick, TypeOK
  <2> QED
    BY <1>1, <1>r, <2>2, <2>3, <2>4, <2>5 DEF Tick, TypeOK, Places
<1>2. CASE SaveMessage
  BY <1>2, <1>r DEF SaveMessage, TypeOK, Places
<1>3. CASE SaveRefused
  BY <1>3, <1>e, <1>r DEF SaveRefused, TypeOK
<1>4. CASE BatchScanned
  <2>1. BatchEnd \in L1Blocks /\ (BatchEnd < to => BatchEnd + 1 \in L1Blocks)
    BY <1>4, <1>t, BatchEndIn DEF BatchScanned, TypeOK, L1Blocks, None
  <2> QED
    BY <1>4, <1>r, <2>1 DEF BatchScanned, TypeOK, Places
<1>5. CASE Reconcile
  BY <1>5, <1>e, <1>r DEF Reconcile, TypeOK, Places
<1>6. CASE Lookup
  <2>1. CASE Return
    BY <1>6, <1>m, <1>r, <2>1 DEF Lookup, TypeOK, Linking
  <2>2. CASE ~Return
    BY <1>6, <1>r, <2>2 DEF Lookup, TypeOK, Places
  <2> QED BY <2>1, <2>2
<1>7. CASE FetchTicket
  <2>1. faults' \in 0 .. MaxFaults
    BY <1>7, <1>f DEF FetchTicket, TypeOK
  <2>2. txs' \subseteq blocks' /\ blocks' \subseteq minted
    BY <1>7 DEF FetchTicket, TypeOK
  <2>3. CASE Return
    BY <1>7, <1>m, <1>r, <2>1, <2>2, <2>3 DEF FetchTicket, TypeOK, Linking
  <2>4. CASE ~Return
    BY <1>7, <1>r, <2>1, <2>2, <2>4 DEF FetchTicket, TypeOK, Places
  <2> QED BY <2>3, <2>4
<1>8. CASE PersistTicket
  BY <1>8, <1>r DEF PersistTicket, TypeOK, WalkInv, Places
<1>9. CASE UpdateLink
  BY <1>9, <1>m, <1>r DEF UpdateLink, TypeOK, Linking
<1>10. CASE WatchFails
  BY <1>10, <1>e, <1>f, <1>r, <1>w DEF WatchFails, TypeOK
<1>11. CASE Crash
  <2>1. {l[2] : l \in linking \ linking'} \subseteq Messages
    BY DEF TypeOK
  <2>2. linking' \subseteq linking /\ lastScanned' = None
    BY <1>11 DEF Crash
  <2> QED
    BY <1>11, <1>e, <1>f, <1>r, <1>w, <2>1, <2>2 DEF Crash, TypeOK
<1>12. ASSUME NEW p \in Savers, NEW t \in Messages, SaveTransactions(p, t)
       PROVE  TypeOK'
  BY <1>12, <1>r DEF SaveTransactions, TypeOK
<1>13. ASSUME NEW p \in Savers, NEW t \in Messages, LinkL2Transaction(p, t)
       PROVE  TypeOK'
  BY <1>13, <1>r DEF LinkL2Transaction, TypeOK
<1>14. ASSUME NEW p \in Savers, NEW t \in Messages, LinkFails(p, t)
       PROVE  TypeOK'
  BY <1>14, <1>f, <1>r DEF LinkFails, TypeOK
<1>15. CASE NewL1Block
  <2>1. l1Head' \in L1Blocks /\ lastScanned' \in L1Blocks \cup {None}
    BY <1>15, <1>t DEF NewL1Block, TypeOK, L1Blocks, None
  <2> QED
    BY <1>15, <1>r, <2>1 DEF NewL1Block, TypeOK
<1>16. ASSUME NEW t \in Messages, Mint(t) PROVE TypeOK'
  BY <1>16, <1>r DEF Mint, TypeOK
<1>17. CASE UNCHANGED vars
  BY <1>17, <1>r DEF vars, TypeOK
<1> QED
  BY <1>1, <1>2, <1>3, <1>4, <1>5, <1>6, <1>7, <1>8, <1>9, <1>10, <1>11, <1>12,
     <1>13, <1>14, <1>15, <1>16, <1>17 DEF Next, WatchStep
-----------------------------------------------------------------------------
(* The watcher's position, and what lies behind it. *)

\* A reconciliation that has something to link takes some of it.
LEMMA ReconcileTakes ==
  ASSUME TypeOK, Reconcile, ~EndTick
  PROVE  todo' # {}
<1> DEFINE unlinked == Saved \ linked
<1>1. /\ unlinked # {}
      /\ Cardinality(todo') = Min({Limit, Cardinality(unlinked)})
  BY DEF Reconcile
<1>2. IsFiniteSet(unlinked) /\ Cardinality(unlinked) \in Nat
  BY SavedFinite, FS_Difference, FS_CardinalityType
<1>3. Cardinality(unlinked) # 0
  BY <1>1, <1>2, FS_EmptySet
<1>4. Min({Limit, Cardinality(unlinked)}) # 0
  <2>1. {Limit, Cardinality(unlinked)} \subseteq Nat
    BY <1>2, BoundsAssumption
  <2>2. Min({Limit, Cardinality(unlinked)}) \in {Limit, Cardinality(unlinked)}
    BY <2>1, MinOf
  <2> QED BY <1>3, <2>2, BoundsAssumption
<1> QED BY <1>1, <1>4, FS_EmptySet

\* The watcher's position stays among the deliveries of its range.
LEMMA WalkStep ==
  ASSUME TypeOK, RowInv, WalkInv, [Next]_vars
  PROVE  WalkInv'
<1> USE DEF tickVars, historyVars, chainVars
<1>1. ASSUME UNCHANGED <<tickVars, row>>, blocks \subseteq blocks' PROVE WalkInv'
  BY <1>1, CurrentKept, RecordsKept DEF WalkInv
<1>2. CASE EndTick
  BY <1>2 DEF EndTick, WalkInv, Linking
<1>3. CASE at \in Linking /\ Return
  BY <1>3, ReturnsTo DEF WalkInv, Linking
<1>4. ASSUME at \in Linking, UNCHANGED <<row, start, to, pos, todo>>,
             at' \in Linking, at' = "persist" => Current \in blocks'
      PROVE  WalkInv'
  BY <1>4, CurrentKept, RecordsKept DEF WalkInv, Linking
<1>5. CASE Tick
  <2>1. Cursor \in 0 .. MaxL1 /\ l1Head \in 1 .. MaxL1 /\ MaxL1 \in Nat
    BY CursorIs, BoundsAssumption DEF TypeOK, L1Blocks
  <2>2. FromBlock \in L1Blocks /\ FromBlock <= l1Head
    BY <1>5, <2>1 DEF Tick, FromBlock, L1Blocks, None
  <2>3. FirstFrom(FromBlock) >= 1
    BY <2>2, DeliveryTypes, FirstFromSplits DEF L1Blocks
  <2>4. todo = {} /\ at' = "scan" /\ start' = FromBlock /\ to' = l1Head
        /\ pos' = FirstFrom(FromBlock) /\ todo' = todo
    BY <1>5 DEF Tick, WalkInv
  <2> QED
    BY <2>1, <2>2, <2>3, <2>4 DEF WalkInv, Linking, L1Blocks
<1>6. CASE SaveMessage
  <2>1. at = "scan" /\ at' = "lookup" /\ UNCHANGED <<start, to, pos, todo>>
    BY <1>6 DEF SaveMessage
  <2> QED
    BY <1>6, <2>1, SavedRecords DEF WalkInv, Linking
<1>7. CASE BatchScanned
  <2>1. /\ at = "scan" /\ BatchEnd \in L1Blocks /\ BatchEnd <= to
        /\ start \in L1Blocks /\ to \in L1Blocks /\ start <= to /\ pos >= 1
    BY <1>7, BatchEndIn DEF BatchScanned, WalkInv
  <2>2. BatchEnd < to => BatchEnd + 1 \in L1Blocks /\ BatchEnd + 1 <= to
    BY <2>1, BoundsAssumption DEF L1Blocks
  <2> QED
    BY <1>7, <2>1, <2>2 DEF BatchScanned, WalkInv, Linking
<1>8. CASE Reconcile
  <2>1. CASE EndTick
    BY <1>2, <2>1
  <2>2. CASE ~EndTick
    BY <1>8, <2>2, ReconcileTakes DEF Reconcile, WalkInv, Linking
  <2> QED BY <2>1, <2>2
<1>9. CASE Lookup
  BY <1>3, <1>4, <1>9 DEF Lookup, Linking
<1>10. CASE FetchTicket
  BY <1>3, <1>4, <1>10 DEF FetchTicket, Linking
<1>11. CASE PersistTicket \/ UpdateLink
  BY <1>3, <1>4, <1>11 DEF PersistTicket, UpdateLink, Linking
<1>12. CASE SaveRefused \/ WatchFails \/ Crash
  BY <1>2, <1>12 DEF SaveRefused, WatchFails, Crash
<1>13. ASSUME NEW p \in Savers, NEW t \in Messages,
              SaveTransactions(p, t) \/ LinkL2Transaction(p, t) \/ LinkFails(p, t)
       PROVE  WalkInv'
  BY <1>1, <1>13 DEF SaveTransactions, LinkL2Transaction, LinkFails
<1>14. CASE NewL1Block \/ UNCHANGED vars \/ \E t \in Messages : Mint(t)
  BY <1>1, <1>14 DEF NewL1Block, Mint, vars
<1> QED
  BY <1>5, <1>6, <1>7, <1>8, <1>9, <1>10, <1>11, <1>12, <1>13, <1>14
  DEF Next, WatchStep

\* The blocks that the two cursors take for done have left a record each.
LEMMA BehindCursor ==
  ASSUME TypeOK, PassedInv, NEW b \in L1Blocks, origin <= b, b <= Cursor
  PROVE  Accounted(b)
<1>1. CASE Cursor = lastScanned
  BY <1>1 DEF PassedInv
<1>2. CASE \E i \in Ids : row[i] # None /\ Cursor = BlockOfId(i)
  BY <1>2 DEF PassedInv
<1> QED BY <1>1, <1>2, CursorIs

\* All of a batch lies before the position once the inner loops are through.
LEMMA BatchPassed ==
  ASSUME TypeOK, WalkInv, PassedInv, at = "scan", ~InBatch,
         NEW b \in L1Blocks, origin <= b, b <= BatchEnd
  PROVE  Accounted(b)
<1>1. CASE Delivered(b) = {}
  BY <1>1 DEF Accounted, Recorded
<1>2. CASE Delivered(b) # {}
  <2>1. PICK j \in Indices : Deliveries[j].block = b
    BY <1>2 DEF Delivered
  <2>2. j < pos
    <3>1. j \in 1 .. Len(Deliveries) /\ pos \in 0 .. Len(Deliveries) + 1 /\ pos >= 1
          /\ Len(Deliveries) \in Nat /\ b \in Int /\ BatchEnd \in Int
      BY BatchEndIn, DeliveryTypes, BoundsAssumption DEF TypeOK, WalkInv, Indices, L1Blocks
    <3>2. CASE pos \notin Indices
      BY <3>1, <3>2 DEF Indices
    <3>3. CASE pos \in Indices
      <4>1. Deliveries[pos].block > BatchEnd /\ Deliveries[pos].block \in Int
        BY <3>1, <3>3, DeliveryTypes DEF InBatch
      <4>2. pos <= j => Deliveries[pos].block <= Deliveries[j].block
        BY <3>3, DeliveriesAssumption
      <4> QED BY <2>1, <3>1, <4>1, <4>2
    <3> QED BY <3>2, <3>3
  <2> QED BY <2>1, <2>2 DEF PassedInv
<1> QED BY <1>1, <1>2

\* What either cursor or the position goes past has a record.
LEMMA PassedStep ==
  ASSUME TypeOK, RowInv, WalkInv, WalkInv', PassedInv, [Next]_vars
  PROVE  PassedInv'
<1> USE DEF tickVars, historyVars, chainVars
<1>t. /\ MaxL1 \in Nat /\ origin \in 0 .. MaxL1 /\ lastScanned \in 0 .. MaxL1
      /\ start \in 0 .. MaxL1 /\ pos \in Nat /\ l1Head \in 1 .. MaxL1
      /\ L1Blocks = 1 .. MaxL1
  BY BoundsAssumption, DeliveryTypes DEF TypeOK, L1Blocks, None
<1>r. \A b : Accounted(b) => Accounted(b)'
  BY RecordsKept
<1>1. ASSUME UNCHANGED <<row, origin>>, lastScanned' <= lastScanned,
             lastScanned' \in Int,
             at' # "idle" => at # "idle" /\ start' = start,
             at' = "scan" \/ (at' \in Linking /\ todo' = {}) =>
               /\ at = "scan" \/ (at \in Linking /\ todo = {})
               /\ \A j \in Indices : j < pos' => j < pos \/ Accounted(Deliveries[j].block)
      PROVE  PassedInv'
  <2>1. \A b \in L1Blocks : origin' <= b /\ b <= lastScanned' => Accounted(b)'
    BY <1>1, <1>r, <1>t DEF PassedInv
  <2>2. \A i \in Ids, b \in L1Blocks :
          row'[i] # None /\ origin' <= b /\ b <= BlockOfId(i) => Accounted(b)'
    BY <1>1, <1>r DEF PassedInv
  <2>3. at' # "idle" => \A b \in L1Blocks : origin' <= b /\ b < start' => Accounted(b)'
    BY <1>1, <1>r DEF PassedInv
  <2>4. at' = "scan" \/ (at' \in Linking /\ todo' = {}) =>
          \A j \in Indices : j < pos' /\ origin' <= Deliveries[j].block
             => Accounted(Deliveries[j].block)'
    BY <1>1, <1>r DEF PassedInv
  <2> QED BY <2>1, <2>2, <2>3, <2>4 DEF PassedInv
<1>2. CASE Tick
  <2>1. /\ Cursor \in 0 .. MaxL1 /\ FromBlock \in Int
        /\ Cursor # None => FromBlock = Cursor + 1
        /\ start' = FromBlock /\ pos' = FirstFrom(FromBlock) /\ UNCHANGED <<row, lastScanned>>
        /\ at' = "scan"
    BY <1>2, <1>t, CursorIs DEF Tick, FromBlock, None
  <2>2. \A j \in Indices : j < pos' => /\ Deliveries[j].block \in L1Blocks
                                       /\ Deliveries[j].block < FromBlock
    <3>1. \A j \in Indices : Deliveries[j].block \in L1Blocks
      BY <1>t, DeliveryTypes
    <3>2. \A j \in Indices : j < FirstFrom(FromBlock) => Deliveries[j].block < FromBlock
      BY <2>1, FirstFromSplits
    <3> QED BY <2>1, <3>1, <3>2
  <2>3. CASE Cursor = None /\ origin = None
    <3>1. lastScanned = None /\ \A i \in Ids : row[i] = None
      <4>1. lastScanned <= Cursor /\ \A i \in Ids : row[i] # None => BlockOfId(i) <= Cursor
        BY CursorIs
      <4>2. \A i \in Ids : BlockOfId(i) \in Int /\ BlockOfId(i) >= 1
        BY <1>t, IdDelivered
      <4> QED BY <1>t, <2>3, <4>1, <4>2 DEF None
    <3>2. origin' = FromBlock
      BY <1>2, <2>3 DEF Tick
    <3>3. \A b \in L1Blocks : ~(b <= lastScanned) /\ b \in Int
      BY <1>t, <3>1 DEF None
    <3>4. \A j \in Indices : j < pos' => ~(origin' <= Deliveries[j].block)
      BY <1>t, <2>1, <2>2, <3>2
    <3>5. \A b \in L1Blocks : ~(origin' <= b /\ b < start')
      BY <2>1, <3>2, <3>3
    <3> QED BY <2>1, <3>1, <3>3, <3>4, <3>5 DEF PassedInv
  <2>5. CASE Cursor = None /\ origin # None
    <3>1. origin' = origin /\ leftBehind' = leftBehind \cup (origin .. FromBlock - 1)
      BY <1>2, <2>5 DEF Tick
    <3>2. lastScanned = None /\ \A i \in Ids : row[i] = None
      <4>1. lastScanned <= Cursor /\ \A i \in Ids : row[i] # None => BlockOfId(i) <= Cursor
        BY CursorIs
      <4>2. \A i \in Ids : BlockOfId(i) \in Int /\ BlockOfId(i) >= 1
        BY <1>t, IdDelivered
      <4> QED BY <1>t, <2>5, <4>1, <4>2 DEF None
    <3>3. \A b \in L1Blocks : origin <= b /\ b < FromBlock => Accounted(b)'
      BY <1>t, <2>1, <3>1 DEF Accounted
    <3>4. \A b \in L1Blocks : ~(b <= lastScanned) /\ b \in Int
      BY <1>t, <3>2 DEF None
    <3>5. \A j \in Indices : j < pos' /\ origin <= Deliveries[j].block
             => Accounted(Deliveries[j].block)'
      BY <2>2, <3>3
    <3> QED BY <2>1, <3>1, <3>2, <3>3, <3>4, <3>5 DEF PassedInv
  <2>4. CASE Cursor # None
    <3>1. origin' = IF origin = None THEN FromBlock ELSE origin
      BY <1>2 DEF Tick
    <3>4. origin <= origin' /\ origin' \in Int
      BY <1>t, <2>1, <2>4, <3>1 DEF None
    <3>2. \A b \in L1Blocks : origin <= b /\ b < FromBlock => Accounted(b)
      BY <1>t, <2>1, <2>4, BehindCursor
    <3>3. \A j \in Indices : j < pos' /\ origin <= Deliveries[j].block
             => Accounted(Deliveries[j].block)
      BY <2>2, <3>2
    <3>5. \A b \in L1Blocks : origin' <= b => origin <= b
      BY <1>t, <3>4
    <3>6. \A i \in Ids, b \in L1Blocks :
            row'[i] # None /\ origin' <= b /\ b <= BlockOfId(i) => Accounted(b)'
      BY <1>r, <2>1, <3>5 DEF PassedInv
    <3>7. \A b \in L1Blocks : origin' <= b /\ b <= lastScanned' => Accounted(b)'
      BY <1>r, <2>1, <3>5 DEF PassedInv
    <3>8. \A j \in Indices : j < pos' /\ origin' <= Deliveries[j].block
             => Accounted(Deliveries[j].block)'
      BY <1>r, <2>2, <3>3, <3>5
    <3>9. \A b \in L1Blocks : origin' <= b /\ b < start' => Accounted(b)'
      BY <1>r, <2>1, <3>2, <3>5
    <3> QED BY <3>6, <3>7, <3>8, <3>9 DEF PassedInv
  <2> QED BY <2>3, <2>4, <2>5
<1>3. CASE SaveMessage
  <2> DEFINE d == Deliveries[pos]
  <2>1. /\ pos \in Indices /\ d.id \in Ids /\ d.block \in Int /\ d.msg \in Messages
        /\ row' = [row EXCEPT ![d.id] = IF @ = None THEN d.msg ELSE @]
        /\ UNCHANGED <<lastScanned, start, to, pos, todo, origin>> /\ at = "scan"
        /\ at' = "lookup" /\ d.block <= BatchEnd
    BY <1>3, DeliveryTypes DEF SaveMessage, InBatch
  <2>2. \A k \in Ids : row'[k] # None => row[k] # None \/ k = d.id
    BY <2>1, SavedKept
  <2>3. Accounted(d.block)'
    <3>1. Accounted(Deliveries[pos].block)'
      BY <1>3, SavedRecords
    <3> QED BY <2>1, <3>1
  <2>4. ASSUME NEW b \in L1Blocks, origin <= b, b <= d.block PROVE Accounted(b)'
    <3>1. CASE Delivered(b) = {}
      BY <3>1 DEF Accounted, Recorded, Delivered
    <3>2. CASE b = d.block
      BY <2>1, <2>3, <3>2 DEF Accounted, Recorded, Delivered
    <3>3. CASE b # d.block /\ Delivered(b) # {}
      <4>1. PICK j \in Indices : Deliveries[j].block = b
        BY <3>3 DEF Delivered
      <4>2. pos <= j => d.block <= Deliveries[j].block
        BY <2>1, DeliveriesAssumption
      <4>3. j < pos
        BY <1>t, <2>1, <2>4, <3>3, <4>1, <4>2 DEF Indices
      <4> QED BY <1>r, <2>1, <2>4, <4>1, <4>3 DEF PassedInv
    <3> QED BY <3>1, <3>2, <3>3
  <2>5. BlockOfId(d.id) = d.block
    BY <2>1, BlockOfIdIs
  <2>6. \A i \in Ids, b \in L1Blocks :
          row'[i] # None /\ origin <= b /\ b <= BlockOfId(i) => Accounted(b)'
    BY <1>r, <2>2, <2>4, <2>5 DEF PassedInv
  <2> QED BY <1>r, <2>1, <2>6 DEF PassedInv
<1>4. CASE BatchScanned
  <2>1. /\ at = "scan" /\ ~InBatch /\ lastScanned' = BatchEnd /\ UNCHANGED <<row, pos, todo, origin>>
        /\ BatchEnd \in Int
        /\ (start' = start /\ at' = "pending") \/ (start' = BatchEnd + 1 /\ at' = at)
    BY <1>4, <1>t, BatchEndIn DEF BatchScanned
  <2>2. \A b \in L1Blocks : origin <= b /\ b <= BatchEnd => Accounted(b)
    BY <2>1, BatchPassed
  <2>3. \A b \in L1Blocks : origin <= b /\ b < start' => Accounted(b)
    BY <1>t, <2>1, <2>2 DEF PassedInv
  <2> QED BY <1>r, <2>1, <2>2, <2>3 DEF PassedInv, Linking
<1>5. ASSUME EndTick, UNCHANGED <<row, origin>>, lastScanned' \in {lastScanned, None}
      PROVE  PassedInv'
  BY <1>1, <1>5, <1>t DEF EndTick, Linking, None
<1>6. ASSUME at \in Linking, Return, UNCHANGED <<row, origin, lastScanned>>
      PROVE  PassedInv'
  <2>1. /\ at' \in {"scan", "lookup", "idle"} /\ (at' = "lookup" => todo' # {})
        /\ at' # "idle" => start' = start
        /\ at' = "scan" => todo = {} /\ pos' = pos + 1
    BY <1>6, ReturnsTo
  <2>2. at' = "scan" => Accounted(Deliveries[pos].block)
    BY <1>6, <2>1 DEF WalkInv
  <2>3. at' = "scan" => \A j \in Indices : j < pos' => j < pos \/ j = pos
    BY <1>t, <2>1 DEF Indices
  <2> QED BY <1>1, <1>6, <1>t, <2>1, <2>2, <2>3 DEF Linking
<1>7. ASSUME at \in Linking, at' \in Linking,
             UNCHANGED <<row, origin, lastScanned, start, pos, todo>>
      PROVE  PassedInv'
  BY <1>1, <1>7, <1>t DEF Linking
<1>8. CASE Reconcile
  <2>1. CASE EndTick
    BY <1>5, <1>8, <2>1 DEF Reconcile
  <2>2. CASE ~EndTick
    <3>1. at = "pending" /\ at' = "lookup" /\ UNCHANGED <<row, origin, lastScanned, start>>
      BY <1>8, <2>2 DEF Reconcile
    <3>2. todo' # {}
      BY <1>8, <2>2, ReconcileTakes
    <3> QED BY <1>1, <1>t, <3>1, <3>2 DEF Linking
  <2> QED BY <2>1, <2>2
<1>9. CASE Lookup
  BY <1>6, <1>7, <1>9 DEF Lookup, Linking
<1>10. CASE FetchTicket
  BY <1>6, <1>7, <1>10 DEF FetchTicket, Linking
<1>11. CASE PersistTicket \/ UpdateLink
  BY <1>6, <1>7, <1>11 DEF PersistTicket, UpdateLink, Linking
<1>12. CASE SaveRefused \/ WatchFails \/ Crash
  BY <1>5, <1>12 DEF SaveRefused, WatchFails, Crash
<1>13. ASSUME NEW p \in Savers, NEW t \in Messages,
              SaveTransactions(p, t) \/ LinkL2Transaction(p, t) \/ LinkFails(p, t)
       PROVE  PassedInv'
  BY <1>1, <1>13, <1>t DEF SaveTransactions, LinkL2Transaction, LinkFails
<1>14. CASE NewL1Block
  <2>1. lastScanned' \in Int /\ lastScanned' <= lastScanned
    BY <1>14, <1>t DEF NewL1Block
  <2> QED BY <1>1, <1>14, <2>1 DEF NewL1Block
<1>15. CASE UNCHANGED vars \/ \E t \in Messages : Mint(t)
  BY <1>1, <1>15, <1>t DEF Mint, vars
<1> QED
  BY <1>2, <1>3, <1>4, <1>8, <1>9, <1>10, <1>11, <1>12, <1>13, <1>14, <1>15
  DEF Next, WatchStep
-----------------------------------------------------------------------------
(* Who is to make a link. *)

\* Whoever comes second to a ticket, record or transaction, is about to link it.
LEMMA LinkStep ==
  ASSUME TypeOK, TypeOK', WalkInv, WalkInv', LinkInv, [Next]_vars
  PROVE  LinkInv'
<1> USE DEF tickVars, historyVars, chainVars
<1>1. ASSUME UNCHANGED <<row, txs>>, linked \subseteq linked', cut \subseteq cut',
             \A m \in (Saved \cap txs) \ linked' :
               \/ m \in cut'
               \/ \E p \in Savers : <<p, m>> \in linking'
               \/ at' \in {"lookup", "update"} /\ m = Current'
      PROVE  LinkInv'
  BY <1>1 DEF LinkInv, Saved
<1>2. ASSUME UNCHANGED <<row, txs, linked>>, cut \subseteq cut', linking \subseteq linking',
             at \notin {"lookup", "update"}
      PROVE  LinkInv'
  BY <1>1, <1>2 DEF LinkInv
<1>3. ASSUME UNCHANGED <<row, tickVars>>, cut \subseteq cut', linked \subseteq linked',
             \A m \in txs' \ txs : \E p \in Savers : <<p, m>> \in linking',
             \A l \in linking \ linking' : l[2] \in cut' \/ l[2] \notin Saved \/ l[2] \in linked'
      PROVE  LinkInv'
  <2>1. Current' = Current /\ Saved' = Saved
    BY <1>3, CurrentKept DEF Saved
  <2>2. ASSUME NEW m \in (Saved \cap txs') \ linked', m \notin cut',
               ~ \E p \in Savers : <<p, m>> \in linking'
        PROVE  at' \in {"lookup", "update"} /\ m = Current'
    <3>1. m \in (Saved \cap txs) \ linked /\ m \notin cut
      BY <1>3, <2>2
    <3>2. ASSUME NEW p \in Savers, <<p, m>> \in linking PROVE FALSE
      <4>1. <<p, m>>[2] = m /\ <<p, m>> \in linking \ linking'
        BY <2>2, <3>2
      <4>2. m \in cut' \/ m \notin Saved \/ m \in linked'
        BY <1>3, <4>1
      <4> QED BY <2>2, <3>1, <4>2
    <3> QED BY <1>3, <2>1, <3>1, <3>2 DEF LinkInv
  <2> QED BY <2>1, <2>2 DEF LinkInv
<1>4. CASE Tick \/ SaveRefused \/ BatchScanned \/ Reconcile
  BY <1>2, <1>4 DEF Tick, SaveRefused, BatchScanned, Reconcile
<1>5. CASE SaveMessage
  <2> DEFINE d == Deliveries[pos]
  <2>1. /\ d.id \in Ids /\ d.msg \in Messages /\ at = "scan" /\ at' = "lookup"
        /\ row' = [row EXCEPT ![d.id] = IF @ = None THEN d.msg ELSE @]
        /\ UNCHANGED <<linked, txs, linking, cut, todo, pos>>
    BY <1>5, DeliveryTypes DEF SaveMessage, InBatch
  <2>2. Saved' \subseteq Saved \cup {d.msg}
    BY <2>1, SavedKept
  <2>3. Current' = d.msg
    BY <2>1 DEF Current, WalkInv
  <2> QED BY <2>1, <2>2, <2>3 DEF LinkInv
<1>6. CASE Lookup
  <2>1. UNCHANGED <<row, txs, linked, linking, cut>> /\ at = "lookup"
    BY <1>6 DEF Lookup
  <2>2. CASE Current \in linked
    BY <1>1, <2>1, <2>2 DEF LinkInv
  <2>3. CASE Current \notin linked
    <3>1. at' = (IF Current \in txs THEN "update" ELSE "fetch") /\ UNCHANGED <<todo, pos>>
      BY <1>6, <2>3 DEF Lookup
    <3>2. Current' = Current
      BY <2>1, <3>1, CurrentKept
    <3> QED BY <1>1, <2>1, <3>1, <3>2 DEF LinkInv
  <2> QED BY <2>2, <2>3
<1>7. CASE FetchTicket
  BY <1>2, <1>7 DEF FetchTicket
<1>8. CASE PersistTicket
  <2>1. /\ UNCHANGED <<row, linked, linking, cut, todo, pos>>
        /\ at = "persist" /\ at' = "update" /\ txs' = txs \cup {Current}
    BY <1>8 DEF PersistTicket
  <2>2. Current' = Current /\ Saved' = Saved
    BY <2>1, CurrentKept DEF Saved
  <2> QED BY <2>1, <2>2 DEF LinkInv
<1>9. CASE UpdateLink
  <2>1. UNCHANGED <<row, txs, linking, cut>> /\ linked' = linked \cup ({Current} \cap Saved)
    BY <1>9 DEF UpdateLink
  <2> QED BY <1>1, <2>1 DEF LinkInv
<1>10. CASE WatchFails
  <2>1. UNCHANGED <<row, txs, linked, linking>> /\ cut' = cut \cup WatcherLinking
    BY <1>10 DEF WatchFails
  <2> QED BY <1>1, <2>1 DEF LinkInv, WatcherLinking
<1>11. CASE Crash
  <2>1. /\ UNCHANGED <<row, txs, linked>>
        /\ cut' = cut \cup WatcherLinking \cup {l[2] : l \in linking \ linking'}
    BY <1>11 DEF Crash
  <2>2. ASSUME NEW m, NEW p \in Savers, <<p, m>> \in linking
        PROVE  <<p, m>> \in linking' \/ m \in cut'
    BY <2>1, <2>2
  <2> QED BY <1>1, <2>1, <2>2 DEF LinkInv, WatcherLinking
<1>12. ASSUME NEW p \in Savers, NEW t \in Messages, SaveTransactions(p, t)
       PROVE  LinkInv'
  BY <1>3, <1>12 DEF SaveTransactions
<1>13. ASSUME NEW p \in Savers, NEW t \in Messages, LinkL2Transaction(p, t)
       PROVE  LinkInv'
  BY <1>3, <1>13 DEF LinkL2Transaction
<1>14. ASSUME NEW p \in Savers, NEW t \in Messages, LinkFails(p, t)
       PROVE  LinkInv'
  BY <1>3, <1>14 DEF LinkFails
<1>15. CASE NewL1Block \/ UNCHANGED vars \/ \E t \in Messages : Mint(t)
  BY <1>3, <1>15 DEF NewL1Block, Mint, vars
<1> QED
  BY <1>4, <1>5, <1>6, <1>7, <1>8, <1>9, <1>10, <1>11, <1>12, <1>13, <1>14, <1>15
  DEF Next, WatchStep

-----------------------------------------------------------------------------
(* The theorems. *)

\* Nothing is recorded or scanned at first.
LEMMA InitHolds == Init => IInv
<1> SUFFICES ASSUME Init PROVE IInv
  OBVIOUS
<1>1. MaxL1 \in Nat \ {0} /\ MaxFaults \in Nat /\ Len(Deliveries) \in Nat
  BY BoundsAssumption, DeliveryTypes
<1>2. TypeOK
  BY <1>1 DEF Init, TypeOK, L1Blocks, Places, None, Saved
<1>3. RowInv /\ WalkInv /\ LinkInv
  BY DEF Init, RowInv, WalkInv, LinkInv, Linking
<1>4. PassedInv
  BY <1>1 DEF Init, PassedInv, Linking, L1Blocks, None
<1> QED BY <1>2, <1>3, <1>4 DEF IInv

\* The conjunction is an invariant.
LEMMA Invariance == Spec => []IInv
<1>1. IInv /\ [Next]_vars => IInv'
  BY TypeStep, RowInvStep, WalkStep, PassedStep, LinkStep DEF IInv
<1> QED BY InitHolds, <1>1, PTL DEF Spec

\* Every reachable state is one of the types: only recorded messages are linked or
\* in a reconciliation's list, a stored transaction has its block.
THEOREM TypeCorrect == Spec => []TypeOK
<1>1. IInv => TypeOK
  BY DEF IInv
<1> QED BY Invariance, <1>1, PTL

\* Behind the watcher's cursor, in memory or read back from the table, no L1 block
\* that had messages is without a record, whatever failed or crashed.
THEOREM NoBlockIsSkipped == Spec => []NoBlockSkipped
<1>1. IInv => NoBlockSkipped
  <2> SUFFICES ASSUME IInv, NEW b \in PassedL1Blocks PROVE Accounted(b)
    BY DEF NoBlockSkipped, Accounted
  <2>1. Cursor # None /\ b \in origin .. Cursor /\ Cursor \in 0 .. MaxL1
    BY CursorIs DEF PassedL1Blocks, IInv
  <2>2. CASE b \in L1Blocks
    BY <2>1, <2>2, BehindCursor DEF IInv
  <2>3. CASE b \notin L1Blocks
    <3>1. \A j \in Indices : Deliveries[j].block \in L1Blocks
      BY DeliveryTypes, BoundsAssumption DEF L1Blocks
    <3> QED BY <2>3, <3>1 DEF Accounted, Recorded, Delivered
  <2> QED BY <2>2, <2>3
<1> QED BY Invariance, <1>1, PTL

\* Record and ticket transaction always meet: whichever comes second, someone is
\* still about to link them, or a failure is on record.
THEOREM LinksAlwaysMeet == Spec => []LinksMeet
<1>1. IInv => LinksMeet
  BY DEF IInv, LinkInv, LinksMeet, WatcherLinking
<1> QED BY Invariance, <1>1, PTL
=============================================================================
