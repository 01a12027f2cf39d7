----------------------------- MODULE L1Messages -----------------------------
(***************************************************************************)
(* L1 -> L2 messages of the indexer: the watcher of the L1 Bridge contract *)
(* (jobs/watchL1Messages.ts) records a message for each retryable ticket,  *)
(* and the record is linked to the L2 transaction that created the ticket  *)
(* by whichever side comes second: saveL1Message -> tryLinkL1Message on    *)
(* the L1 side (services/l1MessageService.ts), saveTransactions ->         *)
(* linkL2Transaction on the L2 side (services/transactionService.ts), and  *)
(* failing both a reconciliation at the end of a watcher's tick.           *)
(*                                                                         *)
(* A ticket's L2 transaction hash is the message's requestId, so both are  *)
(* one model value; the RPC's own requestId field is a counter that equals *)
(* no message's, and is left out.  Each await is a step.                   *)
(***************************************************************************)
EXTENDS Integers, Sequences, FiniteSets, FiniteSetsExt

CONSTANTS
  MaxL1,      \* bound: the L1 blocks from here on are empty and count as one
  LogBatch,   \* LOG_BATCH_SIZE: L1 blocks per eth_getLogs call
  Limit,      \* how many pending messages one reconciliation takes
  MaxFaults,  \* bound: rejected awaits, unhelpful answers and crashes together
  MaxLinking, \* bound: saveTransactions calls between insert and link at once
  Savers,     \* the processes that call saveTransactions
  Indexer,    \* the one of them that also runs the watcher
  Messages,   \* retryable tickets
  Deliveries  \* [block, id, msg]: what the watcher's two inner loops go through

None == 0   \* null, whatever the type

L1Blocks == 1 .. MaxL1
Ids      == {d.id : d \in {Deliveries[i] : i \in 1 .. Len(Deliveries)}}
Indices  == 1 .. Len(Deliveries)

ASSUME BoundsAssumption ==
  /\ MaxL1 \in Nat \ {0} /\ LogBatch \in Nat \ {0} /\ Limit \in Nat \ {0}
  /\ MaxFaults \in Nat /\ MaxLinking \in Nat
ASSUME SaversAssumption == Indexer \in Savers
ASSUME MessagesAssumption == None \notin Messages

\* The events of a batch come in the order of the chain, each with its own
\* messageIndex, and each with every message of its L1 transaction.
ASSUME DeliveriesAssumption ==
  /\ Deliveries \in Seq([block : 1 .. MaxL1 - 1, id : Nat \ {0}, msg : Messages])
  /\ \A i, j \in Indices :
       /\ i <= j => Deliveries[i].block <= Deliveries[j].block
       /\ \/ Deliveries[i].id = Deliveries[j].id
          \/ Deliveries[i].msg = Deliveries[j].msg
          => Deliveries[i].block = Deliveries[j].block

VARIABLES
  l1Head,       \* the newest L1 block
  minted,       \* tickets that exist on L2
  row,          \* L1ToL2Message: id -> requestId, or None
  linked,       \* the requestIds whose row has l2TxHash set ("relayed")
  blocks,       \* tickets whose L2 block has a Block row
  txs,          \* tickets with a Transaction row
  lastScanned,  \* lastScannedL1Block, in memory; None is null
  at,           \* where the watcher is
  start,        \* first block of the watcher's batch
  to,           \* toBlock of the tick
  pos,          \* the delivery the watcher is at
  todo,         \* what is left of the reconciliation's list
  linking,      \* <<process, ticket>>: inserted, linkL2Transaction not run yet
  faults,
  origin,       \* history: the L1 block the first tick of all started at, or None
  leftBehind,   \* history: blocks since, below the start of a tick that again
                \* found neither a row nor a cursor in memory
  cut           \* history: messages a failure kept from being linked

chainVars   == <<l1Head, minted>>
tickVars    == <<at, start, to, pos, todo>>
historyVars == <<faults, origin, leftBehind, cut>>
vars == <<chainVars, row, linked, blocks, txs, lastScanned, tickVars, linking,
          historyVars>>

Places == {"idle", "scan",                \* between ticks; in the batch loop
           "lookup", "fetch", "persist", "update",       \* tryLinkL1Message
           "pending"}                     \* reconcileInitiatedL1Messages

Init ==
  /\ l1Head \in L1Blocks
  /\ minted = {}
  /\ row = [i \in Ids |-> None]
  /\ linked = {} /\ blocks = {} /\ txs = {}
  /\ lastScanned = None
  /\ at = "idle" /\ start = None /\ to = None /\ pos = None /\ todo = {}
  /\ linking = {}
  /\ faults = 0 /\ origin = None /\ leftBehind = {} /\ cut = {}

-----------------------------------------------------------------------------
(* Helpers. *)

Saved == {row[i] : i \in Ids} \ {None}

\* originBlockNumber of a delivered id, or of a recorded message.
BlockOfId(id) == (CHOOSE d \in {Deliveries[i] : i \in Indices} : d.id = id).block
BlockOf(m)    == BlockOfId(CHOOSE i \in Ids : row[i] = m)

\* getLatestIndexedL1BlockNumber.
LatestIndexed == Max({BlockOfId(i) : i \in {j \in Ids : row[j] # None}} \cup {None})

\* Resume from whichever is further ahead; from the head when there is neither.
Cursor == Max({LatestIndexed, lastScanned})

FromBlock == IF Cursor = None THEN l1Head ELSE Cursor + 1

BatchEnd == IF start + LogBatch - 1 > to THEN to ELSE start + LogBatch - 1

InBatch == pos \in Indices /\ Deliveries[pos].block <= BatchEnd

FirstFrom(b) == 1 + Cardinality({i \in Indices : Deliveries[i].block < b})

\* The list is oldest first; ties are the database's.
Oldest(S) == CHOOSE m \in S : \A n \in S : BlockOf(m) <= BlockOf(n)

\* The message tryLinkL1Message is called for: from the list when there is one,
\* and else from the batch loop.
Current == IF todo = {} THEN Deliveries[pos].msg ELSE Oldest(todo)

\* The tick is over, with or without an error: its locals are gone.
EndTick ==
  /\ at' = "idle"
  /\ start' = None /\ to' = None /\ pos' = None /\ todo' = {}

\* tryLinkL1Message returns: to the batch loop's next delivery, or to the
\* list's next message.
Return ==
  \/ /\ todo = {}
     /\ at' = "scan" /\ pos' = pos + 1
     /\ UNCHANGED <<start, to, todo>>
  \/ /\ todo # {} /\ todo # {Current}
     /\ at' = "lookup" /\ todo' = todo \ {Current}
     /\ UNCHANGED <<start, to, pos>>
  \/ todo = {Current} /\ EndTick

Fault == faults < MaxFaults /\ faults' = faults + 1

-----------------------------------------------------------------------------
(* The watcher. *)

Tick ==
  /\ at = "idle"
  /\ FromBlock <= l1Head
  /\ start' = FromBlock /\ to' = l1Head
  /\ pos' = FirstFrom(FromBlock)
  /\ at' = "scan"
  /\ origin' = IF origin = None THEN FromBlock ELSE origin
  /\ leftBehind' = IF Cursor = None /\ origin # None
                   THEN leftBehind \cup (origin .. FromBlock - 1) ELSE leftBehind
  /\ UNCHANGED <<chainVars, row, linked, blocks, txs, lastScanned, todo,
                 linking, faults, cut>>

\* Mutant: a ticket whose transaction is in the table is taken as linked by
\* whoever inserted it.
SaveMessageUnlinked ==
  LET d == Deliveries[pos]
  IN /\ at = "scan" /\ InBatch
     /\ row[d.id] # None \/ d.msg \notin Saved
     /\ row' = [row EXCEPT ![d.id] = IF @ = None THEN d.msg ELSE @]
     /\ at' = IF d.msg \in txs THEN "scan" ELSE "lookup"
     /\ pos' = IF d.msg \in txs THEN pos + 1 ELSE pos
     /\ UNCHANGED <<chainVars, linked, blocks, txs, lastScanned, start, to, todo,
                    linking, historyVars>>

\* saveL1Message's upsert on id: an existing row is left as it is.
SaveMessage ==
  LET d == Deliveries[pos]
  IN /\ at = "scan" /\ InBatch
     /\ row[d.id] # None \/ d.msg \notin Saved
     /\ row' = [row EXCEPT ![d.id] = IF @ = None THEN d.msg ELSE @]
     /\ at' = "lookup"
     /\ UNCHANGED <<chainVars, linked, blocks, txs, lastScanned, start, to, pos,
                    todo, linking, historyVars>>

\* The requestId is in the table under another id: the unique index refuses.
SaveRefused ==
  LET d == Deliveries[pos]
  IN /\ at = "scan" /\ InBatch
     /\ row[d.id] = None /\ d.msg \in Saved
     /\ EndTick
     /\ UNCHANGED <<chainVars, row, linked, blocks, txs, lastScanned, linking,
                    historyVars>>

\* Mutant: the cursor takes the tick's last block after its first batch.
BatchScannedToEnd ==
  /\ at = "scan" /\ ~InBatch
  /\ lastScanned' = to
  /\ at' = IF BatchEnd < to THEN "scan" ELSE "pending"
  /\ start' = IF BatchEnd < to THEN BatchEnd + 1 ELSE start
  /\ UNCHANGED <<chainVars, row, linked, blocks, txs, to, pos, todo, linking,
                 historyVars>>

\* Every event of the batch is done with.
BatchScanned ==
  /\ at = "scan" /\ ~InBatch
  /\ lastScanned' = BatchEnd
  /\ \/ /\ BatchEnd < to
        /\ start' = BatchEnd + 1
        /\ UNCHANGED at
     \/ /\ BatchEnd = to
        /\ at' = "pending"
        /\ UNCHANGED start
  /\ UNCHANGED <<chainVars, row, linked, blocks, txs, to, pos, todo, linking,
                 historyVars>>

\* Mutant: the tick ends without the reconciliation.
ReconcileNone ==
  /\ at = "pending"
  /\ EndTick
  /\ UNCHANGED <<chainVars, row, linked, blocks, txs, lastScanned, linking,
                 historyVars>>

\* reconcileInitiatedL1Messages: up to Limit unlinked messages, oldest first.
Reconcile ==
  LET unlinked == Saved \ linked
  IN /\ at = "pending"
     /\ \/ unlinked = {} /\ EndTick
        \/ /\ unlinked # {}
           /\ todo' \in SUBSET unlinked
           /\ Cardinality(todo') = Min({Limit, Cardinality(unlinked)})
           /\ \A m \in todo', n \in unlinked \ todo' : BlockOf(m) <= BlockOf(n)
           /\ at' = "lookup"
           /\ UNCHANGED <<start, to, pos>>
     /\ UNCHANGED <<chainVars, row, linked, blocks, txs, lastScanned, linking,
                    historyVars>>

\* tryLinkL1Message: linked already, or the ticket's transaction is in the
\* table, or it has to be fetched.
Lookup ==
  /\ at = "lookup"
  /\ \/ /\ Current \in linked
        /\ Return
     \/ /\ Current \notin linked
        /\ at' = IF Current \in txs THEN "update" ELSE "fetch"
        /\ UNCHANGED <<start, to, pos, todo>>
  /\ UNCHANGED <<chainVars, row, linked, blocks, txs, lastScanned, linking,
                 historyVars>>

\* Mutant: the ticket's L2 block is not stored before its transaction.
FetchTicketOnly ==
  /\ at = "fetch"
  /\ \/ Current \notin minted /\ Return
     \/ Current \in minted /\ at' = "persist" /\ UNCHANGED <<start, to, pos, todo>>
  /\ UNCHANGED <<chainVars, row, linked, blocks, txs, lastScanned, linking,
                 historyVars>>

\* fetchAndPersistL2Ticket up to saveBlock; a null answer ends it.
FetchTicket ==
  /\ at = "fetch"
  /\ \/ /\ Current \notin minted
        /\ Return
        /\ UNCHANGED <<blocks, faults>>
     \/ /\ Current \in minted
        /\ Return /\ Fault
        /\ UNCHANGED blocks
     \/ /\ Current \in minted
        /\ blocks' = blocks \cup {Current}
        /\ at' = "persist"
        /\ UNCHANGED <<start, to, pos, todo, faults>>
  /\ UNCHANGED <<chainVars, row, linked, txs, lastScanned, linking, origin,
                 leftBehind, cut>>

\* ... and from createMany of the one transaction on.
PersistTicket ==
  /\ at = "persist"
  /\ txs' = txs \cup {Current}
  /\ at' = "update"
  /\ UNCHANGED <<chainVars, row, linked, blocks, lastScanned, start, to, pos, todo,
                 linking, historyVars>>

\* updateMany where requestId matches and l2TxHash is null.
UpdateLink ==
  /\ at = "update"
  /\ linked' = linked \cup ({Current} \cap Saved)
  /\ Return
  /\ UNCHANGED <<chainVars, row, blocks, txs, lastScanned, linking, historyVars>>

WatchStep ==
  \/ Tick \/ SaveMessage \/ SaveRefused \/ BatchScanned \/ Reconcile
  \/ Lookup \/ FetchTicket \/ PersistTicket \/ UpdateLink

\* The message whose linking a failure of the watcher interrupts.
WatcherLinking ==
  IF at \in {"lookup", "fetch", "persist", "update"} THEN {Current} ELSE {}

\* An await of the watcher rejects.
WatchFails ==
  /\ at # "idle"
  /\ Fault
  /\ EndTick
  /\ cut' = cut \cup WatcherLinking
  /\ UNCHANGED <<chainVars, row, linked, blocks, txs, lastScanned, linking, origin,
                 leftBehind>>

-----------------------------------------------------------------------------
(* saveTransactions, as the live poll and the backfills call it. *)

\* createMany with skipDuplicates, for a block saved before.
SaveTransactions(p, t) ==
  /\ t \in minted
  /\ <<p, t>> \notin linking
  /\ Cardinality(linking) < MaxLinking
  /\ blocks' = blocks \cup {t}
  /\ txs' = txs \cup {t}
  /\ linking' = linking \cup {<<p, t>>}
  /\ UNCHANGED <<chainVars, row, linked, lastScanned, tickVars, historyVars>>

\* linkL2Transaction: a no-op when the message is not recorded yet.
LinkL2Transaction(p, t) ==
  /\ <<p, t>> \in linking
  /\ linked' = linked \cup ({t} \cap Saved)
  /\ linking' = linking \ {<<p, t>>}
  /\ UNCHANGED <<chainVars, row, blocks, txs, lastScanned, tickVars, historyVars>>

\* The update rejects; what the caller does next changes nothing here.
LinkFails(p, t) ==
  /\ <<p, t>> \in linking
  /\ Fault
  /\ linking' = linking \ {<<p, t>>}
  /\ cut' = cut \cup {t}
  /\ UNCHANGED <<chainVars, row, linked, blocks, txs, lastScanned, tickVars, origin,
                 leftBehind>>

\* The indexer's process dies and is started again.
Crash ==
  /\ Fault
  /\ EndTick
  /\ lastScanned' = None
  /\ linking' = {l \in linking : l[1] # Indexer}
  /\ cut' = cut \cup WatcherLinking \cup {l[2] : l \in linking \ linking'}
  /\ UNCHANGED <<chainVars, row, linked, blocks, txs, origin, leftBehind>>

-----------------------------------------------------------------------------
(* The chains. *)

\* Blocks past MaxL1 are empty: the watcher finds one more of them.
NewL1Block ==
  /\ \/ /\ l1Head < MaxL1
        /\ l1Head' = l1Head + 1
        /\ UNCHANGED lastScanned
     \/ /\ l1Head = MaxL1
        /\ lastScanned = MaxL1
        /\ lastScanned' = MaxL1 - 1
        /\ UNCHANGED l1Head
  /\ UNCHANGED <<minted, row, linked, blocks, txs, tickVars, linking, historyVars>>

\* The ticket of a message delivered on L1 is created on L2.
Mint(t) ==
  /\ t \notin minted
  /\ \E i \in Indices : Deliveries[i].msg = t /\ Deliveries[i].block <= l1Head
  /\ minted' = minted \cup {t}
  /\ UNCHANGED <<l1Head, row, linked, blocks, txs, lastScanned, tickVars, linking,
                 historyVars>>

Next ==
  \/ WatchStep \/ WatchFails \/ Crash
  \/ \E p \in Savers, t \in Messages :
       SaveTransactions(p, t) \/ LinkL2Transaction(p, t) \/ LinkFails(p, t)
  \/ NewL1Block \/ \E t \in Messages : Mint(t)

Spec == Init /\ [][Next]_vars

\* The watcher is called every 15 s and its awaits settle; Ethereum goes on and
\* the sequencer creates every ticket.  Nothing obliges a process to index the
\* ticket's L2 block.
Fairness ==
  /\ WF_vars(WatchStep)
  /\ WF_vars(NewL1Block)
  /\ \A t \in Messages : WF_vars(Mint(t))

FairSpec == Spec /\ Fairness

-----------------------------------------------------------------------------
(* Properties. *)

TypeOK ==
  /\ l1Head \in L1Blocks
  /\ minted \subseteq Messages
  /\ row \in [Ids -> Messages \cup {None}]
  /\ linked \subseteq Saved
  /\ txs \subseteq blocks /\ blocks \subseteq minted
  /\ lastScanned \in L1Blocks \cup {None}
  /\ at \in Places
  /\ start \in L1Blocks \cup {None} /\ to \in L1Blocks \cup {None}
  /\ pos \in 0 .. Len(Deliveries) + 1
  /\ todo \subseteq Saved
  /\ linking \subseteq Savers \X txs
  /\ faults \in 0 .. MaxFaults
  /\ origin \in L1Blocks \cup {None}
  /\ leftBehind \subseteq L1Blocks
  /\ cut \subseteq Messages

\* The L1 blocks since the watcher's first tick that no later tick comes back to.
PassedL1Blocks == IF Cursor = None THEN {} ELSE origin .. Cursor

Delivered(b) == {Deliveries[i].msg : i \in {j \in Indices : Deliveries[j].block = b}}

Recorded(b) == Delivered(b) # {} => Delivered(b) \cap Saved # {}

\* Since its first tick the watcher leaves an L1 block without any record of its
\* messages behind it in one way only, a tick that starts at the head again
\* because no message is recorded yet and the cursor in memory is lost: over all
\* other failures, crashes and resumes the two cursors lose no whole block.  (That
\* way is against the doc, by which only messages from before the watcher first ran
\* stay unindexed: watchL1Messages.ts:44-46, docs/L1_L2_MESSAGES.md:44-45.)
NoBlockSkipped == \A b \in PassedL1Blocks \ leftBehind : Recorded(b)

\* Whichever of the record and the ticket's transaction comes second makes the
\* link, in every interleaving: both are there and unlinked only while someone
\* is about to link them, or after a failure cut that short.
LinksMeet ==
  \A m \in (Saved \cap txs) \ linked :
    \/ m \in cut
    \/ \E p \in Savers : <<p, m>> \in linking
    \/ m \in WatcherLinking

\* watchL1Messages.ts:35-36, "records each one as a candidate L1->L2 message":
\* no message of an L1 block that is behind the watcher is missing.
EachRecorded ==
  at = "idle" => \A b \in PassedL1Blocks : Delivered(b) \subseteq Saved

\* A recorded message is eventually linked, though no process ever indexes its
\* ticket and failures cut earlier attempts.
RecordedGetsLinked == \A m \in Messages : m \in Saved ~> m \in linked
=============================================================================
