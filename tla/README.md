# Verification of hoodscan

hoodscan is a block explorer for Robinhood Chain, an Arbitrum Orbit L2: an
indexer that copies the chain into PostgreSQL, an API that reads it, and a web
front end (`src/hoodscan`). `src/hoodscan-indexer` is an older, standalone
backfill that writes the same kind of tables. This directory holds TLA+ models
of the parts with a protocol worth checking, the TLC configurations that check
them and the TLAPS proofs about them.

Paths below are relative to `src/hoodscan/apps/indexer/src/` unless they start
with `src/`, `api/` (`src/hoodscan/apps/api/src/`), `web/`
(`src/hoodscan/apps/web/`) or `rpc/` (`src/hoodscan/packages/rpc/src/`).

## 1. Inventory

| Component | State | Operations | Hard behaviour | What makes it correct | Module |
|---|---|---|---|---|---|
| Gapless backfill (`jobs/backfillGapless.ts`, retry script) | checkpoint and failed-block rows, block/tx/derived rows, the loop variable | resolve range, parallel batch, process, verify, enqueue/dequeue, checkpoint, retry pass | two processes, parallel tasks, errors between writes, crashes, providers that lag or answer null | nothing behind the checkpoint is neither stored nor queued | `GaplessBackfill` |
| L1 watcher (`jobs/watchL1Messages.ts`, `services/l1MessageService.ts`) | message rows, in-memory scan cursor | tick, save, link, fetch ticket, reconcile | resume after failure, unique indexes, two sides that must meet | every message recorded, and linked once its ticket is there | `L1Messages` |
| Live poll (`jobs/pollLatestBlock.ts`, `jobs/pollFinalizedBlock.ts`, `index.ts`) | block, tx and derived rows, final flags | poll latest, poll finalized | repeated polls of one block, failure half way, other writers of Block rows | a block reported as indexed is complete | `LiveIndexer` |
| Downtime backfill (`jobs/backfillBlocks.ts`) | none of its own; starts at the newest Block row | one pass from there to the head | races the poll for the newest row, a batch that rejects while its tasks run on | the gap of a downtime is filled | `LiveIndexer` |
| Token balances (`services/tokenBalanceService.ts`, `tokenTransferService.ts`, recompute script) | Token, TokenBalance, TokenDailyStat | guarded delta upsert, rollup, recompute | replays, blocks out of order, statements that read and write in two moments | no transfer counted twice | `TokenBalances` |
| Cursor backfills (`jobs/backfillNftTransfers.ts`, `backfillLogs.ts`, `backfillInternalTx.ts`, `backfillReceipts.ts`) | one cursor row each | page, batch, write cursor | crashes inside a batch, rows stored meanwhile, loops without progress | nothing untried behind the cursor; the loop ends | `Backfills` |
| RPC router (`rpc/`) | a shared round-robin cursor | route, retry, fail over | rate limits, capability limits, concurrent callers | every eligible endpoint is tried, the preferred ones first | `RpcRouter` |
| Internal transactions (`rpc/traceOnDemand.ts`, `services/internalTxService.ts`, `api/controllers/internalTx.controller.ts`) | memory cache, rows | index a block, list a transaction | cache ahead of the rows, two writers with different keys | an answer is about every call | `InternalTxs` |
| Token metadata (`services/tokenMetadataResolver.ts`, `metadataBackoff.ts`, `metadataStatus.ts`, logo script) | Token fields, backoff level, a Redis snapshot | resolve pending, back off, publish | partial answers, a TTL against the longest pause | what was found stays; a live loop has a status | `TokenMetadata` |
| Receipt rows (`services/tokenTransferService.ts`, `nftTransferService.ts`, `logService.ts`) | three tables of events | extract, save | one topic for two tables, rejected statements, overlapping jobs | an event is in one table; a block's logs are all there or none | `Receipts` |
| API caches (`api/utils/tokenResolver.ts`, `isContract.ts`, `contractType.ts`, `methodResolver.ts`) | Redis entries | fill, expire, heal | concurrent fills, failed probes, negative entries | a long-lived entry is a fact; a miss heals | `ChainReads` |
| Verified sources (`api/utils/verifiedAbi.ts`, `verifyContract.controller.ts`) | table, negative cache | resolve through proxies, submit | stale negatives, proxies in a circle | what is stored is found; a request ends | `Verification` |
| Paged lists (`api/controllers`, `web/lib/api.ts`, `web/components/Pagination.tsx`) | cached answers | list, count, next page | rows and totals read apart, a table that grows, caches | a walk misses nothing that was there | `PagedReads` |
| Contract tab (`web/components/ContractPanel.tsx` and its sections) | React state, cached answers | verify, read, write | answers that overtake each other or come to forms left | verified stays verified | `ContractTab` |
| State diffs (`api/controllers/stateChanges.controller.ts`) | none | decode a sparse diff | what absence means on each side | the diff leads from before to after | `StateDiff` |
| Standalone backfill (`src/hoodscan-indexer/src`) | BackfillProgress checkpoint, in-memory batch | window, flush, checkpoint, fill gaps | buffered blocks, null blocks, windows past the head | nothing behind the checkpoint is missing | `StandaloneBackfill` |

Interactions: the indexer process runs the poll, the L1 watcher, the metadata
loop and three backfills as concurrent promises of one process; the gapless
job, its retry script and the maintenance scripts are processes of their own
(`package.json` scripts `backfill:gapless`, `backfill:retry`). They share only
the database. All of them call providers through the RPC router. The API reads
the tables, and fills some rows and caches lazily; the web pages know the rest
of the system through the API's answers only.

The hazards of each component, at their lines, are the list `hazards` of
`PROJECT.json`. Four have no property: a null answer for a block's receipts,
which the code takes for an empty list; a change of `BACKFILL_DIRECTION` between
launches; the unordered page of tokens without a name; and the cached body of an
error, which the model has and `WalkComplete` leaves out.

## 2. Modules

| Module | What it is |
|---|---|
| `BackfillPromise` | What the gapless backfill promises: a block is passed only when it is stored or on record as failed, and leaves the record only when stored |
| `GaplessBackfill`, `MCGaplessBackfill` | The job and the retry pass, one action per operation; three configurations |
| `L1Messages`, `MCL1Messages` | The watcher, the savers of L2 transactions, and linking from both sides; three configurations |
| `LiveIndexer`, `MCLiveIndexer` | The indexer's process: poll, finality, downtime backfill, ticket fetch |
| `TokenBalances`, `MCTokenBalances` | One token's transfers, balances, rollups and the scripts that derive them again |
| `Backfills`, `RpcRouter`, `TokenMetadata`, `Receipts` | Further parts of the indexer |
| `StandaloneBackfill`, `MCStandalone` | The standalone indexer; by itself, with heads that are the chain's (`ExactSpec`) |
| `MCIndexerJobs` | `Backfills`, `RpcRouter`, `TokenMetadata`, `Receipts` and `StandaloneBackfill` in one run |
| `InternalTxs`, `MCInternalTxs` | Internal calls, stored by the indexer and the API |
| `Verification`, `ChainReads`, `PagedReads`, `ContractTab`, `StateDiff` | The API and the pages over it |
| `MCApi` | `InternalTxs` and those five in one run |
| `LibraryFacts` | Lemmas about the community modules' operators that several proofs need |
| `GaplessBackfillProofs`, `L1MessagesProofs`, `LiveIndexerProofs`, `TokenBalancesProofs`, `RpcRouterProofs` | The proofs about the module of that name |
| `IndexerJobsProofs` | The proofs about `Backfills`, `StandaloneBackfill`, `TokenMetadata` and `Receipts` |
| `ApiProofs` | The proofs about `InternalTxs`, `Verification`, `ChainReads`, `PagedReads`, `ContractTab` and `StateDiff` |

`MCIndexerJobs` and `MCApi` each hold parts that share no state in the code. A
variable `which` names the part a behaviour is about: its steps are those of
that part's next-state relation, and the others keep one initial state. A run
thus explores the sum of the parts' state spaces. Each part has its own `...Init`,
`...Next` and `...Spec`, so that it can also be checked, and proved about, alone.
Variables that the code does not have, kept only to state a property, are marked
`history` where they are declared. Definitions named in a `Mutant:` comment are
variants that the specification does not use.

### GaplessBackfill

State. `rows`, `txs` and `logs` are the blocks with a Block row, with all their
Transaction rows, and with their transfer and log rows; `checkpoint` and
`failed` are the IndexerCursor rows `gaplessBackfill` and `gaplessFailed:<n>`.
`phase`, `next`, `end` and `batch` are the job's locals, `todo` is what is left
of the list `retryFailedBlocks` read. `step[w][b]` says where process w (the job
or the retrier) is in handling block b: `process` (processBlock), `verify`
(verifyBlock), `enqueue`, `rescue` (enqueueFailed in the catch), `clear`
(dequeueFailed), `done`. `answer` is what the last fetch returned, `refetched`
the tasks in their second processBlock. `anchor`, a history variable, is the
first block of the run the checkpoint goes back to.

Actions. `Launch` is resolveRange with the head some provider reports;
`StartBatch`, `WriteCheckpoint` and `Finish` are the loop; `ProcessBlock`,
`Verify`, `Enqueue`, `Rescue` and `Clear` are a task, each with the outcomes of
its awaits. The job's try/catch and the retry loop's differ (the first enqueues,
the second logs): `OnError`. `Crash`, `RescueFails` and `CheckpointFails` end
the process; a write whose promise rejects may or may not have been done.
`SnapshotQueue`, `RetryStart`, `RetryEnd` and `CrashRetry` are the retry pass.

Grain. `ProcessBlock` is one step with every prefix of its writes as an
outcome. Other tasks of the two processes never read those rows between its
awaits, so a finer grain adds interleavings with no new effect.

Data. A block's content is reduced to whether the transactions fetched are all
of the chain's (`full`) or fewer (`short`). Rows are written with
skipDuplicates, so writing a set again is a union.

Assumptions about what is outside the code:
- the count call answers the chain's count, null or an error;
- the chain has no reorganisation, and a block's transactions do not change;
- one gapless job at a time, and settings that stay the same between its launches
  (an operator's business: nothing in the code locks);
- eth_getBlockReceipts answers a list, or null where `ReceiptsSent` has FALSE.
  Null is taken as an empty list by the code, so the derived rows of the block
  are not written although it verifies: `PassedComplete` needs
  `ReceiptsSent = {TRUE}`, and says so as an assumption of its theorem.

### L1Messages

State. `row` is the table L1ToL2Message (messageIndex to requestId), `linked`
the requestIds whose row has its l2TxHash; `txs` and `blocks` are the tickets
with a Transaction row and whose L2 block has a row. `lastScanned` is
lastScannedL1Block. `at`, `start`, `to`, `pos` and `todo` are the watcher's
place and locals. `linking` holds the calls of saveTransactions that have
inserted a ticket and not run linkL2Transaction yet, per process. History:
`origin`, where the first tick of all started; `leftBehind`, the blocks from
there on that lie below the start of a later tick that again found neither a row
nor a cursor; `cut`, the messages a failure kept from being linked.

Actions. `Tick` chooses the range; `SaveMessage` (or `SaveRefused`, when the
unique index on requestId refuses) is the upsert; `Lookup`, `FetchTicket`,
`PersistTicket` and `UpdateLink` are tryLinkL1Message, called from the batch
loop and from the reconciliation; `BatchScanned` moves the cursor, `Reconcile`
takes the oldest unlinked messages. `SaveTransactions` and `LinkL2Transaction`
are the L2 side, in the indexer or in a backfill process. `WatchFails` is a
rejected await of a tick, `LinkFails` one of the L2 side, `Crash` the end of the
indexer's process with its memory.

Data. `Deliveries` is the sequence the two inner loops of the watcher go
through: every event of an L1 block with every ticket of the event's L1
transaction. That is how the code pairs them, so a transaction with two tickets
gives four entries. A ticket's L2 transaction hash is its requestId. The RPC's
own requestId field is a counter that never equals one and is left out.

The L1 chain never stops: blocks from `MaxL1` on are empty and are folded into
one (`NewL1Block` lets the watcher find that block again), so that ticks, and
with them reconciliations, go on for ever in a finite state space.

### LiveIndexer

State. A block has a Block row (`rows`), all its transactions (`txs`), and all
rows derived from its receipts (`derived`); `flagged` is `isFinalized`.
`pollAt`, `pollBlock` and `receipts` are pollLoop's place and locals; `gapAt`,
`gapNext`, `gapEnd` and `task` those of backfillBlocks and its parallel
`indexBlockByNumber`.

Actions. `Start` is main; `PollLatest`, `PollTransactions`, `PollDerived` and
`PollFinalized` are the awaits of the two polls, `PollFails` a rejection that
pollLoop catches. `GapReadLatest` and `GapReadHead` are two reads with the poll
between them; `GapBatch`, `TaskSave`, `TaskTransactions` and `TaskFails` are the
batches: after a rejection the job is over (`dead`) while the batch's other
tasks run on. `gapEnd` is the chainHead the job was told. A call for the latest
block is answered by whichever provider it reaches: `ReportedHeads` are up to
`HeadLag` blocks behind the chain's and may go back from one call to the next,
and the call may reject (`GapReadFails`). `PersistTicket` is the L1 watcher's
`fetchAndPersistL2Ticket`, the third writer of Block rows. `Crash` ends the
process with its promises.

History: `cut` is what was left unfinished by a failure or stored for a
ticket's sake, `downtime` the gap at a start, `begun` the blocks the job's
batches have begun, `missed` those of them answered null or rejected, `raced`
whether somebody stored a newer row in front of the job's first read.

What it shows. The jobs cover for each other less than the comments suggest. A
gap is begun only if the first read of backfillBlocks wins against the poll, and
only up to the head that one provider reported: `CatchUpCovers` says so much and
no more. A block in `cut` stays as it is, since every later job takes its row as
done. And pollLatestBlock's comment says that it leaves an indexed block alone;
it does not, which is also why `PollCompletes` holds.

### TokenBalances

State. `stored` are the blocks whose transfers are in the table; `balance` and
`updatedBlock` are TokenBalance, `transferCount` and `holderCount` are Token,
`rollup` is TokenDailyStat. `at`, `block`, `day` and `snap` are the two savers
(poll and gapless job), `job` and `jobSnap` the script that runs.

Actions. `SaveTransfers`; `RollupRead` and `RollupWrite`, the two halves of
INSERT ... SELECT ... ON CONFLICT under READ COMMITTED; `ApplyBalances`, one
transaction guarded by `updatedBlock`; `RecomputeStart` to `RecomputeHolders`,
the statements of recomputeTokenAggregates, which no transaction binds together;
`DailyRead` and `DailyWrite`, the rollup script. `SaverEnds`, `RollupFails` and
`JobEnds` are failures. Only the poll keeps balances; blocks that the gapless
job stores are not in them until a recomputation.

`applied` (history) makes the abstract claim checkable: a balance is the sum
over a set of blocks. `transferCount` has no such property: it is increased
at every poll of the same head, and is right only after a recomputation.

### Backfills

State. `rows` and `derived` blocks, the job's IndexerCursor row, its place and
locals. `Jobs` holds what distinguishes the four jobs with a cursor: direction,
tasks at a time, whether they stop at the newest row of their start, keep a
cursor, and pass blocks that have such rows.

Actions. `Launch`, `ReadPage`, `StartBatch`, `Scan`, `Checkpoint`, `JobDies`
for these; `ReceiptsLaunch`, `ReceiptsQuery`, `ReceiptsBlock` and `ReceiptsNext`
for the receipt backfill; `StoreBlock` is everyone else. A block whose
processing fails counts as done for the cursor, as in the code, so the promise
is that everything was tried (`NothingPassedBy`), not that it was stored. The
answer for a block in `Partial` may lack one transaction's receipt: the others
are written and counted as updates, and the block is in the next batch again.
`partial` (history) notes it. So the receipts job ends unless such answers keep
coming (`ReceiptsJobEnds`), and its safety valve does not stop it then.

### StandaloneBackfill

State. `table` and `txTable`, `lastIndexedBlock` (BackfillProgress), the locals
of backfill.ts (`chainHead`, `current`, `buffer`) and of fill-gaps.ts
(`missing`, `fillBatch`). The head a run reads is one provider's and may lag.
History: blocks answered null (`nulled`); blocks below a checkpoint but above
the head that the run had read (`beyond`); the range the gap filler has looked
at, from the first row to the last (`listed`), and what it could not fetch
(`failed`); blocks a program died over between its two statements (`torn`).

Actions. `MainStart`, `FetchWindow`, `FlushBlocks`, `FlushTransactions`,
`SaveCheckpoint`; `FillStart`, `FillWindow`, `FillBlocks`, `FillTransactions`;
`MainDies` and `FillDies`, an interrupt or a rejection at any await.

### RpcRouter

`rolesForMethod`, `eligibleProviders`, `WindowTooSmall` and `UrlsFor` are
providerRoles.ts as operators; `Send`, `PostSucceeds` and `PostFails` walk the
URLs with their attempts, where each of the three providers has any number of
URLs up to `MaxUrls`, as in the environment. `Failures` are the ways an attempt
fails: `retryable`, `refused`, and `aborted` by the router's own timeout. The
second part, with state of its own, is the round-robin sender of ethersMulti.ts
over the merged, deduplicated lists of ZAN's and QuickNode's URLs, with callers
that share the cursor. A URL of a provider is an entry of its list.

Facts met while modelling. Every caller that wants a trace passes the roleHint
`trace`; the hint is followed by the default order, so the trace reaches ZAN
when Uniblock fails, which comments at `rpc/providerRoles.ts:133` and
`api/controllers/stateChanges.controller.ts:151-152` exclude. What holds is the
order: no provider is asked before the ones the call prefers to it are given up
(`PreferredFirst`). A timeout aborts the attempt with an error that is not
recognised as retryable. No caller passes logRangeBlocks, and nothing calls the
round-robin sender's two constructors.

### TokenMetadata

State. `meta` and `logo` columns per token, the loop (`loopAt`, `todo`, `level`,
`wait`), the Redis snapshot with its age in ticks, the logo script's page.

Actions. `LoopStart`, `PassBegin`, `ResolveToken`, `PassEnd`, `IndexerDies`,
`Tick`, `NewToken`; `LogoPage` and `LogoRow` are backfillTokenLogos.ts. Each
eth_call of a token may miss, and the upsert writes all columns, so a later pass
over a token without a name may replace a good symbol with null: `ResolvedStays`
is about names and logos only. A pass takes any number of ticks; `took` (history)
counts them. `MetadataAssumption` has only `BackoffMax < StatusTtl`, which the
defaults give, and `StatusOutlasts` says that the snapshot lasts through the
longest pause and what the TTL leaves of the pass after it. A pass of a hundred
tokens that all time out can be longer.

### Receipts

`Shape` gives each log its topics, data words and array lengths;
`extractTokenTransfers`, `extractNftTransfers` and `extractLogs` are the three
extractions. Each saver (poll or gapless job, NFT backfill, log backfill) goes
through its statements, may stop between them, and may repeat a block. An
amount of more than one word does not fit the column and rejects the rows of the
whole block, although tokenTransferService.ts says that a malformed log is
skipped. The page of user operations reads the logs back.

### InternalTxs

`decodeCallTracer` and `flattenCallTracer` are the indexer's and the API's
numbering of one call tree. `IndexStart`, `IndexTrace` and `IndexSave` are
indexBlockInternalTransactions with its cache; `ListCount`, `ListTrace`,
`ListSave` and `ListRows` are listInternalTransactions, whose own trace may
answer, fail, or be null. `callsShown` is what a request answered. A row keeps
the call it is about, which the unique key does not. A null trace is answered
without calls and without an error, so that the page says that there were none:
`AnswerComplete` leaves it out by name.

### Verification

A reader goes through table, negative cache, explorer and upsert for an address
and, recursively, its implementation; `PostVerify` is a submission. In front of
the handler is the route's response cache: `page` is the answer it keeps for 30
seconds, `ServeCached` answers from it, `SendVerification` fills it,
`PageExpires` empties it, and nothing removes an answer when a record is stored.
`known` and `stale` (history) tell whether the contract had a record when a
request began, and whether it was answered from a response to an earlier one.
`ReadRowFails` ends a request with an error.
`rejections` bounds the upserts that fail, which is what lets `ResolutionEnds`
hold when two proxies name each other: the recursion stops at a stored row.

### ChainReads

One client per concurrent request; `Ask` starts it, and one action per Redis
read, chain read or Redis write follows. `tokenCache` entries know whether they
are kept for 30 days. `deployed` grows meanwhile. The signature database with
its three users is a second part with its own state.

Facts met while modelling: of two concurrent heals the later write wins, also
with fewer fields; an address whose eth_getCode probe failed can be cached with
three nulls; a contract whose ERC-165 probe failed is cached as no NFT; cached
misses of the input and event lookups are served for a day. `DetailHeals` speaks
of requests none of whose own reads failed and that were not told by a "not a
contract" cached for a day from before the deployment; `LongEntriesTrue` of the
entries kept 30 days.

### PagedReads

`Lists` are the thirteen lists of the web with the limits, counts and orders of
their handlers. `versions` is the table's history; `ReadRows` and `ReadCount`
are the two queries of a handler in either order (listTokens' fallback reads the
rows first), `Respond` the cached answer, `ShowPage` a step of the visitor. A
total that is kept with the token (`transferCount`, `holderCount`) is counted
by other code than stores the rows, and may be any of `StoredTotals`, more or
fewer than there are. Insertions, rises in a ranking and ties reordered are
changes. Error bodies are cached by cacheMiddleware and served as a success; a
page throws on one, a section shows an empty list.

### ContractTab

`panel`, `form`, `section`, `card` and `wallet` are the React components' state,
`submission` the answers under way, `kept` and `value` what the API's cache
holds, `row` whether a verified source is stored. Leaving a tab or sub-tab
unmounts state while requests go on.

Facts met while modelling: Read may stay `unsupported` from the cache for 30
seconds after a verification; a declined chain switch is ignored until the write
fails; a submission whose answer is lost shows an error though it is stored.

### StateDiff

`TracerPre` and `TracerPost` are the node's sparse report for two states of an
account, external; the node answers with a `Report` of them or with
`NullTrace`. `DecodeAccount` and `decodeStateDiff` are the controller, with the
branch for a null trace: an empty list, without the flag that makes the page say
that the trace is unavailable (`DiffAppliesBack` speaks of answers to a trace,
`traced`). Every pair of states of the instance is
an initial state, so the run compares the decoding with its definition over all
inputs. An account that the
transaction destroys is outside: the tracer reports no `post` for it, and the
code then shows no change.

## 3. Runs

| Run | Question | Bounds and why they suffice |
|---|---|---|
| `gapless` | safety and the refinement of `BackfillPromise` | 3 blocks, batches of 2: a full and a cut batch in both directions, head growing from any block, crashes unbounded |
| `gapless_live` | do a launch and a retry pass end | 2 blocks, batches of 2, null receipts possible, a configured start above the head |
| `gapless_lag` (violation) | "a restart resumes just beyond it — no gap" | HeadLag 2, batches of 1 |
| `l1_messages` | no L1 block jumped over, links always meet | 5 L1 blocks in batches of 2, an L1 transaction with two tickets and a later one, 2 saving processes with 2 calls in flight, 1 fault, reconciliations of 1 |
| `l1_messages_live` | is a recorded message linked in the end | 2 tickets in 2 blocks, reconciliations of 1, 1 fault |
| `l1_message_lost` (violation) | "records each one as a candidate L1->L2 message" | 2 tickets of one L1 block, 1 fault |
| `live` | what a stored block lacks, what the downtime backfill covers | 3 blocks, a reported head up to 1 behind, batches of 2, the ticket in the middle block, 2 faults: a first start, a crash, a gap of up to two blocks, a failing task or read in it, and the poll anywhere between |
| `balances` | is a transfer counted twice, or lost unaccounted for | 3 blocks (mint, transfer, burn), 2 owners, two blocks of one day, 2 savers and a script, replays while the count is at most 2, 1 fault |
| `indexer_jobs` | the parts of section 2's `MCIndexerJobs` | cursor jobs: 4 blocks, pages of 3, 2 tasks, 1 rejection, a refused block and one with partial receipts. Standalone: 6 blocks, windows of 2, batches of 3, 2 troubles. Router: every configuration of up to 2 URLs of each provider and 3 in all, every method, hint and span, every kind of failure. Sender: every pair of lists of up to 2 URLs, 3 in all, of 2 hosts, 2 callers, 4 calls. Metadata: 2 tokens, pages of 1, pauses up to 3 ticks and a TTL of 5, passes of any length, 1 crash. Receipts: 11 shapes of logs in 2 blocks, 3 savers |
| `api` | the parts of section 2's `MCApi` | calls: 2 transactions, a nested call and siblings, 2 requests. Verified: 2 contracts that name each other, 1 reader, 1 rejected write. Tokens: 1 NFT with name and symbol, a client of details and lists and one of standards. Pages: tables of 25 and 50 rows, 2 pages, a cap of 40, stored totals of 20 and 60 (fewer and more than any table has), 1 change of the table. Tab: 2 submissions. Diff: every pair of states of an account with 2 slots, and a null trace |
| `standalone` (violation) | "last saved checkpoint is safe to resume from" | 4 blocks, windows of 2, batches of 3, every head read is the chain's |
| `internal_duplicates` (violation) | "re-requesting the same trace never duplicates rows" | 2 transactions, a nested call and siblings, 2 requests |

What they show:

- `PassedSettled`, `PassedComplete`, `FinishedCoversRange`,
  `HalfStoredRevisited`: whatever crashes, fails, or runs beside the job, a
  block behind the checkpoint is stored or queued, with its derived rows when
  receipts come; a job that ends has covered its range back to the first launch;
  a Block row without transactions is queued, being handled, or ahead of the job.
- `DequeuedOnlyStored`, `CheckpointAdvances`, `KeepsPromise`: neither process
  deletes a queue row too early, no restart jumps over a block, and the
  mechanism implements the promise.
- `JobEnds`, `RetryPassEnds`: neither loop is held by blocks that keep failing.
- `NoBlockSkipped`: from its first tick on, the watcher's two cursors together
  (newest row, memory) pass an L1 block with messages of which none is recorded
  in one way only: a tick that starts at the head again because no row exists
  and the cursor is lost.
- `LinksMeet`: a record and its ticket's transaction are both there and unlinked
  only while someone is about to link them or after a failure cut that short.
- `RecordedGetsLinked`: the reconciliation repairs those.
- `RowsExplained`, `PollCompletes`: three writers create Block rows; one is
  without its transactions only while its writer is at it, after a failure, or as
  a ticket's; what the poll reports is complete whoever came first.
- `CatchUpCovers`, `FinalityReaches`: what the downtime backfill's batches begin
  is stored, under way, or was answered null or rejected; if nobody stored a newer
  row before it looked and it ends by itself, it has begun the whole downtime up
  to the head it was told. Flags reach rows stored after the tag passed.
- `BalanceOfSet`, `MissingExplained`: no replay, disorder or recomputation counts
  a block twice, and a balance misses one only for a known reason.
- `RecomputeExact`, `RollupFresh`: what the scripts and the rollup leave is exact
  unless others wrote in between.
- `NothingPassedBy`, `ReceiptsJobEnds`: cursors of either direction; and a loop
  that ends beside blocks it cannot do, unless part of their receipts keeps coming.
- `HolesKnown`, `FillerCovers`: the standalone checkpoint has two kinds of holes
  and no other; the gap filler closes the holes between the first row and the last,
  and a row there has its transactions unless a program died between its two
  statements.
- `ThrowsAfterAll`, `PreferredFirst`: a failed call has given up every URL that
  could serve it, after all its attempts, a refusal or a timeout, and none is asked
  before those preferred to it are given up.
- `StatusOutlasts`, `ResolvedStays`: the snapshot of a live loop lasts through the
  longest pause and the rest of its TTL; names and checked logos stay.
- `EventInOneTable`: the two readings of the Transfer topic are disjoint, and a
  block's logs are stored together, which a backfill and a page rely on.
- `AnswerComplete`: an answer has all calls or none, and none of a transaction
  with calls only when its own trace was null or failed; although addresses of the
  two numberings collide, the calls skipped as duplicates are there under the other
  number.
- `VerifiedIsFound`, `ResolutionEnds`: the negative cache hides no stored row; only
  the route's response cache does, with an answer to an earlier request. Proxies in
  a circle end a request.
- `DetailHeals`, `LongEntriesTrue`: partial cache entries heal, and nothing false
  is kept for long.
- `WalkComplete`: a walk by "Next" misses no row that was there at its start,
  within the cap, if no row rose or left between the pages, no page came from a
  cache older than the page before it, and the last total is no less than the rows
  beside it.
- `VerifiedStays`, `DiffAppliesBack`: the tab and the diff of section 2.

The violations are disagreements of the code with its comments.

- `gapless_lag`: in reverse, `start` becomes the smaller of the reported head and
  checkpoint - 1 (`jobs/backfillGapless.ts:250`), so a head reported by a provider
  that is behind the checkpoint moves the job below blocks that were never visited.
- `l1_message_lost`: after a failed call the watcher resumes after the L1 block of
  the newest recorded message (`jobs/watchL1Messages.ts:75`), so the other messages
  of that block are not recorded. The same happens without a failure when one L1
  transaction holds two tickets: the second event's upsert meets the unique index
  and the tick aborts.
- `standalone`: the last window moves `current` past the head that was read
  (`src/hoodscan-indexer/src/backfill.ts:182`) and the checkpoint with it. Even when
  every head read is the chain's, a block mined afterwards is behind the checkpoint
  and is never asked for.
- `internal_duplicates`: the API's walk begins at the root's own 0
  (`api/controllers/internalTx.controller.ts:104`) and the indexer's does not, so
  one call can have two rows.

Further disagreements have no run of their own. They are behaviours of the models,
and each is a condition, or a named exception, of a property that holds:

| Comment or doc | What the code does | Property with the exception |
|---|---|---|
| `jobs/watchL1Messages.ts:44-46`, `docs/L1_L2_MESSAGES.md:44-45`: only messages from before the watcher first ran stay unindexed | a first tick that fails or dies before it has recorded a message leaves no cursor, and the next starts at the head of then (`:91`) | `NoBlockSkipped` (`leftBehind`) |
| `jobs/pollLatestBlock.ts:17-18`: null for an indexed block, "no-op" | all writes are made again (`:31`) | `PollCompletes` states the contrary |
| `index.ts:163-164`: "downtime gaps fill without blocking live indexing" | the poll may store the head before `jobs/backfillBlocks.ts:50` reads the newest row, and the gap counts as filled | `CatchUpCovers` (`raced`) |
| `jobs/backfillReceipts.ts:67-68`: "stop rather than spin forever" | receipts that do come count as updates in every batch (`:58`), and the loop beside the missing one never ends | `ReceiptsJobEnds` (`partial`) |
| `api/controllers/tokens.controller.ts:471-472`: not reporting only if the indexer is stopped or Redis unavailable | the snapshot is published at the end of a pass (`index.ts:108`), and one that takes longer than the rest of the TTL lets it expire | `StatusOutlasts` (`took`) |
| `rpc/providerRoles.ts:231-233`: timeouts are retryable | the error of an aborted attempt has none of the words that make it so (`:246`) | `ThrowsAfterAll` (`timedOut`) |
| `rpc/providerRoles.ts:133`, `api/controllers/stateChanges.controller.ts:151-152`: "never ZAN" | a hint is followed by the default order (`:161`), and a trace reaches ZAN when Uniblock fails | `PreferredFirst` (ZAN comes after Uniblock) |
| `src/hoodscan-indexer/src/fill-gaps.ts:2-3`: "between 0 and max(number)" | the query starts at the first row (`:89`) | `FillerCovers` (`listed`) |
| `web/components/InternalTxSection.tsx:13-14`: "no internal transactions" when there were no sub-calls | a null trace is passed over (`api/controllers/internalTx.controller.ts:150`) and answered so | `AnswerComplete` (outcome `null`) |
| `web/components/StateChangesSection.tsx:11-13`: "no state changes" when nothing changed | a null trace decodes to an empty list (`api/controllers/stateChanges.controller.ts:74`) | `DiffAppliesBack` (`traced`) |
| `api/controllers/tokens.controller.ts:244`: "All ERC-20 Transfer events" | the total is a count that only the live poll increases (`:269`), and the pages end where it does | `WalkComplete` (`visit.total`) |
| `web/lib/api.ts:156-158`: an answer is an envelope of rows, or the API is unreachable | the cache keeps an error's body without its status (`api/middlewares/cache.ts:40`) | `WalkComplete` (an error ends a walk) |

Deadlock checking is on except in `indexer_jobs`, `api` and `standalone`, where
the bounded parts really stop: a call that has returned, a visitor on the last
page, a sender that has used up `MaxSends`.

## 4. Fairness

`GaplessBackfill`: weak fairness of each process's own steps. Every await
settles, since postJsonRpc aborts a call after its timeout and sendRpc makes a
bounded number of attempts (`rpc/providerRoles.ts:255-377`).
Launches, crashes, new blocks and the good will of a provider are not fair.

`L1Messages`: weak fairness of the watcher (setInterval every 15 s,
`index.ts:153-155`), of new L1 blocks and of the creation of tickets, both
external. The number of faults is bounded (`MaxFaults`), which for liveness
means that providers answer from some time on. The saving processes are not
fair: nothing obliges them to index the ticket's block.

`LiveIndexer`: weak fairness of the poll's steps (setInterval, `index.ts:151`,
and a try/catch around either half) and of backfillBlocks. Nothing in the
repository starts a dead indexer again (docker-compose.yml restarts the database
and Redis only), so `Start` is not fair, and `FinalityReaches` speaks of the
times the process is up. Faults are bounded, as above.

`Backfills`: weak fairness of the job's steps; every await settles, but it may
reject (`JobDies`, `Scan`), which is not fair. `Verification`: weak fairness of
each reader; the explorer's fetch has a timeout. In `MCIndexerJobs` and `MCApi`
fairness asks nothing of the parts a behaviour is not about, because their jobs
and readers never begin.

## 5. Proofs

Every invariant and every action property that a passing run checks is also a
theorem, for every value of the constants that the named assumptions allow. The
theorems are about a component's own specification (`Spec`, or `ItSpec`,
`ScanSpec` and so on where several components share a run).

| Module | Theorems | Assumes, beyond the named assumptions on the constants |
|---|---|---|
| `GaplessBackfillProofs` | `TypeCorrect`, `DequeueIsSafe` | nothing |
| | `NeverSilentlySkipped`, `FinishedRunCovers`, `HalfStoredIsRevisited`, `CheckpointOnlyAdvances`, `ImplementsPromise` (the refinement of `BackfillPromise`) | `HonestHead`: a reported head is never behind the chain's, or no plan walks down from it |
| | `NothingHalfPassed` | `HonestHead`, receipts always come |
| `L1MessagesProofs` | `TypeCorrect`, `NoBlockIsSkipped`, `LinksAlwaysMeet` | nothing |
| `LiveIndexerProofs` | `TypeCorrect`, `RowsAlwaysExplained`, `PollAlwaysCompletes`, `CatchUpAlwaysCovers` | nothing |
| `TokenBalancesProofs` | `TypeCorrect`, `BalanceAlwaysOfSet`, `MissingAlwaysExplained`, `RecomputeAlwaysExact`, `RollupAlwaysFresh` | nothing |
| `IndexerJobsProofs` | `NothingIsPassedBy`; `StandaloneTypes`, `HolesAreKnown`, `FillerAlwaysCovers`; `StatusAlwaysOutlasts`, `ResolvedAlwaysStays`; `EventStaysInOneTable` | nothing |
| `RpcRouterProofs` | `CallsThrowAfterAll`, `PreferredAlwaysFirst` | nothing |
| `ApiProofs` | `AnswerAlwaysComplete`; `VerifiedIsAlwaysFound`; `LongEntriesAlwaysTrue`, `DetailAlwaysHeals`; `WalkAlwaysComplete`; `VerifiedAlwaysStays`; `DiffAlwaysAppliesBack` | nothing |

Almost none of the invariants is inductive alone. The strengthenings were tried
with TLC on the runs' instances before they were proved.

### GaplessBackfill

The argument is in layers:

1. `TypeInv`: the types, and that only a running job has a batch in flight,
   which ends at a block.
2. `TaskInv`: what a task's place says about the database. A task at `clear`
   has its transactions stored (and its derived rows, when receipts come); a
   `done` task of the job is stored or queued. The retry process deletes a
   queue row only from `clear`, which is why a `done` task of the job stays
   settled. `TypeInv /\ TaskInv` is inductive with no assumption on the head
   (`KnowledgeStep`) and gives `DequeueIsSafe`.
3. `LoopInv`: the batch in flight is the stretch from the front (the first block
   not behind the checkpoint) to the block before the loop variable
   (`BatchIsSpan`, `SpanSplit`), and the checkpoint lies in the configured range.
4. `PassedInv`: the passed blocks are settled. `WriteCheckpoint` extends them by
   exactly the batch, whose tasks are all `done` (`CheckpointMoves`); `Launch`
   resumes at the front (`ResumeAtFront`), which is where `HonestHead` is needed
   and where the run `gapless_lag` shows that it cannot be dropped.
5. `RevisitInv`: a task of the job is about a block of the batch and one of the
   retry pass about a block on its list, whose blocks are still queued or stored
   since; all of them lie in the configured range; and a batch is no longer than
   `Concurrency`. This gives `HalfStoredIsRevisited` and, with the length of the
   span a batch is, `CheckpointOnlyAdvances`.

`ImplementsPromise` maps each step: the checkpoint's steps to `Pass`
(`CheckpointPasses`), a task's to `Store`, `Record`, `Resolve` or a stutter
(`HandleKeepsPromise`), all others to a stutter (`PromiseStep`).

### L1Messages

`RowInv`: a row holds a message that was delivered under its messageIndex.
`WalkInv`: the watcher's locals within a tick; in particular the block of the
delivery it links has a record. `PassedInv`: from `origin` on, whatever lies
before a recorded block, before the cursor in memory, before the batch or before
the position in the batch has left a record. It rests on the order of the
deliveries (`DeliveriesAssumption`: chain order, and an id or a message belongs
to one block), and on the sharper fact that both ways of resuming look at a
block that is recorded. What a tick that starts afresh jumps over is in
`leftBehind`; `Accounted` is a record, or being there. `LinkInv` says who is
about to link a ticket of which both sides are there: a saver with the call in
flight, or the watcher between its look-up and its update, but not while it
fetches, since what others store meanwhile is theirs to link.

### LiveIndexer

`StepsInv`: a promise's place tells what it has stored, and no promise runs
ahead of the chain; `TypeOK`, which says that derived rows have transactions and
transactions a row, needs it. `GapInv` follows the blocks of a downtime through
backfillBlocks: above every row until the newest is read, from `gapNext` on
until the head is read, then begun once they are behind `gapNext`; and what is
begun is stored, in flight, or has been missed. It assumes nothing of the heads
that are reported.

### TokenBalances

`BalanceInv`: a balance is the sum over `applied`, whose newest block is
`updatedBlock`; the guard of the upsert keeps a block from being added twice.
`MissingInv`: as long as nothing noted has happened, a stored block that an
owner's balance misses is the one the poll is about to apply, and is newer.
`RecomputeInv` says which of the script's statements has brought what up to date.
`RollupInv`: a snapshot that is older than the table belongs to a day for which
some saver is still to read, and two savers are never between the two halves of
one day's statement without `overlap` noting it. That the sums over sets add up
is proved (`LibraryFacts`).

### The indexer's other jobs

`ScanInv`: what a cursor backfill owes is in front of its cursor, in its page or
in its batch, in either direction. `MainInv` and `HolesInv`: what the standalone
backfill has moved past is in its batch or was answered null, and what is behind
its checkpoint is stored or one of two kinds of hole; `FillInv`: what the gap
filler listed is stored, on its list, in its window, or given up; `HalfInv`: a
row without its transactions has a program between its two statements, or one
died there. `MetaInv`: a snapshot's age and the timer together are at most the
longest pause and the ticks of the pass under way, and a token of a pass has no
name. `SavedInv`: a row of each of the three tables tells how many topics its
log has.

### RpcRouter

The loops over roles, providers and URLs are folds. `FlatMapFacts`, `KeptFacts`
and `DedupeFacts` say what they leave in their lists; from these,
`EligibleProviders` and `CallUrls` say which URLs a call goes through, and
`MergedUrls` that the sender's list has every host once. `RouterInv` then says
that what lies before a call's place is given up and what lies behind it is not
asked yet. For `PreferredFirst`, the walk is in the order of the first role that
each provider has in the call's order. `SenderInv` says that a caller has asked
the endpoints from its start on in a circle.

### The API and the web

`ItInv`: a transaction with one row of internal calls has them all, since both
writers store all rows of a transaction at once and those skipped as duplicates
are there under the other number. `FoundInv`: a request that began with a stored
record is still at that record, has found it, or was answered from the route's
cache, whose answers are those of earlier requests. `TokenInv`: what caches and
requests hold is on the chain; `LabelInv`: what a lookup was answered.
`PagesInv`: a row of the table as it was at the first page has been shown or is,
in the table as it was at the last page shown, behind that page; insertions only
move a row further down (`Below`), and a last page reaches the total
(`LastPage`). `TabInv`: a panel waits for an answer only while it shows no
verification. `DiffInv`: a decoded diff is of the two states, and the decoding
of a trace is compared with its definition account by account and slot by slot.

### What the prover needs

`LibraryFacts` has what several proofs need of the community modules: the least
and the greatest of a set of numbers, sums of a function over a finite set
(an element more, a union, an empty set), folds over a sequence as the last
element of a sequence of partial results (`FoldExists`), and induction up to a
number over a set (`InductionUpTo`), derived from the least element. The
induction theorems of the library take an operator as a parameter, which the
provers cannot instantiate; the least element of a set of counterexamples does
the same work, which is how sums and folds are within reach.

Choices in the models made so that they can be reasoned about, none of which
changes a behaviour: alternatives of a CASE exclude each other
(`rolesForMethod`, `extractNftTransfers`), as overlapping ones say nothing to a
prover; the loops of `RpcRouter` are folds with a function (`FlatMap`, `Kept`,
`Dedupe`) and not SelectSeq; the rows that come in during a walk are numbered
downwards from -1 in `PagedReads`, so that they are new in a table of any size;
assumptions say what was implicit in the instances (finite sets of owners and
transfers, requests that the code knows, a TTL that is a number).

Only model-checked: the liveness properties (`JobEnds`, `RetryPassEnds`,
`RecordedGetsLinked`, `FinalityReaches`, `ReceiptsJobEnds`, `ResolutionEnds`),
which need ENABLED and are out of the prover's reach. That the parts composed in
`MCIndexerJobs` and `MCApi` do not disturb each other is the shape of their
next-state relations and not a theorem: each part's theorem is about its own
specification.

## 6. Plan

Everything with a protocol of its own is modelled, and what the runs check is
proved as far as the provers reach. Left are:

1. Abstract specifications of further components with their refinements: the
   watcher as a record of L1 messages that are linked at most once and never
   forgotten; a balance as a set of applied blocks.
2. The hazards without a property (section 1), if the models grow to them.

## 7. Not modelled

- A change of `BACKFILL_DIRECTION` between launches of the gapless job: the
  settings are constants of a behaviour.
- Reorganisations of the chain: no code handles one.
- `cleanupTokenMeta.ts` and `contractNames.ts`: a script that rewrites text, and a
  batched read.
- Statistics and token analytics (`api/controllers/stats.controller.ts`,
  `tokenAnalytics.controller.ts`), search, and single-row reads: SQL
  aggregations and lookups of which each request runs one, without shared state
  beyond the response cache that `PagedReads` models.
- Field-by-field decoders and formatting (`format.ts`, `formatToken.ts`,
  `eventDecoder.ts`): conversions of one value to another, wording and layout.
- The web's charts, statistics bar, hash tabs, search bar and tables: rendering
  of what the API answers.
- The compiler that verification loads, and how metadata is cut off bytecode: an
  outcome in `ContractTab`.
- Pacing: sleeps between attempts and the standalone rate limiter.
- Migrations, deployment files, API descriptions and assets.
