----------------------------- MODULE InternalTxs -----------------------------
(***************************************************************************)
(* The internal calls of a block's transactions, which two processes       *)
(* decode from call traces and store in one table: the indexer for a whole *)
(* block (rpc/traceOnDemand.ts, services/internalTxService.ts, with its    *)
(* in-memory cache), and the API for one transaction, when it is asked and *)
(* nothing is stored yet (controllers/internalTx.controller.ts).  Rows are *)
(* unique by transaction and place in the call tree, which the two number  *)
(* differently.                                                            *)
(***************************************************************************)
EXTENDS Integers, Sequences

CONSTANTS
  Txs,       \* the block's transactions
  Calls,     \* [Txs -> set of calls]: a call is its path in the tree below the root
  Requests   \* concurrent requests for a list

ASSUME InternalTxsAssumption ==
  \A t \in Txs : Calls[t] \subseteq Seq(Nat) \ {<<>>}

VARIABLES
  table,      \* InternalTransaction: rows of a transaction, an address and the call
  traceCache, \* the indexer's cached answer for the block
  indexerAt,  \* where indexBlockInternalTransactions is
  request,    \* each request of the API: its place, its transaction, its outcome
  callsShown  \* the calls in each request's answer

itVars == <<table, traceCache, indexerAt, request, callsShown>>

ItInit ==
  /\ table = {}
  /\ traceCache = "absent"
  /\ indexerAt = "idle"
  /\ request = [r \in Requests |-> [at |-> "idle", tx |-> CHOOSE t \in Txs : TRUE,
                                    outcome |-> "none"]]
  /\ callsShown = [r \in Requests |-> {}]

-----------------------------------------------------------------------------

\* decodeCallTracer: "0", "0_1", the root left out.
decodeCallTracer(t) == {[tx |-> t, address |-> call, call |-> call] : call \in Calls[t]}

\* Mutant: the walk does not go into the children.
flattenCallTracerFlat(t) ==
  {[tx |-> t, address |-> <<0>> \o call, call |-> call] : call \in {c \in Calls[t] : Len(c) = 1}}

\* flattenCallTracer: the walk's path begins at the root's own 0.
flattenCallTracer(t) ==
  {[tx |-> t, address |-> <<0>> \o call, call |-> call] : call \in Calls[t]}

\* createMany with skipDuplicates, one statement.
Insert(rows) ==
  table' = table \cup {r \in rows : \A s \in table : <<s.tx, s.address>> # <<r.tx, r.address>>}

RowsOf(t) == {r \in table : r.tx = t}

-----------------------------------------------------------------------------
(* The indexer. *)

\* The poll and the gapless backfill index the block whatever is stored; the
\* backfill of internal transactions skips a block that has any row.
IndexStart(skipsStored) ==
  /\ indexerAt = "idle"
  /\ skipsStored => table = {}
  /\ indexerAt' = "trace"
  /\ UNCHANGED <<table, traceCache, request, callsShown>>

\* getBlockTrace: the cache, null included; or the answer, which is cached; or an
\* error, which the caller swallows.
IndexTrace ==
  /\ indexerAt = "trace"
  /\ \/ traceCache # "absent" /\ UNCHANGED traceCache
        /\ indexerAt' = IF traceCache = "trace" THEN "save" ELSE "idle"
     \/ traceCache = "absent" /\ traceCache' = "trace" /\ indexerAt' = "save"
     \/ traceCache = "absent" /\ traceCache' = "null" /\ indexerAt' = "idle"
     \/ traceCache = "absent" /\ UNCHANGED traceCache /\ indexerAt' = "idle"
  /\ UNCHANGED <<table, request, callsShown>>

\* All rows of the block; a rejection is swallowed too.
IndexSave ==
  /\ indexerAt = "save"
  /\ indexerAt' = "idle"
  /\ \/ Insert(UNION {decodeCallTracer(t) : t \in Txs})
     \/ UNCHANGED table
  /\ UNCHANGED <<traceCache, request, callsShown>>

IndexerRestarts ==
  /\ traceCache' = "absent" /\ indexerAt' = "idle"
  /\ UNCHANGED <<table, request, callsShown>>

-----------------------------------------------------------------------------
(* listInternalTransactions. *)

\* The transaction's rows are counted.
ListCount(r, t) ==
  /\ request[r].at \in {"idle", "answered"}
  /\ request' = [request EXCEPT ![r] =
       IF RowsOf(t) = {} THEN [at |-> "trace", tx |-> t, outcome |-> "none"]
       ELSE [at |-> "list", tx |-> t, outcome |-> "stored"]]
  /\ UNCHANGED <<table, traceCache, indexerAt, callsShown>>

\* None: the trace; or null, which is passed over; or an error, which becomes the note
\* in the answer (traceError).
ListTrace(r) ==
  /\ request[r].at = "trace"
  /\ \/ request' = [request EXCEPT ![r].at = "save"]
     \/ \E outcome \in {"null", "error"} :
          request' = [request EXCEPT ![r].at = "list", ![r].outcome = outcome]
  /\ UNCHANGED <<table, traceCache, indexerAt, callsShown>>

\* The trace's calls are stored, or the statement fails, which is noted too.
ListSave(r) ==
  /\ request[r].at = "save"
  /\ \/ /\ Insert(flattenCallTracer(request[r].tx))
        /\ request' = [request EXCEPT ![r].at = "list", ![r].outcome = "stored"]
     \/ /\ request' = [request EXCEPT ![r].at = "list", ![r].outcome = "error"]
        /\ UNCHANGED table
  /\ UNCHANGED <<traceCache, indexerAt, callsShown>>

\* The rows there are then are the answer.
ListRows(r) ==
  /\ request[r].at = "list"
  /\ request' = [request EXCEPT ![r].at = "answered"]
  /\ callsShown' = [callsShown EXCEPT ![r] = {row.call : row \in RowsOf(request[r].tx)}]
  /\ UNCHANGED <<table, traceCache, indexerAt>>

ItNext ==
  \/ \E skipsStored \in BOOLEAN : IndexStart(skipsStored)
  \/ IndexTrace \/ IndexSave \/ IndexerRestarts
  \/ \E r \in Requests : \/ ListTrace(r) \/ ListSave(r) \/ ListRows(r)
                         \/ \E t \in Txs : ListCount(r, t)

ItSpec == ItInit /\ [][ItNext]_itVars

-----------------------------------------------------------------------------
(* Properties. *)

\* An answer shows all calls of the transaction or none, and none, of a transaction that
\* has calls, only when its own trace was null or failed: whoever stored them first, and
\* though an address of one numbering may be another call's in the other, so that its row
\* is skipped as a duplicate (internalTx.controller.ts:138-174).  The page takes the
\* answer to a null trace for a transaction without sub-calls, and says "trace
\* unavailable" of a failed one only (InternalTxSection.tsx:13-14).
AnswerComplete ==
  \A r \in Requests : request[r].at = "answered" =>
    \/ Calls[request[r].tx] \subseteq callsShown[r]
    \/ callsShown[r] = {} /\ request[r].outcome \in {"null", "error"}

\* "re-requesting the same trace never duplicates rows" (internalTxService.ts:11).
OneRowPerCall ==
  \A a, b \in table : a.tx = b.tx /\ a.call = b.call => a = b
=============================================================================
