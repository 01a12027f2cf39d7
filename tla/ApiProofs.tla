------------------------------ MODULE ApiProofs ------------------------------
(***************************************************************************)
(* Safety of the API's lazy resolvers and of the web page over them, for   *)
(* every number of requests, contracts, calls, submissions and rows:       *)
(*                                                                         *)
(*   ItInv      a transaction with one row of internal calls has them all; *)
(*   FoundInv   a request that began with a stored row stays on the path   *)
(*              that found it;                                             *)
(*   TokenInv   what the caches and the requests hold is on the chain;     *)
(*   LabelInv   what a lookup was answered;                                *)
(*   TabInv     who can still answer a panel that shows a contract;        *)
(*   DiffInv    a decoded answer is of the transaction's two states;       *)
(*   PagesInv   a row of the first page's table that the walk has not shown*)
(*              is still ahead of it.                                      *)
(***************************************************************************)
EXTENDS InternalTxs, Verification, ChainReads, PagedReads, ContractTab, StateDiff,
        SequenceTheorems, TLAPS

-----------------------------------------------------------------------------
(* InternalTxs: an answer's calls. *)

\* Every call of the transaction has a row.
Complete(t) == Calls[t] \subseteq {entry.call : entry \in RowsOf(t)}

Asking == [at : {"idle", "trace", "save", "list", "answered"},
           tx : Txs \cup {CHOOSE t \in Txs : TRUE},
           outcome : {"none", "stored", "null", "error"}]

\* A request that goes on to the rows has stored them, or found them stored, or lacks them.
RequestFits(r) ==
  request[r].outcome \in {"null", "error"} \/ Complete(request[r].tx)

\* Both processes store a transaction's calls in one statement, and neither deletes:
\* a transaction with a row has a row of each call.
ItInv ==
  /\ request \in [Requests -> Asking]
  /\ DOMAIN callsShown = Requests
  /\ \A entry \in table : Complete(entry.tx)
  /\ \A r \in Requests :
       /\ request[r].at \in {"trace", "save"} => request[r].outcome = "none"
       /\ request[r].at = "list" => RequestFits(r)
  /\ AnswerComplete

\* A statement that has every call of the transactions it has rows of leaves every
\* transaction with a row with all its calls, whatever it skips as duplicates.
LEMMA InsertStep ==
  ASSUME \A entry \in table : Complete(entry.tx), NEW rows, Insert(rows),
         \A r \in rows : Calls[r.tx] \subseteq {p.call : p \in {q \in rows : q.tx = r.tx}}
  PROVE  /\ table \subseteq table'
         /\ \A entry \in table' : Complete(entry.tx)'
         /\ \A r \in rows : Complete(r.tx)'
<1>1. table' = table \cup {r \in rows : \A s \in table : <<s.tx, s.address>> # <<r.tx, r.address>>}
  BY DEF Insert
<1>2. ASSUME NEW t, RowsOf(t) # {} PROVE Complete(t)'
  <2>1. Complete(t)
    BY <1>2 DEF RowsOf
  <2>2. RowsOf(t) \subseteq RowsOf(t)'
    BY <1>1 DEF RowsOf
  <2> QED
    BY <2>1, <2>2 DEF Complete
<1>3. ASSUME NEW r \in rows, RowsOf(r.tx) = {} PROVE Complete(r.tx)'
  <2>1. ASSUME NEW call \in Calls[r.tx]
        PROVE  \E p \in RowsOf(r.tx)' : p.call = call
    <3>1. PICK p \in rows : p.tx = r.tx /\ p.call = call
      OBVIOUS
    <3>2. \A s \in table : s.tx # r.tx
      BY <1>3 DEF RowsOf
    <3>3. p \in table'
      BY <1>1, <3>1, <3>2
    <3> QED
      BY <3>1, <3>3 DEF RowsOf
  <2> QED
    BY <2>1 DEF Complete
<1>4. \A r \in rows : Complete(r.tx)'
  BY <1>2, <1>3
<1>5. ASSUME NEW entry \in table' PROVE Complete(entry.tx)'
  <2>1. CASE entry \in table
    BY <1>2, <2>1 DEF RowsOf
  <2>2. CASE entry \in rows
    BY <1>4, <2>2
  <2> QED
    BY <1>1, <2>1, <2>2
<1> QED
  BY <1>1, <1>4, <1>5

\* Both numberings have a row of each call of a transaction, and of no other.
LEMMA DecodedRows ==
  ASSUME NEW t
  PROVE  /\ {r.call : r \in decodeCallTracer(t)} = Calls[t]
         /\ {r.call : r \in flattenCallTracer(t)} = Calls[t]
         /\ \A r \in decodeCallTracer(t) \cup flattenCallTracer(t) : r.tx = t
<1>1. {r.call : r \in decodeCallTracer(t)} = Calls[t] /\ \A r \in decodeCallTracer(t) : r.tx = t
  <2> DEFINE entry(call) == [tx |-> t, address |-> call, call |-> call]
  <2>1. \A call : entry(call).call = call /\ entry(call).tx = t
    OBVIOUS
  <2>2. decodeCallTracer(t) = {entry(call) : call \in Calls[t]}
    BY DEF decodeCallTracer
  <2> HIDE DEF entry
  <2>3. \A r \in decodeCallTracer(t) : r.tx = t /\ r.call \in Calls[t]
    BY <2>1, <2>2
  <2>4. \A call \in Calls[t] : entry(call) \in decodeCallTracer(t) /\ entry(call).call = call
    BY <2>1, <2>2
  <2> QED
    BY <2>3, <2>4
<1>2. {r.call : r \in flattenCallTracer(t)} = Calls[t] /\ \A r \in flattenCallTracer(t) : r.tx = t
  <2> DEFINE entry(call) == [tx |-> t, address |-> <<0>> \o call, call |-> call]
  <2>1. \A call : entry(call).call = call /\ entry(call).tx = t
    OBVIOUS
  <2>2. flattenCallTracer(t) = {entry(call) : call \in Calls[t]}
    BY DEF flattenCallTracer
  <2> HIDE DEF entry
  <2>3. \A r \in flattenCallTracer(t) : r.tx = t /\ r.call \in Calls[t]
    BY <2>1, <2>2
  <2>4. \A call \in Calls[t] : entry(call) \in flattenCallTracer(t) /\ entry(call).call = call
    BY <2>1, <2>2
  <2> QED
    BY <2>3, <2>4
<1> QED
  BY <1>1, <1>2

\* Whoever stores a transaction's calls, stores them all or finds them all there.
LEMMA ItStep == ItInv /\ [ItNext]_itVars => ItInv'
<1> SUFFICES ASSUME ItInv, [ItNext]_itVars PROVE ItInv'
  OBVIOUS
<1>0. request \in [Requests -> Asking] /\ DOMAIN callsShown = Requests
  BY DEF ItInv
\* What a request that does not move knows stays true when rows are only added.
<1>1. ASSUME NEW r \in Requests, table \subseteq table', request'[r] = request[r],
             callsShown'[r] = callsShown[r]
      PROVE  /\ request'[r].at \in {"trace", "save"} => request'[r].outcome = "none"
             /\ request'[r].at = "list" => RequestFits(r)'
             /\ request'[r].at = "answered" =>
                  \/ Calls[request'[r].tx] \subseteq callsShown'[r]
                  \/ callsShown'[r] = {} /\ request'[r].outcome \in {"null", "error"}
  <2>1. \A t : RowsOf(t) \subseteq RowsOf(t)'
    BY <1>1 DEF RowsOf
  <2>2. \A t : Complete(t) => Complete(t)'
    BY <2>1 DEF Complete
  <2>3. Complete(request[r].tx) => Complete(request[r].tx)'
    <3>1. RowsOf(request[r].tx) \subseteq {entry \in table' : entry.tx = request'[r].tx}
      BY <1>1 DEF RowsOf
    <3> QED
      BY <1>1, <3>1 DEF Complete, RowsOf
  <2> QED
    BY <1>1, <2>3 DEF ItInv, RequestFits, AnswerComplete
<1>2. ASSUME UNCHANGED <<request, callsShown>>, table \subseteq table',
             \A entry \in table' : Complete(entry.tx)'
      PROVE  ItInv'
  <2>1. \A r \in Requests : request'[r] = request[r] /\ callsShown'[r] = callsShown[r]
    BY <1>2
  <2> QED
    BY <1>0, <1>1, <1>2, <2>1 DEF ItInv, AnswerComplete
<1>3. ASSUME UNCHANGED <<table, request, callsShown>> PROVE ItInv'
  BY <1>3 DEF ItInv, Complete, RowsOf, AnswerComplete, RequestFits
\* One request moves, and the rest follows.
<1>4. ASSUME NEW r \in Requests, NEW q \in Asking, request' = [request EXCEPT ![r] = q],
             table \subseteq table', \A entry \in table' : Complete(entry.tx)',
             DOMAIN callsShown' = Requests, \A s \in Requests \ {r} : callsShown'[s] = callsShown[s],
             q.at \in {"trace", "save"} => q.outcome = "none",
             q.at = "list" => q.outcome \in {"null", "error"} \/
               Calls[q.tx] \subseteq {entry.call : entry \in {e \in table' : e.tx = q.tx}},
             q.at = "answered" => \/ Calls[q.tx] \subseteq callsShown'[r]
                                  \/ callsShown'[r] = {} /\ q.outcome \in {"null", "error"}
      PROVE  ItInv'
  <2>1. request' \in [Requests -> Asking] /\ request'[r] = q
        /\ \A s \in Requests \ {r} : request'[s] = request[s]
    BY <1>0, <1>4
  <2>2. q.at = "list" => RequestFits(r)'
    BY <1>4, <2>1 DEF RequestFits, Complete, RowsOf
  <2>3. ASSUME NEW s \in Requests
        PROVE  /\ request'[s].at \in {"trace", "save"} => request'[s].outcome = "none"
               /\ request'[s].at = "list" => RequestFits(s)'
               /\ request'[s].at = "answered" =>
                    \/ Calls[request'[s].tx] \subseteq callsShown'[s]
                    \/ callsShown'[s] = {} /\ request'[s].outcome \in {"null", "error"}
    <3>1. CASE s = r
      BY <1>4, <2>1, <2>2, <3>1
    <3>2. CASE s # r
      <4>1. request'[s] = request[s] /\ callsShown'[s] = callsShown[s]
        BY <1>4, <2>1, <3>2
      <4> QED
        BY <1>1, <1>4, <4>1
    <3> QED
      BY <3>1, <3>2
  <2> QED
    BY <1>4, <2>1, <2>3 DEF ItInv, AnswerComplete
<1>5. ASSUME NEW skipsStored \in BOOLEAN, IndexStart(skipsStored) PROVE ItInv'
  BY <1>3, <1>5 DEF IndexStart
<1>6. CASE IndexTrace \/ IndexerRestarts
  BY <1>3, <1>6 DEF IndexTrace, IndexerRestarts
<1>7. CASE IndexSave
  <2> DEFINE rows == UNION {decodeCallTracer(t) : t \in Txs}
  <2>1. CASE Insert(rows) /\ UNCHANGED <<request, callsShown>>
    <3>1. ASSUME NEW r \in rows
          PROVE  Calls[r.tx] \subseteq {p.call : p \in {q \in rows : q.tx = r.tx}}
      <4>1. PICK t \in Txs : r \in decodeCallTracer(t)
        OBVIOUS
      <4>2. r.tx = t /\ decodeCallTracer(t) \subseteq {q \in rows : q.tx = t}
        BY <4>1, DecodedRows
      <4> HIDE DEF rows
      <4> QED
        BY <4>2, DecodedRows
    <3> HIDE DEF rows
    <3>2. table \subseteq table' /\ \A entry \in table' : Complete(entry.tx)'
      BY <2>1, <3>1, InsertStep DEF ItInv
    <3> QED
      BY <1>2, <2>1, <3>2
  <2>2. CASE UNCHANGED <<table, request, callsShown>>
    BY <1>3, <2>2
  <2> QED
    BY <1>7, <2>1, <2>2 DEF IndexSave
\* A step that leaves the table.
<1>8. UNCHANGED table => table \subseteq table' /\ \A entry \in table' : Complete(entry.tx)'
  BY DEF ItInv, Complete, RowsOf
<1>9. ASSUME NEW r \in Requests, NEW t \in Txs, ListCount(r, t) PROVE ItInv'
  <2> DEFINE q == IF RowsOf(t) = {} THEN [at |-> "trace", tx |-> t, outcome |-> "none"]
                  ELSE [at |-> "list", tx |-> t, outcome |-> "stored"]
  <2>1. request' = [request EXCEPT ![r] = q] /\ UNCHANGED <<table, callsShown>>
    BY <1>9 DEF ListCount
  <2>2. q \in Asking /\ q.at # "answered" /\ q.tx = t
        /\ (q.at \in {"trace", "save"} => q.outcome = "none")
    BY DEF Asking
  <2>3. q.at = "list" => Calls[t] \subseteq {entry.call : entry \in {e \in table' : e.tx = t}}
    BY <2>1 DEF ItInv, Complete, RowsOf
  <2> HIDE DEF q
  <2> QED
    BY <1>0, <1>4, <1>8, <2>1, <2>2, <2>3
<1>10. ASSUME NEW r \in Requests, ListTrace(r) PROVE ItInv'
  <2>1. request[r].at = "trace" /\ UNCHANGED <<table, callsShown>> /\ request[r] \in Asking
        /\ request[r].outcome = "none"
    BY <1>10 DEF ListTrace, ItInv
  <2>2. CASE request' = [request EXCEPT ![r].at = "save"]
    <3> DEFINE q == [request[r] EXCEPT !.at = "save"]
    <3>1. request' = [request EXCEPT ![r] = q]
      BY <1>0, <2>2
    <3>2. q \in Asking /\ q.at = "save" /\ q.outcome = "none"
      BY <2>1 DEF Asking
    <3> HIDE DEF q
    <3> QED
      BY <1>0, <1>4, <1>8, <2>1, <3>1, <3>2
  <2>3. ASSUME NEW outcome \in {"null", "error"},
               request' = [request EXCEPT ![r].at = "list", ![r].outcome = outcome]
        PROVE  ItInv'
    <3> DEFINE q == [request[r] EXCEPT !.at = "list", !.outcome = outcome]
    <3>1. request' = [request EXCEPT ![r] = q]
      BY <1>0, <2>3
    <3>2. q \in Asking /\ q.at = "list" /\ q.outcome \in {"null", "error"}
      BY <2>1 DEF Asking
    <3> HIDE DEF q
    <3> QED
      BY <1>0, <1>4, <1>8, <2>1, <3>1, <3>2
  <2> QED
    BY <1>10, <2>2, <2>3 DEF ListTrace
<1>11. ASSUME NEW r \in Requests, ListSave(r) PROVE ItInv'
  <2>0. request[r] \in Asking /\ UNCHANGED callsShown
    BY <1>0, <1>11 DEF ListSave
  <2>1. CASE request' = [request EXCEPT ![r].at = "list", ![r].outcome = "error"]
             /\ UNCHANGED table
    <3> DEFINE q == [request[r] EXCEPT !.at = "list", !.outcome = "error"]
    <3>1. request' = [request EXCEPT ![r] = q]
      BY <1>0, <2>1
    <3>2. q \in Asking /\ q.at = "list" /\ q.outcome \in {"null", "error"}
      BY <2>0 DEF Asking
    <3> HIDE DEF q
    <3> QED
      BY <1>0, <1>4, <1>8, <2>0, <2>1, <3>1, <3>2
  <2>2. CASE /\ Insert(flattenCallTracer(request[r].tx))
             /\ request' = [request EXCEPT ![r].at = "list", ![r].outcome = "stored"]
    <3> DEFINE t == request[r].tx
               q == [request[r] EXCEPT !.at = "list", !.outcome = "stored"]
    <3>1. \A e \in flattenCallTracer(t) :
            Calls[e.tx] \subseteq {p.call : p \in {p \in flattenCallTracer(t) : p.tx = e.tx}}
      BY DecodedRows
    <3> HIDE DEF t
    <3>2. Insert(flattenCallTracer(t))
      BY <2>2 DEF t
    <3>3. /\ table \subseteq table' /\ \A entry \in table' : Complete(entry.tx)'
          /\ \A e \in flattenCallTracer(t) : Complete(e.tx)'
      BY <3>1, <3>2, InsertStep DEF ItInv
    <3>4. Calls[t] \subseteq {entry.call : entry \in {e \in table' : e.tx = t}}
      <4>1. CASE Calls[t] = {}
        BY <4>1
      <4>2. CASE Calls[t] # {}
        <5>1. PICK e \in flattenCallTracer(t) : TRUE
          BY <4>2, DecodedRows
        <5>2. e.tx = t /\ Complete(e.tx)'
          BY <3>3, <5>1, DecodedRows
        <5> QED
          BY <5>2 DEF Complete, RowsOf
      <4> QED
        BY <4>1, <4>2
    <3>5. request' = [request EXCEPT ![r] = q]
      BY <1>0, <2>2
    <3>6. q \in Asking /\ q.at = "list" /\ q.tx = t
      BY <2>0 DEF Asking, t
    <3> HIDE DEF q
    <3> QED
      BY <1>0, <1>4, <2>0, <3>3, <3>4, <3>5, <3>6
  <2> QED
    BY <1>11, <2>1, <2>2 DEF ListSave
<1>12. ASSUME NEW r \in Requests, ListRows(r) PROVE ItInv'
  <2> DEFINE q == [request[r] EXCEPT !.at = "answered"]
             calls == {entry.call : entry \in RowsOf(request[r].tx)}
  <2>1. /\ request[r].at = "list" /\ UNCHANGED table
        /\ request' = [request EXCEPT ![r] = q] /\ callsShown' = [callsShown EXCEPT ![r] = calls]
    BY <1>0, <1>12 DEF ListRows
  <2>2. q \in Asking /\ q.at = "answered" /\ q.tx = request[r].tx
        /\ q.outcome = request[r].outcome
    BY <1>0 DEF Asking
  <2>3. \/ Calls[q.tx] \subseteq calls
        \/ calls = {} /\ q.outcome \in {"null", "error"}
    <3>1. CASE Complete(request[r].tx)
      <4>1. Calls[request[r].tx] \subseteq calls
        BY <3>1 DEF Complete
      <4>2. Calls[q.tx] = Calls[request[r].tx]
        BY <2>2
      <4> QED
        BY <4>1, <4>2
    <3>2. CASE ~Complete(request[r].tx)
      <4>1. request[r].outcome \in {"null", "error"}
        BY <2>1, <3>2 DEF ItInv, RequestFits
      <4>2. RowsOf(request[r].tx) = {}
        <5>1. \A entry \in table : entry.tx # request[r].tx
          BY <3>2 DEF ItInv
        <5> QED
          BY <5>1 DEF RowsOf
      <4> QED
        BY <2>2, <4>1, <4>2
    <3> QED
      BY <3>1, <3>2
  <2> HIDE DEF q, calls
  <2>4. callsShown'[r] = calls /\ DOMAIN callsShown' = Requests
        /\ \A s \in Requests \ {r} : callsShown'[s] = callsShown[s]
    BY <1>0, <2>1
  <2> QED
    BY <1>4, <1>8, <2>1, <2>2, <2>3, <2>4
<1>13. CASE UNCHANGED itVars
  BY <1>3, <1>13 DEF itVars
<1> QED
  BY <1>5, <1>6, <1>7, <1>9, <1>10, <1>11, <1>12, <1>13 DEF ItNext

\* An answer shows every call of the transaction, whoever stored them first and in
\* whichever numbering, or none, when the request's own trace was null or failed.
THEOREM AnswerAlwaysComplete == ItSpec => []AnswerComplete
<1>1. ASSUME ItInit PROVE ItInv
  <2> DEFINE none == [at |-> "idle", tx |-> CHOOSE t \in Txs : TRUE, outcome |-> "none"]
  <2>1. request = [r \in Requests |-> none] /\ table = {} /\ DOMAIN callsShown = Requests
    BY <1>1 DEF ItInit
  <2>2. none \in Asking /\ none.at = "idle"
    BY DEF Asking
  <2> HIDE DEF none
  <2> QED
    BY <2>1, <2>2 DEF ItInv, AnswerComplete
<1>2. ItInv => AnswerComplete
  BY DEF ItInv
<1> QED
  BY <1>1, <1>2, ItStep, PTL DEF ItSpec

-----------------------------------------------------------------------------
(* Verification: a stored record is found. *)

AnswersOf == {"none", "verified", "unverified", "error"}

Readings == [at : {"idle", "row", "negative", "fetch", "save", "answer", "done"},
             root : Contracts \cup {NoContract}, current : Contracts \cup {NoContract},
             second : BOOLEAN, nested : BOOLEAN, found : BOOLEAN, answer : AnswersOf,
             known : BOOLEAN, stale : BOOLEAN]

\* A request that began with a stored row is at that row, which is never deleted, or
\* has found it, and nothing it does for the implementation takes that back.
OnPath(q) ==
  /\ q.at \notin {"idle", "done"} => ~q.stale
  /\ q.at # "idle" /\ q.known /\ ~q.stale =>
       \/ /\ q.at = "row" /\ ~q.second /\ ~q.nested
          /\ q.current = q.root /\ stored[q.root] # "no"
       \/ q.at \in {"row", "negative", "fetch", "save"} /\ q.found /\ q.second
       \/ q.at \in {"answer", "done"} /\ q.answer \in {"verified", "error"}

\* The cache has such requests' answers, and those to earlier ones.
PagesTrue ==
  /\ page \in [Contracts -> [answer : AnswersOf, known : BOOLEAN]]
  /\ \A c \in Contracts : page[c].known => page[c].answer \in {"verified", "error"}

FoundInv ==
  /\ stored \in [Contracts -> {"no", "explorer", "local", "both"}]
  /\ PagesTrue
  /\ reader \in [Readers -> Readings]
  /\ \A r \in Readers :
       /\ reader[r].at # "idle" => {reader[r].root, reader[r].current} \subseteq Contracts
       /\ OnPath(reader[r])

\* What the invariant says of the request that moves is enough: no row is deleted.
LEMMA ReaderMoves ==
  ASSUME FoundInv, NEW r \in Readers, NEW q \in Readings, reader' = [reader EXCEPT ![r] = q],
         stored' \in [Contracts -> {"no", "explorer", "local", "both"}],
         \A c \in Contracts : stored[c] # "no" => stored'[c] # "no",
         {q.root, q.current} \subseteq Contracts, OnPath(q), PagesTrue'
  PROVE  FoundInv'
<1> DEFINE Led(p) ==
  /\ p.at \notin {"idle", "done"} => ~p.stale
  /\ p.at # "idle" /\ p.known /\ ~p.stale =>
       \/ /\ p.at = "row" /\ ~p.second /\ ~p.nested
          /\ p.current = p.root /\ stored'[p.root] # "no"
       \/ p.at \in {"row", "negative", "fetch", "save"} /\ p.found /\ p.second
       \/ p.at \in {"answer", "done"} /\ p.answer \in {"verified", "error"}
<1>1. reader' \in [Readers -> Readings]
  BY DEF FoundInv
<1>2. ASSUME NEW p \in Readings, p.at # "idle" => {p.root, p.current} \subseteq Contracts,
             OnPath(p)
      PROVE  Led(p)
  BY <1>2 DEF OnPath
<1> HIDE DEF Led
<1>3. ASSUME NEW s \in Readers
      PROVE  /\ reader'[s].at # "idle" => {reader'[s].root, reader'[s].current} \subseteq Contracts
             /\ Led(reader'[s])
  <2>1. CASE s = r
    <3>1. reader'[s] = q
      BY <2>1 DEF FoundInv
    <3> QED
      BY <1>2, <3>1
  <2>2. CASE s # r
    <3>1. reader'[s] = reader[s] /\ reader[s] \in Readings
      BY <2>2 DEF FoundInv
    <3>2. reader[s].at # "idle" => {reader[s].root, reader[s].current} \subseteq Contracts
      BY DEF FoundInv
    <3>3. OnPath(reader[s])
      BY DEF FoundInv
    <3> QED
      BY <1>2, <3>1, <3>2, <3>3
  <2> QED
    BY <2>1, <2>2
<1>4. \A s \in Readers : OnPath(reader[s])'
  BY <1>3 DEF OnPath, Led
<1> QED
  BY <1>1, <1>3, <1>4 DEF FoundInv

\* A call that returns with the record it was called for, or within the second call,
\* leaves the request on its path.
LEMMA ReturnStep ==
  ASSUME FoundInv, NEW r \in Readers, NEW found \in BOOLEAN,
         NEW implementation \in Contracts \cup {NoContract},
         Returned(r, found, implementation), UNCHANGED page,
         stored' \in [Contracts -> {"no", "explorer", "local", "both"}],
         \A c \in Contracts : stored[c] # "no" => stored'[c] # "no",
         reader[r].at \in {"row", "negative", "fetch", "save"},
         reader[r].known => reader[r].second \/ (found /\ ~reader[r].nested)
  PROVE  FoundInv'
<1> DEFINE q == reader[r]
           f == IF q.nested \/ q.second THEN q.found ELSE found
           p == IF ~q.second /\ f /\ implementation # NoContract
                THEN [q EXCEPT !.at = "row", !.current = implementation, !.second = TRUE,
                               !.nested = FALSE, !.found = f]
                ELSE [q EXCEPT !.at = "answer", !.found = f,
                               !.answer = IF f THEN "verified" ELSE "unverified"]
<1>1. q \in Readings /\ reader \in [Readers -> Readings] /\ {q.root, q.current} \subseteq Contracts
  BY DEF FoundInv
<1>2. reader' = [reader EXCEPT ![r] = p]
  BY DEF Returned
<1>3. OnPath(q) /\ PagesTrue' /\ q.at \in {"row", "negative", "fetch", "save"}
  BY DEF FoundInv, PagesTrue
<1>4. f \in BOOLEAN /\ ~q.stale /\ (q.known => f)
  BY <1>1, <1>3 DEF Readings, OnPath
<1> HIDE DEF f
<1>5. p \in Readings /\ {p.root, p.current} \subseteq Contracts /\ OnPath(p)
  <2>1. CASE ~q.second /\ f /\ implementation # NoContract
    <3>1. /\ p = [q EXCEPT !.at = "row", !.current = implementation, !.second = TRUE,
                           !.nested = FALSE, !.found = f]
          /\ implementation \in Contracts
      BY <2>1
    <3> HIDE DEF p
    <3> QED
      BY <1>1, <1>4, <2>1, <3>1 DEF Readings, OnPath
  <2>2. CASE ~(~q.second /\ f /\ implementation # NoContract)
    <3>1. p = [q EXCEPT !.at = "answer", !.found = f,
                        !.answer = IF f THEN "verified" ELSE "unverified"]
      BY <2>2
    <3> HIDE DEF p
    <3> QED
      BY <1>1, <1>4, <3>1 DEF Readings, OnPath, AnswersOf
  <2> QED
    BY <2>1, <2>2
<1> HIDE DEF p
<1> QED
  BY <1>2, <1>3, <1>5, ReaderMoves

\* The upsert's call goes on to the implementation, or returns.
LEMMA RecurseStep ==
  ASSUME FoundInv, NEW r \in Readers, reader[r].at = "save", Recurse(r), UNCHANGED page,
         stored' \in [Contracts -> {"no", "explorer", "local", "both"}],
         \A c \in Contracts : stored[c] # "no" => stored'[c] # "no"
  PROVE  FoundInv'
<1> DEFINE q == reader[r]
           f == IF q.nested \/ q.second THEN q.found ELSE TRUE
           p == [q EXCEPT !.at = "row", !.found = f, !.nested = TRUE,
                          !.current = Implementation[q.current]]
<1>1. q \in Readings /\ reader \in [Readers -> Readings]
  BY DEF FoundInv
<1>2. q.current \in Contracts /\ q.root \in Contracts /\ OnPath(q) /\ PagesTrue'
  BY DEF FoundInv, PagesTrue
<1>3. ~q.stale /\ (q.known => q.found /\ q.second)
  BY <1>1, <1>2 DEF Readings, OnPath
<1>4. CASE Implementation[q.current] # NoContract
  <2>1. reader' = [reader EXCEPT ![r] = p]
    BY <1>4 DEF Recurse
  <2>2. Implementation[q.current] \in Contracts
    BY <1>2, <1>4, VerificationAssumption
  <2>3. p \in Readings /\ {p.root, p.current} \subseteq Contracts /\ OnPath(p)
    BY <1>1, <1>2, <1>3, <2>2 DEF Readings, OnPath
  <2> HIDE DEF p
  <2> QED
    BY <1>2, <2>1, <2>3, ReaderMoves
<1>5. CASE Implementation[q.current] = NoContract
  <2>1. Returned(r, TRUE, Implementation[q.root])
    BY <1>5 DEF Recurse
  <2>2. Implementation[q.root] \in Contracts \cup {NoContract}
    BY <1>2, VerificationAssumption
  <2> QED
    BY <1>3, <2>1, <2>2, ReturnStep
<1> QED
  BY <1>4, <1>5

\* A request's step stays on the path that finds the record, and no row goes away.
LEMMA FoundStep == FoundInv /\ [VerNext]_verVars => FoundInv'
<1> SUFFICES ASSUME FoundInv, [VerNext]_verVars PROVE FoundInv'
  OBVIOUS
<1>1. ASSUME UNCHANGED reader, stored' \in [Contracts -> {"no", "explorer", "local", "both"}],
             \A c \in Contracts : stored[c] # "no" => stored'[c] # "no", PagesTrue'
      PROVE  FoundInv'
  <2>1. \A r \in Readers : OnPath(reader[r]) => OnPath(reader[r])'
    BY <1>1 DEF FoundInv, OnPath
  <2> QED
    BY <1>1, <2>1 DEF FoundInv
<1>0. PagesTrue /\ (UNCHANGED page => PagesTrue')
  BY DEF FoundInv, PagesTrue
<1>2. ASSUME NEW r \in Readers, NEW c \in Contracts, Resolve(r, c) PROVE FoundInv'
  <2> DEFINE q == [ReaderInit EXCEPT !.at = "row", !.root = c, !.current = c,
                                     !.known = stored[c] # "no"]
  <2>1. reader' = [reader EXCEPT ![r] = q] /\ UNCHANGED <<stored, page>>
    BY <1>2 DEF Resolve
  <2>2. q \in Readings /\ {q.root, q.current} \subseteq Contracts /\ OnPath(q)
    BY DEF ReaderInit, Readings, OnPath, AnswersOf
  <2> HIDE DEF q
  <2> QED
    BY <1>0, <2>1, <2>2, ReaderMoves DEF FoundInv
<1>7. ASSUME NEW r \in Readers, NEW c \in Contracts, ServeCached(r, c) PROVE FoundInv'
  <2> DEFINE q == [ReaderInit EXCEPT !.at = "done", !.root = c, !.current = c,
                                     !.answer = page[c].answer,
                                     !.known = stored[c] # "no", !.stale = ~page[c].known]
  <2>1. reader' = [reader EXCEPT ![r] = q] /\ UNCHANGED <<stored, page>>
    BY <1>7 DEF ServeCached
  <2>2. page[c].answer \in AnswersOf /\ page[c].known \in BOOLEAN
        /\ (page[c].known => page[c].answer \in {"verified", "error"})
    BY <1>0 DEF PagesTrue
  <2>3. q \in Readings /\ {q.root, q.current} \subseteq Contracts /\ OnPath(q)
    BY <2>2 DEF ReaderInit, Readings, OnPath
  <2> HIDE DEF q
  <2> QED
    BY <1>0, <2>1, <2>3, ReaderMoves DEF FoundInv
<1>3. ASSUME NEW r \in Readers, ReaderStep(r) PROVE FoundInv'
  <2> DEFINE q == reader[r]
  <2>1. q \in Readings /\ reader \in [Readers -> Readings] /\ OnPath(q)
        /\ (q.at # "idle" => {q.root, q.current} \subseteq Contracts)
    BY DEF FoundInv
  <2>2. ASSUME q.at # "idle"
        PROVE  RootImplementation(r) \in Contracts \cup {NoContract}
    BY <2>1, <2>2, VerificationAssumption DEF RootImplementation, ImplementationOf
  <2>3. ASSUME NEW at \in {"negative", "fetch", "save"}, reader' = [reader EXCEPT ![r].at = at],
               UNCHANGED <<stored, page>>, q.at \in {"row", "negative", "fetch"},
               q.known => q.found /\ q.second
        PROVE  FoundInv'
    <3> DEFINE p == [q EXCEPT !.at = at]
    <3>1. reader' = [reader EXCEPT ![r] = p]
      BY <2>1, <2>3
    <3>2. p \in Readings /\ {p.root, p.current} \subseteq Contracts /\ OnPath(p)
      BY <2>1, <2>3 DEF Readings, OnPath
    <3> HIDE DEF p
    <3> QED
      BY <1>0, <2>3, <3>1, <3>2, ReaderMoves DEF FoundInv
  <2>9. UNCHANGED stored => /\ stored' \in [Contracts -> {"no", "explorer", "local", "both"}]
                            /\ \A c \in Contracts : stored[c] # "no" => stored'[c] # "no"
    BY DEF FoundInv
  <2>4. CASE ReadRow(r)
    <3>1. q.at = "row" /\ UNCHANGED <<stored, page>>
      BY <2>4 DEF ReadRow
    <3>2. CASE stored[q.current] # "no"
      <4>1. Returned(r, TRUE, RootImplementation(r))
        BY <2>4, <3>2 DEF ReadRow
      <4>2. q.known => q.second \/ ~q.nested
        BY <2>1, <3>1 DEF OnPath
      <4> QED
        BY <2>2, <2>9, <3>1, <4>1, <4>2, ReturnStep
    <3>3. CASE stored[q.current] = "no"
      <4>1. reader' = [reader EXCEPT ![r].at = "negative"]
        BY <2>4, <3>3 DEF ReadRow
      <4>2. q.known => q.found /\ q.second
        BY <2>1, <3>1, <3>3 DEF OnPath
      <4> QED
        BY <2>3, <3>1, <4>1, <4>2
    <3> QED
      BY <3>2, <3>3
  <2>8. CASE ReadRowFails(r)
    <3>1. q.at = "row" /\ UNCHANGED <<stored, page>>
      BY <2>8 DEF ReadRowFails
    <3>2. CASE q.nested
      <4>1. Returned(r, TRUE, RootImplementation(r))
        BY <2>8, <3>2 DEF ReadRowFails
      <4>2. q.known => q.second
        BY <2>1, <3>1, <3>2 DEF OnPath, Readings
      <4> QED
        BY <2>2, <2>9, <3>1, <4>1, <4>2, ReturnStep
    <3>3. CASE ~q.nested
      <4> DEFINE p == [q EXCEPT !.at = "answer", !.answer = "error"]
      <4>1. reader' = [reader EXCEPT ![r] = p]
        BY <2>1, <2>8, <3>3 DEF ReadRowFails
      <4>2. p \in Readings /\ {p.root, p.current} \subseteq Contracts /\ OnPath(p)
        BY <2>1, <3>1 DEF Readings, OnPath, AnswersOf
      <4> HIDE DEF p
      <4> QED
        BY <1>0, <2>9, <3>1, <4>1, <4>2, ReaderMoves
    <3> QED
      BY <3>2, <3>3
  <2>10. CASE SendVerification(r)
    <3> DEFINE p == [q EXCEPT !.at = "done"]
               e == [answer |-> q.answer, known |-> q.known]
    <3>0. /\ reader' = [reader EXCEPT ![r].at = "done"] /\ UNCHANGED stored /\ q.at = "answer"
          /\ \/ page' = [page EXCEPT ![q.root] = e]
             \/ UNCHANGED page
      BY <2>10 DEF SendVerification
    <3>1. reader' = [reader EXCEPT ![r] = p]
      BY <2>1, <3>0
    <3>2. p \in Readings /\ {p.root, p.current} \subseteq Contracts /\ OnPath(p)
      BY <2>1, <3>0 DEF Readings, OnPath
    <3>3. e \in [answer : AnswersOf, known : BOOLEAN]
          /\ (e.known => e.answer \in {"verified", "error"})
      BY <2>1, <3>0 DEF Readings, OnPath
    <3> HIDE DEF p, e
    <3>4. PagesTrue'
      BY <1>0, <3>0, <3>3 DEF PagesTrue
    <3> QED
      BY <2>9, <3>0, <3>1, <3>2, <3>4, ReaderMoves
  <2>5. CASE ReadNegative(r)
    <3>1. q.at = "negative" /\ UNCHANGED <<stored, page>> /\ (q.known => q.found /\ q.second)
      BY <2>1, <2>5 DEF ReadNegative, OnPath
    <3>2. CASE Returned(r, FALSE, RootImplementation(r))
      BY <2>2, <2>9, <3>1, <3>2, ReturnStep
    <3>3. CASE reader' = [reader EXCEPT ![r].at = "fetch"]
      BY <2>3, <3>1, <3>3
    <3> QED
      BY <2>5, <3>2, <3>3 DEF ReadNegative
  <2>6. CASE FetchExplorer(r)
    <3>1. q.at = "fetch" /\ UNCHANGED <<stored, page>> /\ (q.known => q.found /\ q.second)
      BY <2>1, <2>6 DEF FetchExplorer, OnPath
    <3>2. CASE Returned(r, FALSE, RootImplementation(r))
      BY <2>2, <2>9, <3>1, <3>2, ReturnStep
    <3>3. CASE reader' = [reader EXCEPT ![r].at = "save"]
      BY <2>3, <3>1, <3>3
    <3> QED
      BY <2>6, <3>2, <3>3 DEF FetchExplorer
  <2>7. CASE SaveRecord(r)
    <3>1. q.at = "save" /\ Recurse(r) /\ UNCHANGED page
      BY <2>7 DEF SaveRecord
    <3>2. stored' \in {stored, [stored EXCEPT ![q.current] = "explorer"]}
      BY <2>7 DEF SaveRecord
    <3>3. /\ stored' \in [Contracts -> {"no", "explorer", "local", "both"}]
          /\ \A c \in Contracts : stored[c] # "no" => stored'[c] # "no"
      BY <3>2 DEF FoundInv
    <3> QED
      BY <3>1, <3>3, RecurseStep
  <2> QED
    BY <1>3, <2>4, <2>5, <2>6, <2>7, <2>8, <2>10 DEF ReaderStep
<1>4. ASSUME NEW c \in Contracts, PostVerify(c) PROVE FoundInv'
  <2>1. UNCHANGED <<reader, page>>
        /\ stored' = [stored EXCEPT ![c] = IF @ \in {"explorer", "both"} THEN "both" ELSE "local"]
    BY <1>4 DEF PostVerify
  <2>2. /\ stored' \in [Contracts -> {"no", "explorer", "local", "both"}]
        /\ \A d \in Contracts : stored[d] # "no" => stored'[d] # "no"
    BY <2>1 DEF FoundInv
  <2> QED
    BY <1>0, <1>1, <2>1, <2>2
<1>5. ASSUME NEW c \in Contracts, NegativeExpires(c) \/ ExplorerVerifies(c) PROVE FoundInv'
  BY <1>0, <1>1, <1>5 DEF NegativeExpires, ExplorerVerifies, FoundInv
<1>8. ASSUME NEW c \in Contracts, PageExpires(c) PROVE FoundInv'
  <2>1. UNCHANGED <<reader, stored>> /\ page' = [page EXCEPT ![c] = NoPage]
    BY <1>8 DEF PageExpires
  <2>2. NoPage \in [answer : AnswersOf, known : BOOLEAN] /\ ~NoPage.known
    BY DEF NoPage, AnswersOf
  <2>3. PagesTrue'
    BY <1>0, <2>1, <2>2 DEF PagesTrue
  <2> QED
    BY <1>1, <2>1, <2>3 DEF FoundInv
<1>6. CASE UNCHANGED verVars
  BY <1>0, <1>1, <1>6 DEF verVars, FoundInv
<1> QED
  BY <1>2, <1>3, <1>4, <1>5, <1>6, <1>7, <1>8 DEF VerNext

\* A request that begins when its contract's record is stored says verified or fails,
\* whatever the negative cache holds and whatever becomes of the implementation's record,
\* unless it is given a cached response to a request that began before.
THEOREM VerifiedIsAlwaysFound == VerSpec => []VerifiedIsFound
<1>1. VerInit => FoundInv
  <2>1. ReaderInit \in Readings /\ ReaderInit.at = "idle"
    BY DEF ReaderInit, Readings, AnswersOf
  <2>2. NoPage \in [answer : AnswersOf, known : BOOLEAN] /\ ~NoPage.known
    BY DEF NoPage, AnswersOf
  <2> QED
    BY <2>1, <2>2 DEF VerInit, FoundInv, OnPath, PagesTrue
<1>2. FoundInv => VerifiedIsFound
  BY DEF FoundInv, OnPath, VerifiedIsFound
<1> QED
  BY <1>1, <1>2, FoundStep, PTL DEF VerSpec
-----------------------------------------------------------------------------
(* ChainReads: what the caches and the requests hold. *)

Asks == [at : {"idle", "token", "code", "probe", "write", "heal", "healed", "type", "standard",
               "infer", "answered"},
         want : {"none", "list", "detail", "type", "standard"},
         addr : Addresses \cup {"none"},
         base : SUBSET (TokenFields \cup {"nft"}),
         got : SUBSET TokenFields, live : BOOLEAN, missed : BOOLEAN]

\* What a request holds came from the contract, and the request is where its kind
\* goes; a detail request that missed nothing holds all the contract answers.
RequestOK(q) ==
  /\ q \in Asks
  /\ q.at \in {"token", "code", "probe", "write", "heal", "healed"} =>
       q.want \in {"list", "detail", "standard"}
  /\ q.at = "type" => q.want \in {"type", "standard"}
  /\ q.at = "standard" => q.want = "standard"
  /\ q.at \notin {"idle", "answered"} => q.addr \in Addresses
  /\ q.at = "write" => q.got \subseteq OnChain(q.addr)
  /\ q.at = "heal" => q.base \subseteq OnChain(q.addr)
  /\ q.at = "healed" => q.base \cup q.got \subseteq OnChain(q.addr)
  /\ q.live =>
       /\ q.want = "detail" /\ q.addr \in deployed
       /\ ~q.missed =>
            /\ q.at \in {"write", "answered"} => OnChain(q.addr) \subseteq q.got
            /\ q.at = "healed" => OnChain(q.addr) \subseteq q.base \cup q.got

\* A definite entry is a fact of the chain, and so is each field of a token's.
CachesTrue ==
  /\ deployed \subseteq Addresses
  /\ isContract \in [Addresses -> {"none", "yes", "no"}]
  /\ tokenCache \in [Addresses -> [fields : SUBSET TokenFields, long : BOOLEAN, present : BOOLEAN]]
  /\ typeCache \in [Addresses -> {"none", "nft", "other"}]
  /\ \A a \in Addresses :
       /\ tokenCache[a].fields \subseteq OnChain(a)
       /\ tokenCache[a].long => {"name", "symbol"} \subseteq tokenCache[a].fields
       /\ isContract[a] = "yes" => a \in deployed
       /\ typeCache[a] = "nft" => a \in Nfts \cap deployed

TokenInv ==
  /\ CachesTrue
  /\ client \in [Clients -> Asks]
  /\ \A c \in Clients : RequestOK(client[c])

\* A contract answers some of the three fields, and an address without code none.
LEMMA OnChainFields ==
  ASSUME NEW a \in Addresses
  PROVE  /\ OnChain(a) \subseteq TokenFields
         /\ a \in deployed => OnChain(a) = Answers[a]
BY ChainReadsAssumption DEF OnChain

\* A step that moves one request to a state that is in order, over caches that are
\* still true and the same contracts, keeps the invariant.
LEMMA RequestMoves ==
  ASSUME TokenInv, NEW c \in Clients, NEW q, RequestOK(q), Moves(c, q),
         UNCHANGED deployed, CachesTrue'
  PROVE  TokenInv'
<1>1. client' = [client EXCEPT ![c] = q] /\ client \in [Clients -> Asks] /\ q \in Asks
  BY DEF TokenInv, Moves, RequestOK
<1>2. client' \in [Clients -> Asks]
  BY <1>1
<1>3. ASSUME NEW d \in Clients PROVE RequestOK(client[d])'
  <2>1. RequestOK(client'[d])
    <3>1. CASE d = c
      BY <1>1, <3>1
    <3>2. CASE d # c
      BY <1>1, <3>2 DEF TokenInv
    <3> QED
      BY <3>1, <3>2
  <2>2. PICK r : r = client'[d]
    OBVIOUS
  <2>3. RequestOK(r) <=> RequestOK(r)'
    BY DEF RequestOK, OnChain
  <2> QED
    BY <2>1, <2>2, <2>3 DEF RequestOK, OnChain
<1> QED
  BY <1>2, <1>3 DEF TokenInv, Asks

\* The states a request is answered or goes on to with the fields it holds are in
\* order, if a detail request that missed nothing holds all of them.
LEMMA AnsweredOK ==
  ASSUME NEW c \in Clients, client \in [Clients -> Asks], RequestOK(client[c]),
         client[c].at \in {"token", "code", "probe", "write", "heal", "healed"},
         NEW fields \in SUBSET TokenFields,
         client[c].live /\ ~client[c].missed => OnChain(client[c].addr) \subseteq fields
  PROVE  RequestOK(Answered(c, fields))
<1>1. client[c].want \in {"list", "detail", "standard"} /\ client[c] \in Asks /\ client[c].addr \in Addresses
  BY DEF RequestOK
<1>2. CASE client[c].want = "list"
  <2>1. Answered(c, fields) = Idle
    BY <1>2 DEF Answered
  <2> QED
    BY <2>1 DEF RequestOK, Asks, Idle
<1>3. CASE client[c].want = "standard"
  <2>1. Answered(c, fields) =
          [client[c] EXCEPT !.at = "infer", !.base = {}, !.got = fields, !.missed = FALSE]
    BY <1>3 DEF Answered
  <2>2. ~client[c].live
    BY <1>3 DEF RequestOK
  <2> QED
    BY <1>1, <1>3, <2>1, <2>2, SMTT(40), ZenonT(60) DEF RequestOK, Asks
<1>4. CASE client[c].want = "detail"
  <2>1. Answered(c, fields) = [client[c] EXCEPT !.at = "answered", !.base = {}, !.got = fields]
    BY <1>4 DEF Answered
  <2> QED
    BY <1>1, <1>4, <2>1, SMTT(40), ZenonT(60) DEF RequestOK, Asks
<1> QED
  BY <1>1, <1>2, <1>3, <1>4

\* Each action moves its request to a state in order, and what it caches is true.
LEMMA TokenStep == TokenInv /\ [ChainNext]_chainVars => TokenInv'
<1> SUFFICES ASSUME TokenInv, [ChainNext]_chainVars PROVE TokenInv'
  OBVIOUS
<1>0. /\ CachesTrue /\ client \in [Clients -> Asks]
      /\ \A c \in Clients : RequestOK(client[c])
  BY DEF TokenInv
<1>a. UNCHANGED <<deployed, isContract, tokenCache, typeCache>> => CachesTrue'
  BY <1>0 DEF CachesTrue, OnChain
<1>1. CASE Deploy
  <2>1. PICK a \in Addresses \ deployed : deployed' = deployed \cup {a}
    BY <1>1 DEF Deploy
  <2>2. UNCHANGED <<isContract, tokenCache, typeCache, client>>
    BY <1>1 DEF Deploy
  <2>3. /\ \A b \in Addresses : OnChain(b) \subseteq OnChain(b)'
        /\ \A b \in deployed : OnChain(b)' = OnChain(b)
    BY <2>1 DEF OnChain
  <2>4. CachesTrue'
    <3>1. \A b \in Addresses : tokenCache[b].fields \subseteq OnChain(b)'
      BY <1>0, <2>3 DEF CachesTrue
    <3> QED
      BY <1>0, <2>1, <2>2, <3>1 DEF CachesTrue
  <2>5. ASSUME NEW c \in Clients PROVE RequestOK(client[c])'
    <3>1. PICK q : q = client[c] /\ RequestOK(q)
      BY <1>0
    <3>2. q \in Asks /\ q.addr \in Addresses \cup {"none"}
      BY <3>1 DEF RequestOK, Asks
    <3>3. q.at \notin {"idle", "answered"} => OnChain(q.addr) \subseteq OnChain(q.addr)'
      BY <2>3, <3>1 DEF RequestOK
    <3>4. q.live => q.addr \in deployed' /\ OnChain(q.addr)' = OnChain(q.addr)
      BY <2>1, <2>3, <3>1 DEF RequestOK
    <3>5. RequestOK(q)'
      BY <3>1, <3>3, <3>4 DEF RequestOK, Asks
    <3> QED
      BY <2>2, <3>1, <3>5 DEF RequestOK, OnChain
  <2> QED
    BY <1>0, <2>2, <2>4, <2>5 DEF TokenInv, Asks
<1>2. CASE Expires
  <2>1. UNCHANGED <<deployed, client>>
    BY <1>2 DEF Expires
  <2>2. CachesTrue'
    <3>1. PICK a \in Addresses :
            \/ /\ isContract' = [isContract EXCEPT ![a] = "none"]
               /\ UNCHANGED <<tokenCache, typeCache>>
            \/ /\ tokenCache' = [tokenCache EXCEPT ![a] = NoEntry]
               /\ UNCHANGED <<isContract, typeCache>>
            \/ /\ typeCache' = [typeCache EXCEPT ![a] = "none"]
               /\ UNCHANGED <<isContract, tokenCache>>
            \/ UNCHANGED <<isContract, tokenCache, typeCache>>
      BY <1>2 DEF Expires
    <3>2. CASE isContract' = [isContract EXCEPT ![a] = "none"] /\ UNCHANGED <<tokenCache, typeCache>>
      BY <1>0, <2>1, <3>2 DEF CachesTrue, OnChain
    <3>3. CASE tokenCache' = [tokenCache EXCEPT ![a] = NoEntry] /\ UNCHANGED <<isContract, typeCache>>
      BY <1>0, <2>1, <3>3 DEF CachesTrue, OnChain, NoEntry
    <3>4. CASE typeCache' = [typeCache EXCEPT ![a] = "none"] /\ UNCHANGED <<isContract, tokenCache>>
      BY <1>0, <2>1, <3>4 DEF CachesTrue, OnChain
    <3> QED
      BY <1>a, <2>1, <3>1, <3>2, <3>3, <3>4
  <2>3. ASSUME NEW c \in Clients PROVE RequestOK(client[c])'
    BY <1>0, <2>1 DEF RequestOK, OnChain
  <2> QED
    BY <1>0, <2>1, <2>2, <2>3 DEF TokenInv, Asks
<1>3. CASE UNCHANGED chainVars
  <2>1. UNCHANGED <<deployed, isContract, tokenCache, typeCache, client>>
    BY <1>3 DEF chainVars
  <2>2. ASSUME NEW c \in Clients PROVE RequestOK(client[c])'
    BY <1>0, <2>1 DEF RequestOK, OnChain
  <2> QED
    BY <1>0, <1>a, <2>1, <2>2 DEF TokenInv, Asks
<1>4. ASSUME NEW c \in Clients, NEW want \in Wants[c], NEW a \in Addresses, Ask(c, want, a)
      PROVE  TokenInv'
  <2>1. want \in {"list", "detail", "type", "standard"}
    BY ChainReadsAssumption
  <2>2. PICK q : /\ q = [Idle EXCEPT !.want = want, !.addr = a,
                           !.live = want = "detail" /\ a \in deployed,
                           !.at = CASE want \in {"list", "detail"} -> "token" [] want = "type" -> "type"
                                    [] want = "standard" -> "standard"]
                 /\ Moves(c, q)
    BY <1>4 DEF Ask
  <2>3. RequestOK(q)
    BY <2>1, <2>2 DEF RequestOK, Asks, Idle
  <2> QED
    BY <1>4, <1>a, <2>2, <2>3, RequestMoves DEF Ask
<1>5. ASSUME NEW c \in Clients, TokenRead(c) PROVE TokenInv'
  <2> DEFINE q == client[c]
             cached == tokenCache[q.addr]
             remote == q.want # "list"
  <2>0. RequestOK(q) /\ q.at = "token" /\ q.addr \in Addresses /\ q \in Asks
    BY <1>0, <1>5 DEF TokenRead, RequestOK
  <2>1. cached.fields \subseteq OnChain(q.addr) /\ cached.fields \in SUBSET TokenFields
    BY <1>0, <2>0 DEF CachesTrue
  <2>2. q.live /\ ~q.missed => remote /\ OnChain(q.addr) \subseteq TokenFields
    BY <2>0, OnChainFields DEF RequestOK
  <2>3. ASSUME cached.fields = TokenFields \/ ~remote, Moves(c, Answered(c, cached.fields))
        PROVE  TokenInv'
    <3>1. RequestOK(Answered(c, cached.fields))
      BY <1>0, <2>0, <2>1, <2>2, <2>3, AnsweredOK
    <3> QED
      BY <1>5, <1>a, <2>3, <3>1, RequestMoves DEF TokenRead
  <2>4. ASSUME Moves(c, [q EXCEPT !.at = "heal", !.base = cached.fields]) PROVE TokenInv'
    <3>1. RequestOK([q EXCEPT !.at = "heal", !.base = cached.fields])
      BY <2>0, <2>1 DEF RequestOK, Asks
    <3> QED
      BY <1>5, <1>a, <2>4, <3>1, RequestMoves DEF TokenRead
  <2>5. ASSUME Moves(c, [q EXCEPT !.at = "code"]) PROVE TokenInv'
    <3>1. RequestOK([q EXCEPT !.at = "code"])
      BY <2>0 DEF RequestOK, Asks
    <3> QED
      BY <1>5, <1>a, <2>5, <3>1, RequestMoves DEF TokenRead
  <2>6. ASSUME ~remote, Moves(c, Answered(c, {})) PROVE TokenInv'
    <3>1. RequestOK(Answered(c, {}))
      BY <1>0, <2>0, <2>2, <2>6, AnsweredOK
    <3> QED
      BY <1>5, <1>a, <2>6, <3>1, RequestMoves DEF TokenRead
  <2>7. \/ Moves(c, IF cached.fields = TokenFields \/ ~remote THEN Answered(c, cached.fields)
                    ELSE [q EXCEPT !.at = "heal", !.base = cached.fields])
        \/ Moves(c, IF remote THEN [q EXCEPT !.at = "code"] ELSE Answered(c, {}))
    BY <1>5 DEF TokenRead
  <2> QED
    BY <2>3, <2>4, <2>5, <2>6, <2>7
<1>6. ASSUME NEW c \in Clients, IsContract(c) PROVE TokenInv'
  <2> DEFINE q == client[c]
  <2>0. RequestOK(q) /\ q.at = "code" /\ q.addr \in Addresses /\ q \in Asks
    BY <1>0, <1>6 DEF IsContract, RequestOK
  <2>1. UNCHANGED <<deployed, tokenCache, typeCache>>
    BY <1>6 DEF IsContract
  <2>2. ASSUME NEW t \in {"no", "yes"}, t = "yes" => q.addr \in deployed,
               isContract' = [isContract EXCEPT ![q.addr] = t]
        PROVE  CachesTrue'
    BY <1>0, <2>0, <2>1, <2>2 DEF CachesTrue, OnChain
  <2>3. ASSUME isContract[q.addr] = "no", UNCHANGED isContract,
               Moves(c, [Answered(c, {}) EXCEPT !.missed = q.want = "detail"])
        PROVE  TokenInv'
    <3>1. RequestOK([Answered(c, {}) EXCEPT !.missed = q.want = "detail"])
      BY <2>0, ZenonT(60) DEF RequestOK, Answered, Asks, Idle
    <3> QED
      BY <1>a, <2>1, <2>3, <3>1, RequestMoves
  <2>4. ASSUME q.addr \notin deployed, isContract' = [isContract EXCEPT ![q.addr] = "no"],
               Moves(c, Answered(c, {}))
        PROVE  TokenInv'
    <3>1. RequestOK(Answered(c, {}))
      <4>1. ~q.live
        BY <2>0, <2>4 DEF RequestOK
      <4> QED
        BY <1>0, <2>0, <4>1, AnsweredOK
    <3> QED
      BY <2>1, <2>2, <2>4, <3>1, RequestMoves
  <2>5. ASSUME isContract[q.addr] = "yes" \/ q.addr \in deployed,
               isContract' = [isContract EXCEPT ![q.addr] = "yes"],
               Moves(c, [q EXCEPT !.at = "probe"])
        PROVE  TokenInv'
    <3>1. RequestOK([q EXCEPT !.at = "probe"])
      BY <2>0 DEF RequestOK, Asks
    <3>2. q.addr \in deployed
      BY <1>0, <2>0, <2>5 DEF CachesTrue
    <3> QED
      BY <2>1, <2>2, <2>5, <3>1, <3>2, RequestMoves
  <2>6. ASSUME UNCHANGED isContract, Moves(c, [q EXCEPT !.at = "probe", !.missed = TRUE])
        PROVE  TokenInv'
    <3>1. RequestOK([q EXCEPT !.at = "probe", !.missed = TRUE])
      BY <2>0 DEF RequestOK, Asks
    <3> QED
      BY <1>a, <2>1, <2>6, <3>1, RequestMoves
  <2> QED
    BY <1>6, <2>3, <2>4, <2>5, <2>6 DEF IsContract
<1>7. ASSUME NEW c \in Clients, TokenProbe(c) PROVE TokenInv'
  <2> DEFINE q == client[c]
  <2>0. RequestOK(q) /\ q.at = "probe" /\ q.addr \in Addresses /\ q \in Asks
    BY <1>0, <1>7 DEF TokenProbe, RequestOK
  <2>1. PICK got \in SUBSET OnChain(q.addr) :
          Moves(c, [q EXCEPT !.at = "write", !.got = got, !.missed = @ \/ got # OnChain(q.addr)])
    BY <1>7 DEF TokenProbe
  <2>2. got \in SUBSET TokenFields
    BY <2>0, <2>1, OnChainFields
  <2>3. RequestOK([q EXCEPT !.at = "write", !.got = got,
                            !.missed = @ \/ got # OnChain(q.addr)])
    BY <2>0, <2>1, <2>2 DEF RequestOK, Asks
  <2> QED
    BY <1>7, <1>a, <2>1, <2>3, RequestMoves DEF TokenProbe
<1>8. ASSUME NEW c \in Clients, TokenWrite(c) PROVE TokenInv'
  <2> DEFINE q == client[c]
  <2>0. RequestOK(q) /\ q.at = "write" /\ q.addr \in Addresses /\ q.got \in SUBSET TokenFields
    BY <1>0, <1>8 DEF TokenWrite, RequestOK, Asks
  <2>1. RequestOK(Answered(c, q.got))
    <3>1. q.live /\ ~q.missed => OnChain(q.addr) \subseteq q.got
      BY <2>0 DEF RequestOK
    <3> QED
      BY <1>0, <2>0, <3>1, AnsweredOK
  <2>2. CachesTrue'
    BY <1>0, <1>8, <2>0 DEF TokenWrite, CachesTrue, Entry, OnChain, RequestOK
  <2> QED
    BY <1>8, <2>1, <2>2, RequestMoves DEF TokenWrite
<1>9. ASSUME NEW c \in Clients, Heal(c) PROVE TokenInv'
  <2> DEFINE q == client[c]
             again == OnChain(q.addr) \ q.base
  <2>0. RequestOK(q) /\ q.at = "heal" /\ q.addr \in Addresses /\ q \in Asks
    BY <1>0, <1>9 DEF Heal, RequestOK
  <2>1. PICK got \in SUBSET again :
          Moves(c, [q EXCEPT !.at = "healed", !.got = got, !.missed = @ \/ got # again])
    BY <1>9 DEF Heal
  <2>2. got \in SUBSET TokenFields
    BY <2>0, <2>1, OnChainFields
  <2>3. RequestOK([q EXCEPT !.at = "healed", !.got = got, !.missed = @ \/ got # again])
    BY <2>0, <2>1, <2>2 DEF RequestOK, Asks
  <2> QED
    BY <1>9, <1>a, <2>1, <2>3, RequestMoves DEF Heal
<1>10. ASSUME NEW c \in Clients, HealWrite(c) PROVE TokenInv'
  <2> DEFINE q == client[c]
  <2>0. /\ RequestOK(q) /\ q.at = "healed" /\ q.addr \in Addresses
        /\ q.base \cup q.got \subseteq OnChain(q.addr)
    BY <1>0, <1>10 DEF HealWrite, RequestOK
  <2>1. q.base \cup q.got \in SUBSET TokenFields
    BY <2>0, OnChainFields
  <2>2. RequestOK(Answered(c, q.base \cup q.got))
    <3>1. q.live /\ ~q.missed => OnChain(q.addr) \subseteq q.base \cup q.got
      BY <2>0 DEF RequestOK
    <3> QED
      BY <1>0, <2>0, <2>1, <3>1, AnsweredOK
  <2>3. CachesTrue'
    <3>1. CASE tokenCache' = [tokenCache EXCEPT ![q.addr] = Entry(q.base \cup q.got)]
      BY <1>0, <1>10, <2>0, <2>1, <3>1 DEF HealWrite, CachesTrue, Entry, OnChain
    <3>2. CASE UNCHANGED tokenCache
      BY <1>10, <1>a, <3>2 DEF HealWrite
    <3> QED
      BY <1>10, <3>1, <3>2 DEF HealWrite
  <2> QED
    BY <1>10, <2>2, <2>3, RequestMoves DEF HealWrite
<1>11. ASSUME NEW c \in Clients, ContractType(c) PROVE TokenInv'
  <2> DEFINE q == client[c]
             next(t) == CASE q.want = "type" -> Idle
                   [] q.want = "standard" /\ t = "nft" -> [q EXCEPT !.at = "infer", !.base = {"nft"}]
                   [] q.want = "standard" /\ t # "nft" -> [q EXCEPT !.at = "token"]
  <2>0. RequestOK(q) /\ q.at = "type" /\ q.addr \in Addresses /\ q \in Asks
    BY <1>0, <1>11 DEF ContractType, RequestOK
  <2>1. \A t \in {"nft", "other"} : RequestOK(next(t))
    <3>1. RequestOK(Idle)
      BY DEF RequestOK, Asks, Idle
    <3>2. q.want = "standard" => /\ RequestOK([q EXCEPT !.at = "infer", !.base = {"nft"}])
                                /\ RequestOK([q EXCEPT !.at = "token"])
      BY <2>0 DEF RequestOK, Asks
    <3>3. q.want \in {"type", "standard"}
      BY <2>0 DEF RequestOK
    <3> QED
      BY <3>1, <3>2, <3>3
  <2>2. \E t \in {"nft", "other"} :
          /\ Moves(c, next(t))
          /\ \/ UNCHANGED typeCache
             \/ /\ t = "nft" => q.addr \in Nfts \cap deployed
                /\ typeCache' = [typeCache EXCEPT ![q.addr] = t]
    BY <1>0, <1>11, <2>0 DEF ContractType, CachesTrue
  <2> HIDE DEF next
  <2>3. CachesTrue'
    BY <1>0, <1>11, <1>a, <2>0, <2>2 DEF ContractType, CachesTrue, OnChain
  <2> QED
    BY <1>11, <2>1, <2>2, <2>3, RequestMoves DEF ContractType
<1>12. ASSUME NEW c \in Clients, StandardRead(c) PROVE TokenInv'
  <2> DEFINE q == client[c]
  <2>0. RequestOK(q) /\ q.at = "standard" /\ q.addr \in Addresses /\ q \in Asks
    BY <1>0, <1>12 DEF StandardRead, RequestOK
  <2>1. RequestOK([q EXCEPT !.at = "type"])
    BY <2>0 DEF RequestOK, Asks
  <2>3. RequestOK(Idle)
    BY DEF RequestOK, Asks, Idle
  <2>2. Moves(c, [q EXCEPT !.at = "type"]) \/ Moves(c, Idle)
    BY <1>12 DEF StandardRead
  <2> QED
    BY <1>12, <1>a, <2>1, <2>2, <2>3, RequestMoves DEF StandardRead
<1>13. ASSUME NEW c \in Clients, StandardWrite(c) PROVE TokenInv'
  <2>1. RequestOK(Idle)
    BY DEF RequestOK, Asks, Idle
  <2> QED
    BY <1>13, <1>a, <2>1, RequestMoves DEF StandardWrite
<1> QED
  BY <1>1, <1>2, <1>3, <1>4, <1>5, <1>6, <1>7, <1>8, <1>9, <1>10, <1>11, <1>12, <1>13
  DEF ChainNext

\* The caches start empty and no request is under way.
LEMMA TokenInvariance == ChainSpec => []TokenInv
<1>1. ChainInit => TokenInv
  <2> SUFFICES ASSUME ChainInit PROVE TokenInv
    OBVIOUS
  <2>1. RequestOK(Idle) /\ Idle \in Asks
    BY DEF RequestOK, Asks, Idle
  <2>2. CachesTrue
    BY DEF ChainInit, CachesTrue, NoEntry
  <2> QED
    BY <2>1, <2>2 DEF ChainInit, TokenInv
<1> QED
  BY <1>1, TokenStep, PTL DEF ChainSpec

\* An entry kept for 30 days is a fact of the chain no later read would change.
THEOREM LongEntriesAlwaysTrue == ChainSpec => []LongEntriesTrue
<1>1. TokenInv => LongEntriesTrue
  BY DEF TokenInv, CachesTrue, LongEntriesTrue
<1> QED
  BY <1>1, TokenInvariance, PTL

-----------------------------------------------------------------------------
(* ChainReads: the signature database's answers, and DetailHeals.           *)

SignatureSpec == SignatureInit /\ [][SignatureNext]_signatureVars

\* A label's lookup that began when the selector was listed is answered with it,
\* unless the database failed: a cached miss does not answer a label.
LabelInv ==
  /\ listed \in BOOLEAN
  /\ signature \in [Lookups -> {"none", "found", "missing"}]
  /\ asking \in [Clients -> [at : {"idle", "asked", "answered"}, lookup : Lookups \cup {"none"},
                             got : {"none", "found", "missing"}, live : BOOLEAN, stale : BOOLEAN]]
  /\ \A c \in Clients : LET q == asking[c] IN
       /\ q.at = "asked" => q.lookup \in Lookups
       /\ q.live => listed
       /\ q.lookup = "method" /\ q.at = "answered" /\ q.live /\ ~q.stale => q.got = "found"

\* A lookup's answer is what the database or the cache said.
LEMMA LabelStep == LabelInv /\ [SignatureNext]_signatureVars => LabelInv'
<1> SUFFICES ASSUME LabelInv, [SignatureNext]_signatureVars PROVE LabelInv'
  OBVIOUS
<1>1. CASE Listed
  BY <1>1 DEF Listed, LabelInv
<1>2. CASE SignatureExpires
  BY <1>2 DEF SignatureExpires, LabelInv
<1>3. ASSUME NEW c \in Clients, LookedUp(c) PROVE LabelInv'
  <2>1. PICK found \in IF listed THEN BOOLEAN ELSE {FALSE} :
          /\ signature' = [signature EXCEPT ![asking[c].lookup] = IF found THEN "found" ELSE "missing"]
          /\ asking' = [asking EXCEPT ![c] =
               [asking[c] EXCEPT !.at = "answered", !.got = IF found THEN "found" ELSE "missing",
                                 !.stale = found # listed]]
    BY <1>3 DEF LookedUp
  <2>2. found \in BOOLEAN /\ (found => listed) /\ asking[c].at = "asked" /\ UNCHANGED listed
    BY <1>3, <2>1 DEF LookedUp, LabelInv
  <2>3. PICK stale \in BOOLEAN : stale = (found # listed) /\ (listed /\ ~stale => found)
    BY <2>2 DEF LabelInv
  <2>4. PICK outcome \in {"found", "missing"} :
          outcome = (IF found THEN "found" ELSE "missing") /\ (found => outcome = "found")
    OBVIOUS
  <2>5. /\ signature' = [signature EXCEPT ![asking[c].lookup] = outcome]
        /\ asking' = [asking EXCEPT ![c] =
             [asking[c] EXCEPT !.at = "answered", !.got = outcome, !.stale = stale]]
    BY <2>1, <2>3, <2>4
  <2>6. asking[c].live => listed
    BY DEF LabelInv
  <2> QED
    BY <2>2, <2>3, <2>4, <2>5, <2>6, SMTT(40), ZenonT(60) DEF LabelInv
<1>4. ASSUME NEW c \in Clients, NEW l \in Lookups, LookUp(c, l) PROVE LabelInv'
  <2>1. CASE signature[l] = "found" \/ (signature[l] = "missing" /\ l # "method")
    BY <1>4, <2>1 DEF LookUp, LabelInv
  <2>2. CASE ~(signature[l] = "found" \/ (signature[l] = "missing" /\ l # "method"))
    BY <1>4, <2>2 DEF LookUp, LabelInv
  <2> QED
    BY <2>1, <2>2
<1>5. CASE UNCHANGED signatureVars
  BY <1>5 DEF signatureVars, LabelInv
<1> QED
  BY <1>1, <1>2, <1>3, <1>4, <1>5 DEF SignatureNext

\* A detail request answers all the contract does, whatever partial entry earlier
\* requests left in the cache, unless one of its own reads failed or a cached "not a
\* contract" of before the deployment answered it; and a method's label likewise.
THEOREM DetailAlwaysHeals == ChainSpec /\ SignatureSpec => []DetailHeals
<1>1. SignatureInit => LabelInv
  BY DEF SignatureInit, LabelInv, NotAsking, Lookups
<1>2. SignatureSpec => []LabelInv
  BY <1>1, LabelStep, PTL DEF SignatureSpec
<1>3. TokenInv /\ LabelInv => DetailHeals
  <2> SUFFICES ASSUME TokenInv, LabelInv, NEW c \in Clients
               PROVE  /\ At(c, "answered") /\ client[c].live /\ ~client[c].missed =>
                           Answers[client[c].addr] \subseteq client[c].got
                      /\ asking[c].lookup = "method" /\ asking[c].at = "answered"
                           /\ asking[c].live /\ ~asking[c].stale => asking[c].got = "found"
    BY DEF DetailHeals
  <2>1. RequestOK(client[c]) /\ deployed \subseteq Addresses
    BY DEF TokenInv, CachesTrue
  <2>2. At(c, "answered") /\ client[c].live /\ ~client[c].missed =>
          Answers[client[c].addr] \subseteq client[c].got
    BY <2>1 DEF RequestOK, At, OnChain
  <2> QED
    BY <2>2 DEF LabelInv
<1> QED
  BY <1>2, <1>3, TokenInvariance, PTL

-----------------------------------------------------------------------------
(* ContractTab: who can still answer the panel. *)

Panels == [sub : {"none", "code", "read", "write"}, loading : BOOLEAN, shown : {"none", "yes", "no"}]
Wallets == [at : {"none", "off", "asking", "switching", "on"}, onChain : BOOLEAN,
            card : {"idle", "sending", "error", "sent"}]

\* A panel whose sub-tab and verification are replaced.
LEMMA PanelWith ==
  ASSUME NEW p \in Panels, NEW sub \in {"code", "read", "write"}, NEW shown \in {"none", "yes", "no"},
         NEW q, q = [p EXCEPT !.sub = sub, !.shown = shown]
  PROVE  q \in Panels /\ q.sub = sub /\ q.shown = shown /\ q.loading = p.loading
BY DEF Panels

\* The wallet's states of a section that is not there, and of one before it connects.
LEMMA NoWalletYet ==
  /\ NoWallet \in Wallets /\ NoWallet.at = "none"
  /\ [NoWallet EXCEPT !.at = "off"] \in Wallets /\ [NoWallet EXCEPT !.at = "off"].at = "off"
BY DEF NoWallet, Wallets

\* While the panel waits for its own request, no submission of it is under way; an
\* answer is on its way only to a panel that waits; a wallet is connected under a
\* verified contract.
TabInv ==
  /\ panel \in Panels
  /\ submission \in [Submissions -> {"none", "sent", "matched", "failed", "left"}]
  /\ wallet \in Wallets
  /\ panel = NoPanel \/ panel.loading =>
       /\ panel.shown = "none"
       /\ \A s \in Submissions : submission[s] \in {"none", "left"}
  /\ status # "none" => panel.loading
  /\ wallet.at \notin {"none", "off"} => Verified

\* A verified contract stays so, or the page is left.
Keeps == /\ Verified /\ panel' # NoPanel => panel'.shown = "yes"
         /\ wallet'.at \notin {"none", "off"} => panel'.shown = "yes"

\* No answer that could take a verification back is left once the panel shows it.
LEMMA TabStep == TabInv /\ [TabNext]_tabVars => TabInv' /\ Keeps
<1> SUFFICES ASSUME TabInv, [TabNext]_tabVars PROVE TabInv' /\ Keeps
  OBVIOUS
<1> USE DEF TabInv, Keeps, Verified, NoPanel
<1>1. ASSUME UNCHANGED <<panel, status, submission, wallet>> PROVE TabInv' /\ Keeps
  BY <1>1
<1>2. CASE \/ getReadContract \/ ReadsArrive \/ Query \/ callReadContract \/ AnswersExpire
           \/ UNCHANGED tabVars
  BY <1>1, <1>2
  DEF getReadContract, ReadsArrive, Query, callReadContract, AnswersExpire, tabVars
<1>3. ASSUME UNCHANGED <<panel, status, submission>>, Verified,
             wallet' \in Wallets
      PROVE  TabInv' /\ Keeps
  BY <1>3
<1>4. CASE Connect
  BY <1>3, <1>4 DEF Wallets, Connect, WalletMoves
<1>5. CASE AccountsAnswered \/ ChainSwitched
  BY <1>3, <1>5 DEF Wallets, AccountsAnswered, ChainSwitched, WalletMoves
<1>6. CASE Write \/ Written
  BY <1>3, <1>6 DEF Wallets, Write, Written, WalletMoves
<1>7. CASE OpenTab
  BY <1>7 DEF Panels, OpenTab
<1>8. CASE LeaveTab
  BY <1>8, NoWalletYet DEF Panels, LeaveTab
<1>9. ASSUME NEW sub \in {"code", "read", "write"}, PickTab(sub) PROVE TabInv' /\ Keeps
  <2>1. /\ panel' = [panel EXCEPT !.sub = sub, !.shown = panel.shown] /\ panel # NoPanel
        /\ wallet' = NoWallet \/ wallet' = [NoWallet EXCEPT !.at = "off"]
        /\ UNCHANGED <<status, submission>>
    BY <1>9 DEF PickTab, Shows
  <2>2. /\ panel'.sub = sub /\ panel'.loading = panel.loading /\ panel'.shown = panel.shown
        /\ panel' \in Panels
    <3>1. panel \in Panels /\ panel.shown \in {"none", "yes", "no"}
      BY DEF Panels
    <3> QED
      BY <2>1, <3>1, PanelWith, SMTT(40), ZenonT(60) DEF Panels
  <2>3. /\ wallet'.at \in {"none", "off"}
        /\ wallet' \in Wallets
    BY <2>1, NoWalletYet, Zenon
  <2>4. panel' # NoPanel
    BY <2>2
  <2> QED
    BY <2>1, <2>2, <2>3, <2>4
<1>10. CASE AnswerStatus
  BY <1>10 DEF AnswerStatus
<1>11. CASE StatusArrives
  BY <1>11 DEF Panels, StatusArrives
<1>12. ASSUME NEW s \in Submissions, Submit(s) PROVE TabInv' /\ Keeps
  BY <1>12 DEF Submit, FormOffered
<1>13. ASSUME NEW s \in Submissions, postVerify(s) PROVE TabInv' /\ Keeps
  <2>1. PICK new \in {"none", "matched", "failed"} :
          /\ submission' = [submission EXCEPT ![s] = new]
          /\ submission[s] = "left" => new = "none"
    BY <1>13 DEF postVerify
  <2> QED
    BY <1>13, <2>1 DEF postVerify
<1>14. ASSUME NEW s \in Submissions, Submitted(s) PROVE TabInv' /\ Keeps
  <2>1. CASE submission[s] = "matched"
    <3>1. /\ panel' = [panel EXCEPT !.sub = "read", !.shown = "yes"]
          /\ \/ wallet' = wallet
             \/ wallet' = NoWallet
          /\ UNCHANGED status /\ submission' = [submission EXCEPT ![s] = "none"]
      BY <1>14, <2>1 DEF Submitted, Shows
    <3>2. ~panel.loading /\ status = "none"
      BY <2>1
    <3>3. /\ panel'.sub = "read" /\ panel'.loading = panel.loading /\ panel'.shown = "yes"
          /\ panel' \in Panels
      BY <3>1, PanelWith DEF Panels
    <3>4. wallet' \in Wallets
      <4>1. wallet \in Wallets
        OBVIOUS
      <4> QED
        BY <3>1, <4>1, NoWalletYet, Zenon
    <3> QED
      BY <3>1, <3>2, <3>3, <3>4
  <2>2. CASE submission[s] # "matched"
    BY <1>14, <2>2 DEF Submitted
  <2> QED
    BY <2>1, <2>2
<1> QED
  BY <1>2, <1>4, <1>5, <1>6, <1>7, <1>8, <1>9, <1>10, <1>11, <1>12, <1>13, <1>14 DEF TabNext

\* Once the panel shows a contract as verified, no answer under way takes it back
\* while the tab is open, and a wallet is used under a verified contract only.
THEOREM VerifiedAlwaysStays == TabSpec => VerifiedStays
<1>1. TabInit => TabInv
  BY DEF TabInit, TabInv, NoPanel, NoWallet, Verified, Panels, Wallets
<1>2. TabInv /\ [TabNext]_tabVars =>
        [/\ Verified /\ panel' # NoPanel => panel'.shown = "yes"
         /\ wallet'.at \notin {"none", "off"} => panel'.shown = "yes"]_tabVars
  BY TabStep DEF Keeps
<1>3. TabInv /\ [TabNext]_tabVars => TabInv'
  BY TabStep
<1> QED
  BY <1>1, <1>2, <1>3, PTL DEF TabSpec, VerifiedStays

-----------------------------------------------------------------------------
(* StateDiff: an account is decoded from the node's two sparse reports. *)

\* What the node reports of an account that was b and is n: before and after.
WasSlots(b, n) == {t \in Slots : b.storage[t] \notin {0, n.storage[t]}}
PreOf(b, n) == IF b = Empty THEN Nothing
               ELSE [b EXCEPT !.storage = [s \in WasSlots(b, n) |-> b.storage[s]]]
PostOf(b, n) ==
  [f \in {"storage"} \cup {g \in {"balance", "nonce"} : n[g] # b[g]} |->
     IF f # "storage" THEN n[f] ELSE [s \in WasSlots(n, b) |-> n.storage[s]]]

\* The report of the earlier state has each value, or leaves it out when it is zero.
LEMMA PreReport ==
  ASSUME NEW b \in AccountStates, NEW n \in AccountStates
  PROVE  /\ OrElse(PreOf(b, n), "balance", 0) = b.balance
         /\ OrElse(PreOf(b, n), "nonce", 0) = b.nonce
         /\ \A s \in Slots : b.storage[s] # n.storage[s] =>
              OrElse(OrElse(PreOf(b, n), "storage", Nothing), s, 0) = b.storage[s]
         /\ DOMAIN OrElse(PreOf(b, n), "storage", Nothing) \subseteq WasSlots(b, n)
<1> DEFINE was == [s \in WasSlots(b, n) |-> b.storage[s]]
<1>1. /\ b.balance \in Values /\ b.nonce \in Values /\ b.storage \in [Slots -> Values]
      /\ DOMAIN b = {"balance", "nonce", "storage"}
  BY DEF AccountStates
<1>2. DOMAIN Nothing = {}
  BY DEF Nothing
<1>3. CASE b = Empty
  <2>1. PreOf(b, n) = Nothing /\ b.balance = 0 /\ b.nonce = 0 /\ \A s \in Slots : b.storage[s] = 0
    BY <1>3 DEF PreOf, Empty
  <2>2. \A x, d : OrElse(Nothing, x, d) = d
    BY <1>2 DEF OrElse
  <2> QED
    BY <1>2, <2>1, <2>2
<1>4. CASE b # Empty
  <2>1. PICK p : p = [b EXCEPT !.storage = was]
    OBVIOUS
  <2>2. p.balance = b.balance /\ p.nonce = b.nonce /\ p.storage = was
    BY <1>1, <2>1
  <2>3. DOMAIN p = {"balance", "nonce", "storage"}
    BY <1>1, <2>1
  <2>4. PreOf(b, n) = p
    BY <1>4, <2>1 DEF PreOf
  <2>5. /\ OrElse(p, "balance", 0) = b.balance /\ OrElse(p, "nonce", 0) = b.nonce
        /\ OrElse(p, "storage", Nothing) = was
    BY <2>2, <2>3 DEF OrElse
  <2>6. ASSUME NEW s \in Slots, b.storage[s] # n.storage[s]
        PROVE  OrElse(was, s, 0) = b.storage[s]
    BY <2>6 DEF OrElse, WasSlots
  <2> QED
    BY <2>4, <2>5, <2>6
<1> QED
  BY <1>3, <1>4

\* The report of the later state has each field that changed, and each slot that did
\* unless it is zero.
LEMMA PostReport ==
  ASSUME NEW b \in AccountStates, NEW n \in AccountStates
  PROVE  /\ OrElse(PostOf(b, n), "balance", b.balance) = n.balance
         /\ OrElse(PostOf(b, n), "nonce", b.nonce) = n.nonce
         /\ \A s \in Slots : b.storage[s] # n.storage[s] =>
              OrElse(OrElse(PostOf(b, n), "storage", Nothing), s, 0) = n.storage[s]
         /\ DOMAIN OrElse(PostOf(b, n), "storage", Nothing) = WasSlots(n, b)
<1> DEFINE is == [s \in WasSlots(n, b) |-> n.storage[s]]
           D == {"storage"} \cup {g \in {"balance", "nonce"} : n[g] # b[g]}
<1>1. PICK p : p = PostOf(b, n)
  OBVIOUS
<1>2. DOMAIN p = D /\ \A f \in D : p[f] = IF f # "storage" THEN n[f] ELSE is
  BY <1>1 DEF PostOf
<1>3. OrElse(p, "storage", Nothing) = is
  BY <1>2 DEF OrElse
<1>4. OrElse(p, "balance", b.balance) = n.balance
  BY <1>2 DEF OrElse
<1>5. OrElse(p, "nonce", b.nonce) = n.nonce
  BY <1>2 DEF OrElse
<1>6. ASSUME NEW s \in Slots, b.storage[s] # n.storage[s] PROVE OrElse(is, s, 0) = n.storage[s]
  BY <1>6 DEF OrElse, WasSlots
<1> QED
  BY <1>1, <1>3, <1>4, <1>5, <1>6

Alters(c) == \/ c.balanceBefore # c.balanceAfter \/ c.nonceBefore # c.nonceAfter
             \/ DOMAIN c.storageAfter # {}

\* An account decoded from both reports has its values on both sides, and is told
\* from one that did not change.
LEMMA DecodedAccount ==
  ASSUME NEW b \in AccountStates, NEW n \in AccountStates, NEW c,
         c = DecodeAccount(PreOf(b, n), PostOf(b, n))
  PROVE  /\ c.balanceBefore = b.balance /\ c.balanceAfter = n.balance
         /\ c.nonceBefore = b.nonce /\ c.nonceAfter = n.nonce
         /\ \A s \in Slots : /\ OrElse(c.storageBefore, s, b.storage[s]) = b.storage[s]
                             /\ OrElse(c.storageAfter, s, b.storage[s]) = n.storage[s]
         /\ b # n => Alters(c)
<1> DEFINE was == OrElse(PreOf(b, n), "storage", Nothing)
           is == OrElse(PostOf(b, n), "storage", Nothing)
           slots == {s \in DOMAIN was \cup DOMAIN is : OrElse(was, s, 0) # OrElse(is, s, 0)}
<1>1. /\ c.balanceBefore = b.balance /\ c.balanceAfter = n.balance
      /\ c.nonceBefore = b.nonce /\ c.nonceAfter = n.nonce
  BY PreReport, PostReport DEF DecodeAccount
<1>2. /\ c.storageBefore = [s \in slots |-> OrElse(was, s, 0)]
      /\ c.storageAfter = [s \in slots |-> OrElse(is, s, 0)]
  BY DEF DecodeAccount
<1>3. \A s \in Slots : s \in slots <=> b.storage[s] # n.storage[s]
  <2>1. ASSUME NEW s \in Slots, b.storage[s] # n.storage[s] PROVE s \in slots
    <3>1. OrElse(was, s, 0) = b.storage[s] /\ OrElse(is, s, 0) = n.storage[s]
      BY <2>1, PreReport, PostReport
    <3>2. s \in DOMAIN was \cup DOMAIN is
      BY <2>1, <3>1 DEF OrElse
    <3> QED
      BY <2>1, <3>1, <3>2
  <2>2. ASSUME NEW s \in slots PROVE b.storage[s] # n.storage[s]
    <3>1. s \in WasSlots(b, n) \cup WasSlots(n, b)
      BY PreReport, PostReport
    <3> QED
      BY <3>1 DEF WasSlots
  <2> QED
    BY <2>1, <2>2
<1>4. ASSUME NEW s \in Slots
      PROVE  /\ OrElse(c.storageBefore, s, b.storage[s]) = b.storage[s]
             /\ OrElse(c.storageAfter, s, b.storage[s]) = n.storage[s]
  <2>1. CASE b.storage[s] = n.storage[s]
    <3>1. s \notin slots
      BY <1>3, <2>1
    <3> HIDE DEF slots, was, is
    <3> QED
      BY <1>2, <2>1, <3>1 DEF OrElse
  <2>2. CASE b.storage[s] # n.storage[s]
    <3>1. OrElse(was, s, 0) = b.storage[s] /\ OrElse(is, s, 0) = n.storage[s]
      BY <2>2, PreReport, PostReport
    <3>2. s \in slots
      BY <1>3, <2>2
    <3> HIDE DEF slots, was, is
    <3>3. s \in DOMAIN c.storageBefore /\ s \in DOMAIN c.storageAfter
      BY <1>2, <3>2
    <3>4. c.storageBefore[s] = OrElse(was, s, 0) /\ c.storageAfter[s] = OrElse(is, s, 0)
      BY <1>2, <3>2
    <3> QED
      BY <3>1, <3>3, <3>4 DEF OrElse
  <2> QED
    BY <2>1, <2>2
<1>5. ASSUME b # n PROVE Alters(c)
  <2>1. CASE b.balance # n.balance \/ b.nonce # n.nonce
    BY <1>1, <2>1 DEF Alters
  <2>2. CASE b.storage # n.storage
    <3>1. PICK s \in Slots : b.storage[s] # n.storage[s]
      <4>1. b.storage \in [Slots -> Values] /\ n.storage \in [Slots -> Values]
        BY DEF AccountStates
      <4> QED
        BY <2>2, <4>1
    <3>2. s \in slots
      BY <1>3, <3>1
    <3> HIDE DEF slots, is
    <3> QED
      BY <1>2, <3>2 DEF Alters
  <2>3. b.balance # n.balance \/ b.nonce # n.nonce \/ b.storage # n.storage
    BY <1>5 DEF AccountStates
  <2> QED
    BY <2>1, <2>2, <2>3
<1> QED
  BY <1>1, <1>4, <1>5

\* A decoded answer is of the two states the transaction lies between.
DiffInv ==
  /\ before \in [Accounts -> AccountStates]
  /\ after \in [Accounts -> AccountStates]
  /\ answer = "decoded" /\ traced => diff = decodeStateDiff(Report)

\* The node's reports, account by account.
LEMMA Reports ==
  ASSUME DiffInv, NEW a \in Accounts
  PROVE  /\ a \in Changed => /\ OrElse(TracerPre, a, Nothing) = PreOf(before[a], after[a])
                             /\ OrElse(TracerPost, a, Nothing) = PostOf(before[a], after[a])
         /\ a \in DOMAIN TracerPre \cup DOMAIN TracerPost <=> a \in Changed
<1>1. DOMAIN TracerPre = {b \in Changed : before[b] # Empty} /\ DOMAIN TracerPost = Changed
  BY DEF TracerPre, TracerPost
<1>2. ASSUME a \in Changed PROVE OrElse(TracerPost, a, Nothing) = PostOf(before[a], after[a])
  <2>1. TracerPost[a] = PostOf(before[a], after[a])
    BY <1>2 DEF TracerPost, PostOf, WasSlots
  <2> QED
    BY <1>1, <1>2, <2>1 DEF OrElse
<1>3. ASSUME a \in Changed PROVE OrElse(TracerPre, a, Nothing) = PreOf(before[a], after[a])
  <2>1. CASE before[a] = Empty
    BY <1>1, <2>1 DEF OrElse, PreOf
  <2>2. CASE before[a] # Empty
    <3>1. TracerPre[a] = PreOf(before[a], after[a])
      BY <1>3, <2>2 DEF TracerPre, PreOf, WasSlots
    <3> QED
      BY <1>1, <1>3, <2>2, <3>1 DEF OrElse
  <2> QED
    BY <2>1, <2>2
<1> QED
  BY <1>1, <1>2, <1>3

\* The answer tells of the accounts that changed, each as it is decoded.
LEMMA AnswerOf ==
  ASSUME DiffInv, answer = "decoded", traced, NEW a \in Accounts
  PROVE  /\ a \in DOMAIN diff <=> a \in Changed
         /\ a \in Changed =>
              diff[a] = DecodeAccount(PreOf(before[a], after[a]), PostOf(before[a], after[a]))
<1> DEFINE of(b) == DecodeAccount(OrElse(TracerPre, b, Nothing), OrElse(TracerPost, b, Nothing))
           D == DOMAIN TracerPre \cup DOMAIN TracerPost
<1>1. /\ DOMAIN diff = {b \in D : Alters(of(b))}
      /\ \A b \in DOMAIN diff : diff[b] = of(b)
  <2>1. Report.pre = TracerPre /\ Report.post = TracerPost /\ ~Report.null
    BY DEF Report
  <2> QED
    BY <2>1 DEF DiffInv, decodeStateDiff, Alters
<1>2. a \in D <=> a \in Changed
  BY Reports
<1>3. ASSUME a \in Changed
      PROVE  /\ of(a) = DecodeAccount(PreOf(before[a], after[a]), PostOf(before[a], after[a]))
             /\ Alters(of(a))
  <2>1. of(a) = DecodeAccount(PreOf(before[a], after[a]), PostOf(before[a], after[a]))
    BY <1>3, Reports
  <2>2. before[a] \in AccountStates /\ after[a] \in AccountStates /\ before[a] # after[a]
    BY <1>3 DEF DiffInv, Changed
  <2> HIDE DEF of
  <2> QED
    BY <2>1, <2>2, DecodedAccount
<1> HIDE DEF of, D
<1> QED
  BY <1>1, <1>2, <1>3

\* The changes shown lead from the accounts as they were to the accounts as they are.
THEOREM DiffAlwaysAppliesBack == DiffSpec => []DiffAppliesBack
<1>1. DiffInit => DiffInv
  BY DEF DiffInit, DiffInv
<1>2. DiffInv /\ [DiffNext]_diffVars => DiffInv'
  <2> SUFFICES ASSUME DiffInv, [DiffNext]_diffVars PROVE DiffInv'
    OBVIOUS
  <2>1. UNCHANGED <<before, after>>
    BY DEF DiffNext, getTransactionStateDiff, diffVars
  <2>2. decodeStateDiff(Report)' = decodeStateDiff(Report)
    <3>1. Report' = Report
      BY <2>1 DEF Report, TracerPre, TracerPost, Changed
    <3> QED
      BY <3>1 DEF decodeStateDiff
  <2>3. answer' = "decoded" /\ traced' => diff' = decodeStateDiff(Report)
    <3> SUFFICES ASSUME answer' = "decoded", traced'
                 PROVE  diff' = decodeStateDiff(Report)
      OBVIOUS
    <3>1. NullTrace.null
      BY DEF NullTrace
    <3>2. CASE DiffNext
      <4>1. PICK trace \in {Report, NullTrace} :
              traced' = ~trace.null /\ diff' = decodeStateDiff(trace)
        BY <3>2 DEF DiffNext, getTransactionStateDiff
      <4>2. trace = Report
        BY <3>1, <4>1
      <4> QED
        BY <4>1, <4>2
    <3>3. CASE UNCHANGED diffVars
      BY <3>3 DEF diffVars, DiffInv
    <3> QED
      BY <3>2, <3>3
  <2> QED
    BY <2>1, <2>2, <2>3 DEF DiffInv
<1>3. DiffInv => DiffAppliesBack
  <2> SUFFICES ASSUME DiffInv, answer = "decoded", traced, NEW a \in Accounts
               PROVE  /\ Shown(a, "balanceBefore", "nonceBefore", "storageBefore") = before[a]
                      /\ Shown(a, "balanceAfter", "nonceAfter", "storageAfter") = after[a]
    BY DEF DiffAppliesBack
  <2>1. before[a] \in AccountStates /\ after[a] \in AccountStates
    BY DEF DiffInv
  <2>2. CASE a \notin Changed
    <3>1. a \notin DOMAIN diff /\ before[a] = after[a]
      BY <2>2, AnswerOf DEF Changed
    <3> QED
      BY <3>1 DEF Shown
  <2>3. CASE a \in Changed
    <3>1. a \in DOMAIN diff
          /\ diff[a] = DecodeAccount(PreOf(before[a], after[a]), PostOf(before[a], after[a]))
      BY <2>3, AnswerOf
    <3>2. PICK c : c = diff[a]
      OBVIOUS
    <3>3. /\ c.balanceBefore = before[a].balance /\ c.balanceAfter = after[a].balance
          /\ c.nonceBefore = before[a].nonce /\ c.nonceAfter = after[a].nonce
          /\ \A s \in Slots :
               /\ OrElse(c.storageBefore, s, before[a].storage[s]) = before[a].storage[s]
               /\ OrElse(c.storageAfter, s, before[a].storage[s]) = after[a].storage[s]
      BY <2>1, <3>1, <3>2, DecodedAccount
    <3> DEFINE from(s) == OrElse(c.storageBefore, s, before[a].storage[s])
               to(s) == OrElse(c.storageAfter, s, before[a].storage[s])
    <3>4. /\ Shown(a, "balanceBefore", "nonceBefore", "storageBefore")
               = [balance |-> c.balanceBefore, nonce |-> c.nonceBefore,
                  storage |-> [s \in Slots |-> from(s)]]
          /\ Shown(a, "balanceAfter", "nonceAfter", "storageAfter")
               = [balance |-> c.balanceAfter, nonce |-> c.nonceAfter,
                  storage |-> [s \in Slots |-> to(s)]]
      BY <3>1, <3>2 DEF Shown
    <3>5. \A s \in Slots : from(s) = before[a].storage[s] /\ to(s) = after[a].storage[s]
      BY <3>3
    <3> HIDE DEF from, to
    <3>6. /\ [s \in Slots |-> from(s)] = before[a].storage
          /\ [s \in Slots |-> to(s)] = after[a].storage
      BY <2>1, <3>5 DEF AccountStates
    <3> QED
      BY <2>1, <3>3, <3>4, <3>6 DEF AccountStates
  <2> QED
    BY <2>2, <2>3
<1> QED
  BY <1>1, <1>2, <1>3, PTL DEF DiffSpec

-----------------------------------------------------------------------------
(* PagedReads: a walk by "Next". *)

\* Every row of r is in s, at the same place or further down.
Below(r, s) == \A k \in 1 .. Len(r) : \E l \in 1 .. Len(s) : k <= l /\ s[l] = r[k]

Distinct(s) == \A k, l \in 1 .. Len(s) : s[k] = s[l] => k = l

\* The versions after v up to w left the earlier rows in place or further down.
SettledFrom(v, w) == \A u \in (v + 1) .. w : versions[u].settled

VersionsInv ==
  /\ versions \in Seq([rows : Seq(Int), settled : BOOLEAN]) /\ Len(versions) >= 1
  /\ \A v \in 1 .. Len(versions) :
       /\ Distinct(versions[v].rows)
       /\ \A k \in 1 .. Len(versions[v].rows) : versions[v].rows[k] > -v
  /\ \A v, w \in 1 .. Len(versions) :
       v <= w /\ SettledFrom(v, w) => Below(versions[v].rows, versions[w].rows)

AnswersInv ==
  /\ fetching \in [page : Pages \cup {0}, rows : 0 .. Len(versions), count : Nat \cup {-1}]
  /\ pageCache \in [Pages -> {NoAnswer, ErrorBody}
                               \cup [rows : 1 .. Len(versions), total : Nat]]

\* A row of the first page's version is seen, or still ahead in the last page's.
Ahead(v, w, p, seen) ==
  \A k \in 1 .. Len(versions[v].rows) :
    \/ versions[v].rows[k] \in seen
    \/ \E l \in 1 .. Len(versions[w].rows) :
         l > p * list.asks /\ versions[w].rows[l] = versions[v].rows[k]

WalkInv ==
  /\ visit \in [page : Nat, first : 0 .. Len(versions), last : 0 .. Len(versions),
                ordered : BOOLEAN, seen : SUBSET Int, total : Nat]
  /\ visit.first > 0 => visit.last > 0
  /\ visit.ordered => visit.first <= visit.last
  /\ visit.page > 0 /\ visit.first > 0 /\ visit.total > 0 /\ visit.ordered
       /\ SettledFrom(visit.first, visit.last)
     => Ahead(visit.first, visit.last, visit.page, visit.seen)

PagesInv == list \in Lists /\ VersionsInv /\ AnswersInv /\ WalkInv

\* Every list asks for 25 or 100 rows, and its handler lets it.
LEMMA ListFacts ==
  ASSUME NEW l \in Lists
  PROVE  /\ l.asks \in {25, 100} /\ parsePagination(l.handler, l.asks) = l.asks
         /\ l.divides \in {"answered", "asked"}
<1>1. /\ listLatestBlocks.maxLimit = 100 /\ listL1ToL2Transactions.maxLimit = 50
      /\ listLatestTransactions.maxLimit = 50 /\ listAddressTokenHoldings.maxLimit = 100
      /\ listTransactionsByAddress.maxLimit = 100 /\ listTokenTransfersByAddress.maxLimit = 100
      /\ listNftTransfersByAddress.maxLimit = 100 /\ listOtherTransactionsByAddress.maxLimit = 100
      /\ listAddressInternalTransactions.maxLimit = 100 /\ listAddressEvents.maxLimit = 100
      /\ listTokens.maxLimit = 100 /\ listTokenTransfers.maxLimit = 100
      /\ listTokenHolders.maxLimit = 100
  BY DEF listLatestBlocks, listLatestTransactions, listL1ToL2Transactions,
       listTransactionsByAddress, listTokenTransfersByAddress, listNftTransfersByAddress,
       listAddressInternalTransactions, listOtherTransactionsByAddress, listAddressEvents,
       listAddressTokenHoldings, listTokens, listTokenTransfers, listTokenHolders
<1>2. \E h : /\ h.maxLimit \in {50, 100}
             /\ \/ l = Page(h)
                \/ l = Section(h)
                \/ l = [Page(h) EXCEPT !.divides = "asked"]
                \/ l = [Page(h) EXCEPT !.asks = 100] /\ h.maxLimit = 100
  BY <1>1 DEF Lists, AllBlocksPage, AllTransactionsPage, AllL1ToL2Page, TokensPage,
       AddressPage, TokenTransfersTab, TokenHoldersTab, AddressTokenTransfersSection,
       AddressNftTransfersSection, AddressInternalTxSection, AddressOtherTxSection,
       AddressEventsSection, AddressTokenHoldingsSection
<1>3. /\ l.asks \in {25, 100} /\ l.divides \in {"answered", "asked"}
      /\ l.asks <= l.handler.maxLimit /\ l.handler.maxLimit \in {50, 100}
  BY <1>2 DEF Page, Section
<1> QED
  BY <1>3 DEF parsePagination, Least

\* The pages there are for a total reach it, and an empty total has the one page.
LEMMA LastPage ==
  ASSUME NEW l \in Lists, NEW p \in Nat, NEW total \in Nat
  PROVE  /\ p >= totalPages(l, total) => total <= p * l.asks
         /\ p > 0 /\ p < totalPages(l, total) => total > 0
         /\ totalPages(l, total) \in Int
         /\ (p + 1) * l.asks = p * l.asks + l.asks /\ p * l.asks \in Nat
<1>1. totalPages(l, total) = IF (total + l.asks - 1) \div l.asks = 0 THEN 1
                             ELSE (total + l.asks - 1) \div l.asks
  BY ListFacts DEF totalPages
<1>2. CASE l.asks = 25
  BY <1>1, <1>2
<1>3. CASE l.asks = 100
  BY <1>1, <1>3
<1> QED
  BY <1>2, <1>3, ListFacts

\* The rows before a place.
LEMMA PrefixRows ==
  ASSUME NEW s \in Seq(Int), NEW n \in 0 .. Len(s)
  PROVE  /\ SubSeq(s, 1, n) \in Seq(Int) /\ Len(SubSeq(s, 1, n)) = n
         /\ \A k \in 1 .. n : SubSeq(s, 1, n)[k] = s[k]
OBVIOUS

\* A row put in at i: the rows before it stay, the others go one down.
LEMMA InsertFacts ==
  ASSUME NEW s \in Seq(Int), NEW i \in 1 .. Len(s) + 1, NEW e \in Int
  PROVE  \A t : t = InsertAt(s, i, e) =>
           /\ t \in Seq(Int) /\ Len(t) = Len(s) + 1 /\ t[i] = e
           /\ \A k \in 1 .. (i - 1) : t[k] = s[k]
           /\ \A k \in i .. Len(s) : t[k + 1] = s[k]
<1> DEFINE a == SubSeq(s, 1, i - 1)
           b == SubSeq(s, i, Len(s))
           t == a \o <<e>> \o b
<1>1. a \in Seq(Int) /\ Len(a) = i - 1 /\ \A k \in 1 .. (i - 1) : a[k] = s[k]
  OBVIOUS
<1>2. b \in Seq(Int) /\ Len(b) = Len(s) - i + 1
  OBVIOUS
<1>3. \A k \in i .. Len(s) : b[k - i + 1] = s[k]
  OBVIOUS
<1> DEFINE d == Append(a, e)
<1>3a. /\ d \in Seq(Int) /\ Len(d) = i /\ d[i] = e /\ \A k \in 1 .. (i - 1) : d[k] = s[k]
  <2> HIDE DEF a
  <2> QED BY <1>1, SMTT(40)
<1>3b. t = d \o b
  <2>1. a \o <<e>> = d
    <3> HIDE DEF a
    <3> QED BY <1>1
  <2> HIDE DEF a, b, d
  <2> QED BY <2>1
<1> HIDE DEF d, b, t
<1>4. t \in Seq(Int) /\ Len(t) = Len(s) + 1
  <2>1. d \o b \in Seq(Int) /\ Len(d \o b) = Len(d) + Len(b)
    BY <1>2, <1>3a, ConcatProperties
  <2> QED
    BY <1>2, <1>3a, <1>3b, <2>1
<1>4a. /\ \A k \in 1 .. i : t[k] = d[k]
       /\ \A k \in 1 .. Len(b) : t[i + k] = b[k]
  <2>1. \A k \in 1 .. (Len(d) + Len(b)) :
          (d \o b)[k] = IF k <= Len(d) THEN d[k] ELSE b[k - Len(d)]
    BY <1>2, <1>3a, ConcatProperties
  <2>2. \A k \in 1 .. (i + Len(b)) : t[k] = IF k <= i THEN d[k] ELSE b[k - i]
    BY <1>3a, <1>3b, <2>1
  <2>3. i \in Nat \ {0} /\ Len(b) \in Nat
    BY <1>2
  <2>4. \A k \in 1 .. i : t[k] = d[k]
    BY <2>2, <2>3
  <2>5. ASSUME NEW k \in 1 .. Len(b) PROVE t[i + k] = b[k]
    <3>1. i + k \in 1 .. (i + Len(b)) /\ ~ (i + k <= i) /\ (i + k) - i = k
      BY <2>3
    <3>2. t[i + k] = b[(i + k) - i]
      BY <2>2, <3>1
    <3> QED
      BY <3>1, <3>2
  <2> QED
    BY <2>4, <2>5
<1>5. t[i] = e
  BY <1>3a, <1>4a
<1>6. \A k \in 1 .. (i - 1) : t[k] = s[k]
  BY <1>3a, <1>4a
<1>7. ASSUME NEW k \in i .. Len(s) PROVE t[k + 1] = s[k]
  <2>1. k - i + 1 \in 1 .. Len(b) /\ i + (k - i + 1) = k + 1
    BY <1>2
  <2>2. t[i + (k - i + 1)] = b[k - i + 1]
    BY <1>4a, <2>1
  <2> QED
    BY <1>3, <2>1, <2>2
<1>8. InsertAt(s, i, e) = t
  BY DEF InsertAt, b, t
<1> QED
  BY <1>4, <1>5, <1>6, <1>7, <1>8

\* The last row put first.
LEMMA RiseFacts ==
  ASSUME NEW s \in Seq(Int), s # <<>>
  PROVE  \A t : t = InsertAt(RemoveAt(s, Len(s)), 1, Last(s)) =>
           /\ t \in Seq(Int) /\ Len(t) = Len(s) /\ t[1] = s[Len(s)]
           /\ \A k \in 1 .. (Len(s) - 1) : t[k + 1] = s[k]
<1> DEFINE r == RemoveAt(s, Len(s))
<1>1. r \in Seq(Int) /\ Len(r) = Len(s) - 1 /\ \A k \in 1 .. (Len(s) - 1) : r[k] = s[k]
  <2>1. SubSeq(s, Len(s) + 1, Len(s)) = <<>>
    OBVIOUS
  <2>2. r = SubSeq(s, 1, Len(s) - 1) \o <<>>
    BY <2>1 DEF RemoveAt
  <2> DEFINE n == Len(s) - 1
             a == SubSeq(s, 1, n)
  <2>a. n \in 0 .. Len(s) /\ n = Len(s) - 1
    OBVIOUS
  <2> HIDE DEF n
  <2>3. a \in Seq(Int) /\ Len(a) = n /\ \A k \in 1 .. n : a[k] = s[k]
    BY <2>a, PrefixRows
  <2> HIDE DEF a
  <2>4. r = a
    BY <2>2, <2>3, <2>a, ConcatEmptySeq DEF a, n
  <2> QED
    BY <2>3, <2>4, <2>a
<1>2. Last(s) = s[Len(s)] /\ Last(s) \in Int
  BY DEF Last
<1> HIDE DEF r
<1>3. /\ Len(s) \in Nat \ {0} /\ 1 \in 1 .. Len(r) + 1
  BY <1>1
<1> DEFINE e == Last(s)
<1>3a. e \in Int /\ e = s[Len(s)]
  BY <1>2
<1> HIDE DEF e
<1>4. \A t : t = InsertAt(r, 1, e) =>
           /\ t \in Seq(Int) /\ Len(t) = Len(r) + 1 /\ t[1] = e
           /\ \A k \in 1 .. (1 - 1) : t[k] = r[k]
           /\ \A k \in 1 .. Len(r) : t[k + 1] = r[k]
  BY <1>1, <1>3a, <1>3, InsertFacts, ZenonT(60)
<1>5. \A t : t = InsertAt(r, 1, e) =>
           /\ t \in Seq(Int) /\ Len(t) = Len(s) /\ t[1] = s[Len(s)]
           /\ \A k \in 1 .. (Len(s) - 1) : t[k + 1] = s[k]
  <2> SUFFICES ASSUME NEW t, t = InsertAt(r, 1, e)
      PROVE /\ t \in Seq(Int) /\ Len(t) = Len(s) /\ t[1] = s[Len(s)]
           /\ \A k \in 1 .. (Len(s) - 1) : t[k + 1] = s[k]
    OBVIOUS
  <2>1. /\ t \in Seq(Int) /\ Len(t) = Len(r) + 1 /\ t[1] = e
        /\ \A k \in 1 .. Len(r) : t[k + 1] = r[k]
    BY <1>4, Zenon
  <2>2. Len(r) = Len(s) - 1 /\ Len(s) \in Nat
    BY <1>1, <1>3
  <2>3. t \in Seq(Int) /\ Len(t) = Len(s) /\ t[1] = s[Len(s)]
    BY <1>3a, <2>1, <2>2
  <2>4. \A k \in 1 .. (Len(s) - 1) : r[k] = s[k]
    BY <1>1
  <2>5. \A k \in 1 .. (Len(s) - 1) : t[k + 1] = s[k]
    BY <2>1, <2>2, <2>4
  <2> QED
    BY <2>3, <2>5
<1> QED
  BY <1>5, Zenon DEF r, e

\* A list without its first row.
LEMMA TailFacts ==
  ASSUME NEW s \in Seq(Int), s # <<>>
  PROVE  \A t : t = Tail(s) =>
           /\ t \in Seq(Int) /\ Len(t) = Len(s) - 1
           /\ \A k \in 1 .. (Len(s) - 1) : t[k] = s[k + 1]
OBVIOUS

\* The types of a version of the table.
LEMMA VersionFacts ==
  ASSUME VersionsInv, NEW v \in 1 .. Len(versions)
  PROVE  /\ versions[v].rows \in Seq(Int) /\ Len(versions[v].rows) \in Nat
         /\ versions[v].settled \in BOOLEAN /\ Len(versions) \in Nat \ {0}
<1>1. versions \in Seq([rows : Seq(Int), settled : BOOLEAN]) /\ Len(versions) >= 1
  BY DEF VersionsInv
<1>2. versions[v] \in [rows : Seq(Int), settled : BOOLEAN]
  BY <1>1, ElementOfSeq, Zenon
<1>3. Len(versions) \in Nat
  BY <1>1
<1> QED
  BY <1>1, <1>2, <1>3

\* What lies below a row lies below the rows above it.
LEMMA BelowFacts ==
  ASSUME NEW r \in Seq(Int), NEW s \in Seq(Int), NEW t \in Seq(Int)
  PROVE  Below(r, r) /\ (Below(r, s) /\ Below(s, t) => Below(r, t))
<1>1. Below(r, r)
  BY DEF Below
<1>2. ASSUME Below(r, s), Below(s, t), NEW k \in 1 .. Len(r)
      PROVE  \E m \in 1 .. Len(t) : k <= m /\ t[m] = r[k]
  <2>1. PICK l \in 1 .. Len(s) : k <= l /\ s[l] = r[k]
    BY <1>2 DEF Below
  <2>2. PICK m \in 1 .. Len(t) : l <= m /\ t[m] = s[l]
    BY <1>2 DEF Below
  <2> QED
    BY <2>1, <2>2
<1> QED
  BY <1>1, <1>2 DEF Below

\* A page shows the rows from its first to its last place.
LEMMA ShownRows ==
  ASSUME list \in Lists, NEW q \in Nat, NEW s \in Seq(Int), NEW m \in 1 .. Len(s),
         q * list.asks < m, m <= (q + 1) * list.asks
  PROVE  s[m] \in RowsShown(list, q + 1, s)
<1> DEFINE off == q * list.asks
<1>1. /\ parsePagination(list.handler, list.asks) = list.asks /\ list.asks \in {25, 100}
      /\ (q + 1) * list.asks = off + list.asks /\ off \in Nat /\ ((q + 1) - 1) * list.asks = off
  <2>1. (q + 1) - 1 = q
    OBVIOUS
  <2> QED
    BY ListFacts, LastPage, <2>1
<1>2. RowsShown(list, q + 1, s) = {s[i] : i \in (off + 1) .. Least(off + list.asks, Len(s))}
  BY <1>1 DEF RowsShown
<1> HIDE DEF off
<1>3. off < m /\ m <= off + list.asks
  BY <1>1 DEF off
<1>4. m \in (off + 1) .. Least(off + list.asks, Len(s))
  BY <1>1, <1>3 DEF Least
<1> QED
  BY <1>2, <1>4

\* A new version keeps what is known of the earlier ones, and of the walk among them.
LEMMA ChangeStep ==
  ASSUME PagesInv, NEW r \in Seq(Int), NEW settled \in BOOLEAN, Change(r, settled), Distinct(r),
         \A k \in 1 .. Len(r) : r[k] > -(Len(versions) + 1), settled => Below(Rows, r)
  PROVE  PagesInv'
<1> DEFINE n == Len(versions)
           new == [rows |-> r, settled |-> settled]
<1>1. /\ versions \in Seq([rows : Seq(Int), settled : BOOLEAN]) /\ n \in Nat \ {0}
      /\ new \in [rows : Seq(Int), settled : BOOLEAN] /\ versions' = Append(versions, new)
      /\ UNCHANGED <<list, fetching, pageCache, visit>>
  BY DEF Change, PagesInv, VersionsInv
<1>2. /\ versions' \in Seq([rows : Seq(Int), settled : BOOLEAN]) /\ Len(versions') = n + 1
      /\ \A v \in 1 .. n : versions'[v] = versions[v]
      /\ versions'[n + 1] = new
  <2> HIDE DEF new
  <2> QED BY <1>1
<1>3. versions'[n + 1].rows = r /\ versions'[n + 1].settled = settled
  BY <1>2
<1>4. \A v, w \in 1 .. n : SettledFrom(v, w)' <=> SettledFrom(v, w)
  <2>1. \A v, w \in 1 .. n : \A u \in (v + 1) .. w : versions'[u] = versions[u]
    BY <1>1, <1>2
  <2> QED
    BY <2>1 DEF SettledFrom
<1>n. n \in Nat \ {0}
  BY <1>1
<1> HIDE DEF n, new
<1>5. VersionsInv'
  <2>1. ASSUME NEW v \in 1 .. (n + 1)
        PROVE  /\ Distinct(versions'[v].rows)
               /\ \A k \in 1 .. Len(versions'[v].rows) : versions'[v].rows[k] > -v
    <3>1. CASE v = n + 1
      BY <1>3, <3>1 DEF n
    <3>2. CASE v \in 1 .. n
      BY <1>2, <3>2 DEF n, PagesInv, VersionsInv
    <3> QED
      BY <1>n, <3>1, <3>2
  <2>2. ASSUME NEW v \in 1 .. (n + 1), NEW w \in 1 .. (n + 1), v <= w, SettledFrom(v, w)'
        PROVE  Below(versions'[v].rows, versions'[w].rows)
    <3>1. CASE w \in 1 .. n
      <4>1. v \in 1 .. n
        BY <1>1, <2>2, <3>1
      <4> QED
        BY <1>2, <1>4, <2>2, <3>1, <4>1 DEF n, PagesInv, VersionsInv
    <3>2. CASE w = n + 1 /\ v = n + 1
      BY <1>3, <3>2, BelowFacts
    <3>3. CASE w = n + 1 /\ v \in 1 .. n
      <4>1. n \in 1 .. n /\ v <= n /\ n + 1 \in (v + 1) .. w /\ (v + 1) .. n \subseteq (v + 1) .. w
        BY <1>1, <3>3
      <4>2. SettledFrom(v, n) /\ settled
        <5>1. \A u \in (v + 1) .. w : versions'[u].settled
          BY <2>2 DEF SettledFrom
        <5>2. versions'[n + 1].settled /\ \A u \in (v + 1) .. n : versions'[u].settled
          BY <4>1, <5>1
        <5>3. \A u \in (v + 1) .. n : versions[u].settled
          BY <1>2, <1>n, <3>3, <5>2
        <5> QED
          BY <1>3, <5>2, <5>3, Zenon DEF SettledFrom
      <4>3. Below(versions[v].rows, versions[n].rows)
        BY <3>3, <4>1, <4>2 DEF n, PagesInv, VersionsInv
      <4>4. versions[n].rows \in Seq(Int) /\ versions[v].rows \in Seq(Int)
        BY <3>3, <4>1, VersionFacts DEF n, PagesInv
      <4>5. Below(versions[n].rows, r)
        BY <4>2 DEF Rows, Last, n
      <4>6. Below(versions[v].rows, r)
        BY <4>3, <4>4, <4>5, BelowFacts
      <4> QED
        BY <1>2, <1>3, <3>3, <4>6
    <3> QED
      BY <1>n, <3>1, <3>2, <3>3
  <2>3. n + 1 >= 1
    BY <1>1
  <2> QED
    BY <1>2, <2>1, <2>2, <2>3 DEF VersionsInv
<1>6. AnswersInv'
  <2>1. 0 .. n \subseteq 0 .. (n + 1) /\ 1 .. n \subseteq 1 .. (n + 1)
    BY <1>1
  <2>2. /\ fetching \in [page : Pages \cup {0}, rows : 0 .. n, count : Nat \cup {-1}]
        /\ pageCache \in [Pages -> {NoAnswer, ErrorBody} \cup [rows : 1 .. n, total : Nat]]
    BY DEF PagesInv, AnswersInv, n
  <2>3. fetching \in [page : Pages \cup {0}, rows : 0 .. (n + 1), count : Nat \cup {-1}]
    BY <2>1, <2>2
  <2>4. pageCache \in [Pages -> {NoAnswer, ErrorBody} \cup [rows : 1 .. (n + 1), total : Nat]]
    BY <2>1, <2>2
  <2> QED
    BY <1>1, <1>2, <2>3, <2>4 DEF AnswersInv, Pages, NoAnswer, ErrorBody
<1>7. WalkInv'
  <2>1. /\ visit.first \in 0 .. n /\ visit.last \in 0 .. n
        /\ visit.page \in Nat /\ visit.total \in Nat
        /\ visit.first > 0 => visit.last > 0
        /\ visit.ordered => visit.first <= visit.last
    BY DEF PagesInv, WalkInv, n
  <2>2. visit \in [page : Nat, first : 0 .. (n + 1), last : 0 .. (n + 1),
                   ordered : BOOLEAN, seen : SUBSET Int, total : Nat]
    <3>1. visit \in [page : Nat, first : 0 .. n, last : 0 .. n,
                     ordered : BOOLEAN, seen : SUBSET Int, total : Nat]
      BY DEF PagesInv, WalkInv, n
    <3>2. 0 .. n \subseteq 0 .. (n + 1)
      BY <1>n
    <3> QED
      BY <3>1, <3>2
  <2>3. ASSUME visit.page > 0, visit.first > 0, visit.total > 0, visit.ordered,
               SettledFrom(visit.first, visit.last)'
        PROVE  Ahead(visit.first, visit.last, visit.page, visit.seen)'
    <3>1. visit.first \in 1 .. n /\ visit.last \in 1 .. n
      BY <1>1, <2>1, <2>3
    <3>2. SettledFrom(visit.first, visit.last)
      BY <1>1, <1>4, <2>3, <3>1 DEF SettledFrom
    <3>3. Ahead(visit.first, visit.last, visit.page, visit.seen)
      BY <2>3, <3>2 DEF PagesInv, WalkInv
    <3>4. versions'[visit.first] = versions[visit.first] /\ versions'[visit.last] = versions[visit.last]
      BY <1>2, <3>1
    <3>5. UNCHANGED <<list, visit>>
      BY <1>1
    <3> QED
      BY <3>3, <3>4, <3>5, ZenonT(60) DEF Ahead
  <2> QED
    BY <1>1, <1>2, <2>1, <2>2, <2>3 DEF WalkInv
<1> QED
  BY <1>1, <1>5, <1>6, <1>7 DEF PagesInv

\* The table of a visit's beginning.
LEMMA PagesStart == PagesInit => PagesInv
<1> SUFFICES ASSUME PagesInit PROVE PagesInv
  OBVIOUS
<1>1. PICK n \in Sizes : versions = <<[rows |-> [i \in 1 .. n |-> i], settled |-> TRUE]>>
  BY DEF PagesInit
<1> DEFINE r == [i \in 1 .. n |-> i]
<1>2. n \in Nat
  BY PagedReadsAssumption
<1>3. r \in Seq(Int) /\ Len(r) = n /\ \A k \in 1 .. n : r[k] = k
  BY <1>2
<1> HIDE DEF r
<1>4. /\ versions \in Seq([rows : Seq(Int), settled : BOOLEAN]) /\ Len(versions) = 1
      /\ versions[1].rows = r
  <2> DEFINE new == [rows |-> r, settled |-> TRUE]
  <2>1. new \in [rows : Seq(Int), settled : BOOLEAN] /\ new.rows = r
    BY <1>3
  <2>2. versions = <<new>>
    BY <1>1 DEF r
  <2> HIDE DEF new
  <2> QED
    BY <2>1, <2>2
<1>5. VersionsInv
  <2>1. Distinct(r) /\ \A k \in 1 .. Len(r) : r[k] > -1
    BY <1>2, <1>3 DEF Distinct
  <2>2. Below(r, r)
    BY <1>3, BelowFacts
  <2>3. \A v \in 1 .. 1 : v = 1
    OBVIOUS
  <2> QED
    BY <1>4, <2>1, <2>2, <2>3 DEF VersionsInv
<1>6. AnswersInv
  BY <1>4 DEF PagesInit, AnswersInv, NoFetch
<1>7. WalkInv
  BY <1>4 DEF PagesInit, WalkInv, NoVisit
<1> QED
  BY <1>5, <1>6, <1>7 DEF PagesInv, PagesInit

\* Every step keeps what is known of the versions, the answers and the walk.
LEMMA PagesStep == PagesInv /\ [PagesNext]_pagesVars => PagesInv'
<1> SUFFICES ASSUME PagesInv, [PagesNext]_pagesVars PROVE PagesInv'
  OBVIOUS
<1> DEFINE n == Len(versions)
           Envelopes == {NoAnswer, ErrorBody} \cup [rows : 1 .. n, total : Nat]
<1>1. /\ n \in Nat \ {0} /\ n \in 1 .. n /\ Rows \in Seq(Int) /\ Len(Rows) \in Nat
      /\ Distinct(Rows) /\ \A k \in 1 .. Len(Rows) : Rows[k] > -n
      /\ versions[n].rows = Rows
  <2>1. n >= 1 /\ n \in Nat
    BY DEF PagesInv, VersionsInv
  <2>2. n \in 1 .. n /\ versions[n].rows = Rows
    BY <2>1 DEF Rows, Last
  <2>3. Rows \in Seq(Int) /\ Len(Rows) \in Nat
    BY <2>2, VersionFacts DEF PagesInv
  <2> QED
    <3>1. Distinct(versions[n].rows) /\ \A k \in 1 .. Len(versions[n].rows) : versions[n].rows[k] > -n
      BY <2>2 DEF PagesInv, VersionsInv
    <3> QED
      BY <2>1, <2>2, <2>3, <3>1
<1>2. /\ fetching \in [page : Pages \cup {0}, rows : 0 .. n, count : Nat \cup {-1}]
      /\ pageCache \in [Pages -> Envelopes]
  BY DEF PagesInv, AnswersInv
<1>3. ASSUME UNCHANGED <<list, versions, visit>>,
             fetching' \in [page : Pages \cup {0}, rows : 0 .. n, count : Nat \cup {-1}],
             pageCache' \in [Pages -> Envelopes]
      PROVE  PagesInv'
  <2>1. VersionsInv'
    BY <1>3 DEF PagesInv, VersionsInv, SettledFrom
  <2>2. AnswersInv'
    BY <1>3 DEF AnswersInv, Pages, NoAnswer, ErrorBody
  <2>3. WalkInv'
    BY <1>3 DEF PagesInv, WalkInv, SettledFrom, Ahead
  <2> QED
    BY <1>3, <2>1, <2>2, <2>3 DEF PagesInv
<1>4. CASE InsertRow
  <2>1. PICK i \in (Inserts \cap 1 .. Len(Rows)) \cup {Len(Rows) + 1} :
          Change(InsertAt(Rows, i, -n), TRUE)
    BY <1>4 DEF InsertRow
  <2>2. i \in 1 .. Len(Rows) + 1 /\ -n \in Int
    BY <1>1
  <2> DEFINE r == InsertAt(Rows, i, -n)
  <2>3. /\ r \in Seq(Int) /\ Len(r) = Len(Rows) + 1 /\ r[i] = -n
        /\ \A k \in 1 .. (i - 1) : r[k] = Rows[k]
        /\ \A k \in i .. Len(Rows) : r[k + 1] = Rows[k]
    <3> DEFINE e == -n
    <3>1. e \in Int
      BY <2>2
    <3> HIDE DEF e
    <3>2. \A t : t = InsertAt(Rows, i, e) =>
            /\ t \in Seq(Int) /\ Len(t) = Len(Rows) + 1 /\ t[i] = e
            /\ \A k \in 1 .. (i - 1) : t[k] = Rows[k]
            /\ \A k \in i .. Len(Rows) : t[k + 1] = Rows[k]
      <4>1. Rows \in Seq(Int)
        BY <1>1
      <4>2. i \in 1 .. Len(Rows) + 1
        BY <2>2
      <4> QED
        BY <3>1, <4>1, <4>2, InsertFacts, ZenonT(60)
    <3> QED
      BY <3>2, Zenon DEF e
  <2> HIDE DEF r, n
  <2>n. /\ n \in Nat \ {0} /\ Len(Rows) \in Nat
        /\ \A k \in 1 .. Len(Rows) : Rows[k] \in Int /\ Rows[k] > -n
        /\ \A k, l \in 1 .. Len(Rows) : Rows[k] = Rows[l] => k = l
    BY <1>1 DEF Distinct
  <2>4. ASSUME NEW k \in 1 .. Len(r)
        PROVE  \/ k = i /\ r[k] = -n
               \/ k < i /\ k \in 1 .. Len(Rows) /\ r[k] = Rows[k]
               \/ k > i /\ k - 1 \in 1 .. Len(Rows) /\ r[k] = Rows[k - 1]
    <3>1. CASE k > i
      <4>1. k - 1 \in i .. Len(Rows) /\ (k - 1) + 1 = k
        BY <1>1, <2>2, <2>3, <3>1, SMTT(40)
      <4>2. r[(k - 1) + 1] = Rows[k - 1]
        BY <2>3, <4>1
      <4>3. k - 1 \in 1 .. Len(Rows)
        BY <2>n, <2>2, <4>1
      <4> QED
        BY <3>1, <4>1, <4>2, <4>3
    <3> QED
      BY <1>1, <2>2, <2>3, <3>1
  <2>5. Distinct(r)
    <3>1. ASSUME NEW k \in 1 .. Len(r), NEW l \in 1 .. Len(r), r[k] = r[l] PROVE k = l
      BY <2>n, <2>2, <2>4, <3>1
    <3> QED
      BY <3>1 DEF Distinct
  <2>6. \A k \in 1 .. Len(r) : r[k] > -(n + 1)
    <3>1. ASSUME NEW k \in 1 .. Len(r) PROVE r[k] > -(n + 1)
      BY <2>n, <2>4, SMTT(40)
    <3> QED
      BY <3>1
  <2>7. Below(Rows, r)
    <3>1. ASSUME NEW k \in 1 .. Len(Rows) PROVE \E l \in 1 .. Len(r) : k <= l /\ r[l] = Rows[k]
      <4>1. CASE k < i
        <5>1. k \in 1 .. (i - 1) /\ k \in 1 .. Len(r)
          BY <2>n, <2>2, <2>3, <4>1
        <5> QED
          BY <2>3, <5>1
      <4>2. CASE k >= i
        <5>1. k \in i .. Len(Rows) /\ k + 1 \in 1 .. Len(r) /\ k <= k + 1
          BY <1>1, <2>2, <2>3, <4>2
        <5> QED
          BY <2>3, <5>1
      <4> QED
        BY <2>2, <4>1, <4>2
    <3> QED
      BY <3>1 DEF Below
  <2> QED
    BY <2>1, <2>3, <2>5, <2>6, <2>7, ChangeStep DEF r, n
<1>5. CASE MoveRow
  <2>a. Rows # <<>>
    BY <1>5 DEF MoveRow
  <2>b. Len(Rows) \in Nat \ {0}
    BY <1>1, <2>a
  <2>n. /\ n \in Nat \ {0}
        /\ \A k \in 1 .. Len(Rows) : Rows[k] \in Int /\ Rows[k] > -n
        /\ \A k, l \in 1 .. Len(Rows) : Rows[k] = Rows[l] => k = l
    BY <1>1 DEF Distinct
  <2>1. CASE Change(InsertAt(RemoveAt(Rows, Len(Rows)), 1, Last(Rows)), FALSE)
    <3> DEFINE r == InsertAt(RemoveAt(Rows, Len(Rows)), 1, Last(Rows))
    <3>1. /\ r \in Seq(Int) /\ Len(r) = Len(Rows) /\ r[1] = Rows[Len(Rows)]
          /\ \A k \in 1 .. (Len(Rows) - 1) : r[k + 1] = Rows[k]
      BY <1>1, <2>a, RiseFacts
    <3> HIDE DEF r, n
    <3>2. ASSUME NEW k \in 1 .. Len(r)
          PROVE  \/ k = 1 /\ r[k] = Rows[Len(Rows)]
                 \/ k > 1 /\ k - 1 \in 1 .. (Len(Rows) - 1) /\ r[k] = Rows[k - 1]
      <4>1. CASE k > 1
        <5>1. k - 1 \in 1 .. (Len(Rows) - 1) /\ (k - 1) + 1 = k
          BY <2>b, <3>1, <4>1
        <5> QED
          BY <3>1, <4>1, <5>1
      <4> QED
        BY <3>1, <4>1
    <3>3. Distinct(r)
      <4>1. ASSUME NEW k \in 1 .. Len(r), NEW l \in 1 .. Len(r), r[k] = r[l] PROVE k = l
        <5>1. Len(Rows) \in 1 .. Len(Rows) /\ k \in Int /\ l \in Int
          BY <2>b
        <5>2. CASE k = 1 /\ l = 1
          BY <5>2
        <5>3. CASE k > 1 /\ l > 1
          <6>1. k - 1 = l - 1
            <7>1. k - 1 \in 1 .. Len(Rows) /\ l - 1 \in 1 .. Len(Rows)
              BY <2>b, <3>2, <5>3
            <7> QED
              BY <2>n, <3>2, <4>1, <5>3, <7>1
          <6> QED
            BY <5>1, <6>1
        <5>4. ASSUME NEW m \in 1 .. (Len(Rows) - 1), Rows[m] = Rows[Len(Rows)] PROVE FALSE
          <6>1. m \in 1 .. Len(Rows) /\ m # Len(Rows)
            BY <2>b
          <6> QED
            BY <2>n, <5>1, <5>4, <6>1
        <5> QED
          BY <3>2, <4>1, <5>2, <5>3, <5>4
      <4> QED
        BY <4>1 DEF Distinct
    <3>4. \A k \in 1 .. Len(r) : r[k] > -(n + 1)
      <4>1. ASSUME NEW k \in 1 .. Len(r) PROVE r[k] > -(n + 1)
        BY <2>n, <2>b, <3>1, <3>2
      <4> QED
        BY <4>1
    <3> QED
      BY <2>1, <3>1, <3>3, <3>4, ChangeStep DEF r, n
  <2>2. CASE Change(Tail(Rows), FALSE)
    <3> DEFINE r == Tail(Rows)
    <3>1. /\ r \in Seq(Int) /\ Len(r) = Len(Rows) - 1
          /\ \A k \in 1 .. (Len(Rows) - 1) : r[k] = Rows[k + 1]
      BY <1>1, <2>a, TailFacts
    <3> HIDE DEF r, n
    <3>2. \A k \in 1 .. Len(r) : k + 1 \in 1 .. Len(Rows) /\ r[k] = Rows[k + 1]
      BY <2>b, <3>1
    <3>3. Distinct(r)
      <4>1. ASSUME NEW k \in 1 .. Len(r), NEW l \in 1 .. Len(r), r[k] = r[l] PROVE k = l
        <5>1. /\ k + 1 \in 1 .. Len(Rows) /\ r[k] = Rows[k + 1]
              /\ l + 1 \in 1 .. Len(Rows) /\ r[l] = Rows[l + 1]
          BY <3>2
        <5>2. k + 1 = l + 1
          BY <2>n, <4>1, <5>1
        <5> QED
          BY <5>2
      <4> QED
        BY <4>1 DEF Distinct
    <3>4. \A k \in 1 .. Len(r) : r[k] > -(n + 1)
      <4>1. ASSUME NEW k \in 1 .. Len(r) PROVE r[k] > -(n + 1)
        <5>1. k + 1 \in 1 .. Len(Rows) /\ r[k] = Rows[k + 1]
          BY <3>2
        <5>2. Rows[k + 1] \in Int /\ Rows[k + 1] > -n
          BY <2>n, <5>1
        <5> QED
          BY <2>n, <5>1, <5>2
      <4> QED
        BY <4>1
    <3> QED
      BY <2>2, <3>1, <3>3, <3>4, ChangeStep DEF r, n
  <2> QED
    BY <1>5, <2>1, <2>2 DEF MoveRow
<1>6. ASSUME NEW p \in Pages, Fetch(p) \/ Drop(p) PROVE PagesInv'
  <2> HIDE DEF n
  <2>1. CASE Fetch(p)
    <3>1. fetching' \in [page : Pages \cup {0}, rows : 0 .. n, count : Nat \cup {-1}]
      BY <1>1, <2>1 DEF Fetch, NoFetch
    <3> QED
      BY <1>2, <1>3, <2>1, <3>1 DEF Fetch
  <2>2. CASE Drop(p)
    BY <1>2, <1>3, <2>2 DEF Drop
  <2> QED
    BY <1>6, <2>1, <2>2
<1>7. CASE ReadRows
  <2> HIDE DEF n
  <2>1. fetching' = [fetching EXCEPT !.rows = n] /\ UNCHANGED <<list, versions, pageCache, visit>>
    BY <1>7 DEF ReadRows, n
  <2>2. fetching' \in [page : Pages \cup {0}, rows : 0 .. n, count : Nat \cup {-1}]
    BY <1>1, <1>2, <2>1
  <2> QED
    BY <1>2, <1>3, <2>1, <2>2
<1>8. CASE ReadCount
  <2>1. PICK count \in Nat : fetching' = [fetching EXCEPT !.count = count]
    <3>1. Len(Rows) \in Nat
      BY <1>1
    <3> QED
      BY <1>8, <3>1, PagedReadsAssumption DEF ReadCount
  <2> HIDE DEF n
  <2>2. fetching' \in [page : Pages \cup {0}, rows : 0 .. n, count : Nat \cup {-1}]
    BY <1>2, <2>1
  <2> QED
    BY <1>2, <1>3, <1>8, <2>2 DEF ReadCount
<1>9. CASE Respond
  <2> HIDE DEF n
  <2> DEFINE envelope == [rows |-> fetching.rows, total |-> Least(fetching.count, EXPLORER_LIST_CAP)]
  <2>1. fetching.rows \in 1 .. n /\ fetching.count \in Nat
    BY <1>1, <1>2, <1>9 DEF Respond
  <2>2. Least(fetching.count, EXPLORER_LIST_CAP) \in Nat
    BY <2>1, PagedReadsAssumption DEF Least
  <2>3. envelope \in Envelopes
    BY <2>1, <2>2
  <2>4. fetching' = NoFetch /\ pageCache' = [pageCache EXCEPT ![fetching.page] = envelope]
    BY <1>9 DEF Respond
  <2> HIDE DEF envelope, Envelopes
  <2>5. pageCache' \in [Pages -> Envelopes]
    BY <1>2, <2>3, <2>4
  <2>6. fetching' \in [page : Pages \cup {0}, rows : 0 .. n, count : Nat \cup {-1}]
    BY <1>1, <2>4 DEF NoFetch
  <2> QED
    BY <1>3, <1>9, <2>5, <2>6 DEF Respond
<1> HIDE DEF n
<1>10. ASSUME UNCHANGED <<list, versions>>,
             visit' = [visit EXCEPT !.page = @ + 1, !.total = 0],
             fetching' \in [page : Pages \cup {0}, rows : 0 .. n, count : Nat \cup {-1}],
             pageCache' \in [Pages -> Envelopes]
      PROVE  PagesInv'
  <2>1. VersionsInv'
    BY <1>10 DEF PagesInv, VersionsInv, SettledFrom
  <2>2. AnswersInv'
    BY <1>10 DEF AnswersInv, Pages, NoAnswer, ErrorBody, n
  <2>3. WalkInv'
    <3>1. /\ visit \in [page : Nat, first : 0 .. n, last : 0 .. n, ordered : BOOLEAN,
                        seen : SUBSET Int, total : Nat]
          /\ visit.first > 0 => visit.last > 0
          /\ visit.ordered => visit.first <= visit.last
      BY DEF PagesInv, WalkInv, n
    <3>2. /\ visit' \in [page : Nat, first : 0 .. n, last : 0 .. n, ordered : BOOLEAN,
                         seen : SUBSET Int, total : Nat]
          /\ visit'.first = visit.first /\ visit'.last = visit.last
          /\ visit'.ordered = visit.ordered /\ visit'.total = 0
      <4> DEFINE R == [page : Nat, first : 0 .. n, last : 0 .. n, ordered : BOOLEAN,
                       seen : SUBSET Int, total : Nat]
      <4>1. \A v \in R : LET u == [v EXCEPT !.page = @ + 1, !.total = 0] IN
              /\ u \in R /\ u.first = v.first /\ u.last = v.last
              /\ u.ordered = v.ordered /\ u.total = 0
        <5> SUFFICES ASSUME NEW v \in R
                     PROVE  LET u == [v EXCEPT !.page = @ + 1, !.total = 0] IN
                              /\ u \in R /\ u.first = v.first /\ u.last = v.last
                              /\ u.ordered = v.ordered /\ u.total = 0
          OBVIOUS
        <5> DEFINE w == [v EXCEPT !.page = @ + 1]
        <5>1. w \in R /\ w.first = v.first /\ w.last = v.last /\ w.ordered = v.ordered
          OBVIOUS
        <5>2. [v EXCEPT !.page = @ + 1, !.total = 0] = [w EXCEPT !.total = 0]
          OBVIOUS
        <5> HIDE DEF w
        <5>3. [w EXCEPT !.total = 0] \in R
          BY <5>1
        <5>4. LET u == [w EXCEPT !.total = 0] IN
                u.first = w.first /\ u.last = w.last /\ u.ordered = w.ordered /\ u.total = 0
          BY <5>1
        <5> QED
          BY <5>1, <5>2, <5>3, <5>4
      <4> QED
        BY <1>10, <3>1, <4>1, Zenon
    <3>3. n' = n
      BY <1>10 DEF n
    <3> QED
      BY <3>1, <3>2, <3>3 DEF WalkInv, n
  <2> QED
    BY <1>10, <2>1, <2>2, <2>3 DEF PagesInv
<1>11. CASE FetchFails
  <2>1. fetching' = NoFetch /\ UNCHANGED <<list, versions>>
    BY <1>11 DEF FetchFails
  <2>2. fetching' \in [page : Pages \cup {0}, rows : 0 .. n, count : Nat \cup {-1}]
    BY <1>1, <2>1 DEF NoFetch
  <2>3. pageCache' \in [Pages -> Envelopes]
    <3>1. ErrorBody \in Envelopes
      OBVIOUS
    <3> HIDE DEF Envelopes
    <3> QED
      BY <1>2, <1>11, <3>1 DEF FetchFails
  <2>4. UNCHANGED visit \/ visit' = [visit EXCEPT !.page = @ + 1, !.total = 0]
    BY <1>11 DEF FetchFails
  <2> HIDE DEF Envelopes
  <2> QED
    BY <1>3, <1>10, <2>1, <2>2, <2>3, <2>4
<1>12. CASE ShowNothing
  <2> HIDE DEF Envelopes
  <2> QED
    BY <1>2, <1>10, <1>12 DEF ShowNothing
<1>13. CASE ShowPage
  <2> HIDE DEF Envelopes
  <2> DEFINE q == visit.page
             w == pageCache[q + 1].rows
             last == versions[w].rows
  <2>1. q \in Nat /\ q + 1 \in Pages /\ w \in 1 .. n /\ pageCache[q + 1].total \in Nat
    <3>1. q \in Nat /\ q + 1 \in Pages
      BY <1>13 DEF ShowPage, PagesInv, WalkInv
    <3>2. pageCache[q + 1] \in [rows : 1 .. n, total : Nat]
      BY <1>2, <1>13, <3>1 DEF ShowPage, Envelopes
    <3> QED
      BY <3>1, <3>2
  <2>2. /\ visit' = [page |-> q + 1, first |-> IF q + 1 = 1 THEN w ELSE visit.first, last |-> w,
                     ordered |-> visit.ordered /\ visit.last <= w,
                     seen |-> visit.seen \cup RowsShown(list, q + 1, last),
                     total |-> pageCache[q + 1].total]
        /\ UNCHANGED <<list, versions, fetching, pageCache>>
    BY <1>13 DEF ShowPage
  <2>3. q = 0 \/ q < totalPages(list, visit.total)
    BY <1>13 DEF ShowPage, hasNext
  <2>4. /\ visit \in [page : Nat, first : 0 .. n, last : 0 .. n, ordered : BOOLEAN,
                      seen : SUBSET Int, total : Nat]
        /\ visit.first > 0 => visit.last > 0
        /\ visit.ordered => visit.first <= visit.last
    BY DEF PagesInv, WalkInv, n
  <2>5. last \in Seq(Int) /\ Len(last) \in Nat
    BY <2>1, VersionFacts DEF PagesInv, n
  <2>6. RowsShown(list, q + 1, last) \subseteq Int /\ list \in Lists
    <3> DEFINE off == ((q + 1) - 1) * list.asks
               limit == parsePagination(list.handler, list.asks)
    <3>1. list \in Lists
      BY DEF PagesInv
    <3>2. off \in Nat /\ limit \in Nat
      <4>1. (q + 1) - 1 = q
        BY <2>1
      <4> QED
        BY <2>1, <3>1, <4>1, ListFacts, LastPage
    <3>3. RowsShown(list, q + 1, last) = {last[i] : i \in (off + 1) .. Least(off + limit, Len(last))}
      BY DEF RowsShown
    <3> HIDE DEF off, limit, last
    <3>4. ASSUME NEW i \in (off + 1) .. Least(off + limit, Len(last)) PROVE last[i] \in Int
      <4>1. i \in 1 .. Len(last)
        BY <2>5, <3>2 DEF Least
      <4> QED
        BY <2>5, <4>1
    <3> QED
      BY <3>1, <3>3, <3>4
  <2> HIDE DEF q, w, last
  <2>7. /\ visit'.page = q + 1 /\ visit'.first = (IF q + 1 = 1 THEN w ELSE visit.first)
        /\ visit'.last = w /\ visit'.ordered = (visit.ordered /\ visit.last <= w)
        /\ visit'.seen = visit.seen \cup RowsShown(list, q + 1, last)
        /\ visit'.total = pageCache[q + 1].total
    BY <2>2
  <2>8. visit' \in [page : Nat, first : 0 .. n, last : 0 .. n, ordered : BOOLEAN,
                    seen : SUBSET Int, total : Nat]
    <3>1. /\ q + 1 \in Nat /\ (IF q + 1 = 1 THEN w ELSE visit.first) \in 0 .. n /\ w \in 0 .. n
          /\ (visit.ordered /\ visit.last <= w) \in BOOLEAN
          /\ visit.seen \cup RowsShown(list, q + 1, last) \in SUBSET Int
      BY <1>1, <2>1, <2>4, <2>6
    <3> QED
      BY <2>1, <2>2, <3>1
  <2>9. /\ visit'.first > 0 => visit'.last > 0
        /\ visit'.ordered => visit'.first <= visit'.last
    <3>1. visit'.ordered => visit.ordered /\ visit.last <= w
      BY <2>7, Zenon
    <3> QED
      BY <1>1, <2>1, <2>4, <2>7, <3>1
  <2>10. ASSUME visit'.first > 0, visit'.ordered, SettledFrom(visit'.first, visit'.last)
         PROVE  Ahead(visit'.first, visit'.last, visit'.page, visit'.seen)
    <3>1. (q + 1) * list.asks = q * list.asks + list.asks /\ q * list.asks \in Nat
          /\ list.asks \in {25, 100}
      BY <2>1, <2>6, LastPage, ListFacts
    <3>2. ASSUME NEW m \in 1 .. Len(last), q * list.asks < m
          PROVE  last[m] \in visit'.seen \/ m > (q + 1) * list.asks
      <4>1. CASE m <= (q + 1) * list.asks
        BY <2>1, <2>5, <2>6, <2>7, <3>2, <4>1, ShownRows
      <4> QED
        BY <2>5, <3>1, <4>1
    <3>3. CASE q = 0
      <4>1. visit'.first = w /\ visit'.last = w /\ visit'.page = 1
        BY <2>7, <3>3
      <4>2. ASSUME NEW k \in 1 .. Len(last)
            PROVE  last[k] \in visit'.seen \/ k > (q + 1) * list.asks
        <5>1. q * list.asks = 0
          BY <3>1, <3>3
        <5> QED
          BY <2>5, <3>2, <5>1
      <4> QED
        BY <2>7, <3>3, <4>1, <4>2 DEF Ahead, last
    <3>4. CASE q > 0
      <4>1. /\ visit.first \in 1 .. n /\ visit'.first = visit.first /\ visit'.last = w
            /\ visit.last \in 1 .. n /\ visit.last <= w /\ visit.first <= visit.last
            /\ visit.ordered
        <5>1. visit.ordered /\ visit.last <= w
          BY <2>7, <2>10, Zenon
        <5>2. visit.ordered => visit.first <= visit.last
          BY <2>4
        <5>3. visit'.first = visit.first /\ visit'.last = w
          BY <2>1, <2>7, <3>4
        <5>4. visit.first \in 1 .. n /\ visit.last \in 1 .. n
          BY <1>1, <2>4, <2>10, <5>3
        <5> QED
          BY <5>1, <5>2, <5>3, <5>4
      <4>2. visit.total > 0
        BY <2>1, <2>3, <2>4, <2>6, <3>4, LastPage DEF q
      <4>3. SettledFrom(visit.first, visit.last) /\ SettledFrom(visit.last, w)
        <5>1. /\ (visit.first + 1) .. visit.last \subseteq (visit.first + 1) .. w
              /\ (visit.last + 1) .. w \subseteq (visit.first + 1) .. w
          BY <1>1, <2>1, <4>1
        <5> QED
          BY <2>10, <4>1, <5>1 DEF SettledFrom
      <4>4. Ahead(visit.first, visit.last, q, visit.seen)
        BY <2>4, <3>4, <4>1, <4>2, <4>3 DEF PagesInv, WalkInv, q
      <4>5. Below(versions[visit.last].rows, last)
        BY <2>1, <4>1, <4>3 DEF PagesInv, VersionsInv, last, n
      <4>6. ASSUME NEW k \in 1 .. Len(versions[visit.first].rows)
            PROVE  \/ versions[visit.first].rows[k] \in visit'.seen
                   \/ \E l \in 1 .. Len(last) :
                        l > (q + 1) * list.asks /\ last[l] = versions[visit.first].rows[k]
        <5> DEFINE x == versions[visit.first].rows[k]
        <5>1. CASE x \in visit.seen
          BY <2>7, <5>1
        <5>2. CASE \E l \in 1 .. Len(versions[visit.last].rows) :
                     l > q * list.asks /\ versions[visit.last].rows[l] = x
          <6> HIDE DEF x
          <6>1. PICK l \in 1 .. Len(versions[visit.last].rows) :
                  l > q * list.asks /\ versions[visit.last].rows[l] = x
            BY <5>2
          <6>2. PICK m \in 1 .. Len(last) : l <= m /\ last[m] = x
            BY <4>5, <6>1 DEF Below
          <6>3. q * list.asks < m
            BY <3>1, <6>1, <6>2
          <6> QED
            BY <3>2, <6>2, <6>3 DEF x
        <5> QED
          BY <4>4, <5>1, <5>2 DEF Ahead
      <4> QED
        BY <2>7, <4>1, <4>6 DEF Ahead, last
    <3> QED
      BY <2>1, <3>3, <3>4
  <2>11. WalkInv'
    <3>1. n' = n /\ UNCHANGED <<list, versions>>
      BY <2>2 DEF n
    <3>2. ASSUME visit'.page > 0, visit'.first > 0, visit'.total > 0, visit'.ordered,
                 SettledFrom(visit.first, visit.last)'
          PROVE  Ahead(visit.first, visit.last, visit.page, visit.seen)'
      <4>1. SettledFrom(visit'.first, visit'.last)
        BY <3>1, <3>2, Zenon DEF SettledFrom
      <4>2. Ahead(visit'.first, visit'.last, visit'.page, visit'.seen)
        BY <2>10, <3>2, <4>1
      <4> QED
        BY <3>1, <4>2, Zenon DEF Ahead
    <3> QED
      BY <2>8, <2>9, <3>1, <3>2 DEF WalkInv, n
  <2>12. VersionsInv'
    BY <2>2 DEF PagesInv, VersionsInv, SettledFrom
  <2>13. AnswersInv'
    BY <2>2 DEF PagesInv, AnswersInv, Pages, NoAnswer, ErrorBody
  <2> QED
    BY <2>2, <2>6, <2>11, <2>12, <2>13 DEF PagesInv
<1> QED
  BY <1>2, <1>3, <1>4, <1>5, <1>6, <1>7, <1>8, <1>9, <1>11, <1>12, <1>13 DEF PagesNext, pagesVars

\* The invariant, and a last page that reaches the last row, give the walk's promise.
LEMMA WalkEnds == PagesInv => WalkComplete
<1> SUFFICES ASSUME PagesInv, visit.page > 0, visit.first > 0, ~hasNext, visit.ordered,
                    SettledFrom(visit.first, visit.last),
                    visit.total >= Least(EXPLORER_LIST_CAP, Len(versions[visit.last].rows)),
                    NEW i \in 1 .. Least(EXPLORER_LIST_CAP, Len(versions[visit.last].rows)),
                    versions[visit.last].rows[i] \in ToSet(versions[visit.first].rows)
             PROVE  versions[visit.last].rows[i] \in visit.seen
  BY DEF WalkComplete, SettledFrom
<1> DEFINE last == versions[visit.last].rows
           first == versions[visit.first].rows
<1>1. /\ visit.page \in Nat /\ visit.total \in Nat /\ list \in Lists
      /\ visit.first \in 1 .. Len(versions) /\ visit.last \in 1 .. Len(versions)
  BY DEF PagesInv, WalkInv
<1>2. /\ last \in Seq(Int) /\ Len(last) \in Nat /\ Distinct(last)
      /\ first \in Seq(Int) /\ Len(first) \in Nat
  BY <1>1, VersionFacts DEF PagesInv, VersionsInv
<1>3. i \in 1 .. Len(last) /\ i <= visit.total /\ visit.total > 0
  BY <1>1, <1>2, PagedReadsAssumption, SMTT(40) DEF Least
<1>4. visit.total <= visit.page * list.asks /\ visit.page * list.asks \in Nat
  <2>1. visit.page >= totalPages(list, visit.total)
    <3>1. totalPages(list, visit.total) \in Int
      BY <1>1, LastPage
    <3> QED
      BY <1>1, <3>1 DEF hasNext
  <2> QED
    BY <1>1, <2>1, LastPage
<1>5. Ahead(visit.first, visit.last, visit.page, visit.seen)
  BY <1>3 DEF PagesInv, WalkInv
<1>6. PICK k \in 1 .. Len(first) : first[k] = last[i]
  <2>1. DOMAIN first = 1 .. Len(first)
    BY <1>2
  <2>2. last[i] \in ToSet(first)
    OBVIOUS
  <2> HIDE DEF first, last
  <2> QED
    BY <2>1, <2>2, Zenon DEF ToSet
<1>7. \/ first[k] \in visit.seen
      \/ \E l \in 1 .. Len(last) : l > visit.page * list.asks /\ last[l] = first[k]
  BY <1>5 DEF Ahead
<1> HIDE DEF last, first
<1>8. ASSUME NEW l \in 1 .. Len(last), l > visit.page * list.asks, last[l] = last[i] PROVE FALSE
  <2>1. l = i
    BY <1>3, <1>8, <1>2 DEF Distinct
  <2> QED
    BY <1>1, <1>3, <1>4, <1>8, <2>1
<1>9. last[i] \in visit.seen
  BY <1>6, <1>7, <1>8
<1> QED
  BY <1>9 DEF last

\* WalkComplete: a visitor who walks a list to its end by "Next" has seen every row that
\* was in it at the first page and is in it at the last, whatever came in meanwhile.
THEOREM WalkAlwaysComplete == PagesSpec => []WalkComplete
<1>1. PagesSpec => []PagesInv
  BY PagesStart, PagesStep, PTL DEF PagesSpec
<1> QED
  BY <1>1, WalkEnds, PTL
=============================================================================
