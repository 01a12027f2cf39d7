----------------------------- MODULE Verification -----------------------------
(***************************************************************************)
(* Verified sources (apps/api: utils/verifiedAbi.ts, controllers           *)
(* verifyContract.controller.ts): a request takes a contract's record from *)
(* the VerifiedContract table, or else from the chain's explorer, which it *)
(* stores, and follows a proxy to its implementation; an address that the  *)
(* explorer does not know is remembered for a while.  A user's own         *)
(* submission is stored when its bytecode matches.  The verification route *)
(* keeps each response, whatever it says, for 30 seconds                   *)
(* (middlewares/cache.ts).                                                 *)
(***************************************************************************)
EXTENDS Integers

CONSTANTS
  Contracts,       \* addresses
  Implementation,  \* [Contracts -> Contracts \cup {NoContract}]: what the explorer says
  Readers,         \* concurrent requests
  MaxRejections    \* bound: rejected writes

NoContract == "none"

ASSUME VerificationAssumption ==
  /\ NoContract \notin Contracts
  /\ Implementation \in [Contracts -> Contracts \cup {NoContract}]
  /\ MaxRejections \in Nat

VARIABLES
  stored,     \* rows: "no", "explorer", "local", or "both": local over explorer
  unverified, \* addresses in the negative cache
  onExplorer, \* contracts verified on the explorer
  page,       \* the route's cached responses: the answer, and whether the record was
              \* stored when the request that was given it began (history)
  reader,     \* each request: see ReaderInit
  rejections

verVars == <<stored, unverified, onExplorer, page, reader, rejections>>

NoPage == [answer |-> "none", known |-> FALSE]

\* current, second, nested: the address getOrFetchVerifiedContract is about, whether it
\* is resolveContract's second call, and whether it is called by itself; found: the
\* record of the first.  known and stale (history): the record was stored when the
\* request began, and was not when the one began whose cached response it is given.
ReaderInit == [at |-> "idle", root |-> NoContract, current |-> NoContract,
               second |-> FALSE, nested |-> FALSE, found |-> FALSE, answer |-> "none",
               known |-> FALSE, stale |-> FALSE]

VerInit ==
  /\ stored = [c \in Contracts |-> "no"]
  /\ unverified = {} /\ onExplorer \in SUBSET Contracts
  /\ page = [c \in Contracts |-> NoPage]
  /\ reader = [r \in Readers |-> ReaderInit]
  /\ rejections = 0

-----------------------------------------------------------------------------

\* The route's cache has a response.
ServeCached(r, c) ==
  /\ reader[r].at \in {"idle", "done"} /\ page[c].answer # "none"
  /\ reader' = [reader EXCEPT ![r] =
       [ReaderInit EXCEPT !.at = "done", !.root = c, !.current = c, !.answer = page[c].answer,
                          !.known = stored[c] # "no", !.stale = ~page[c].known]]
  /\ UNCHANGED <<stored, unverified, onExplorer, page, rejections>>

\* It has none or cannot be read: getVerification calls resolveContract.
Resolve(r, c) ==
  /\ reader[r].at \in {"idle", "done"}
  /\ reader' = [reader EXCEPT ![r] =
       [ReaderInit EXCEPT !.at = "row", !.root = c, !.current = c, !.known = stored[c] # "no"]]
  /\ UNCHANGED <<stored, unverified, onExplorer, page, rejections>>

\* The call returns to resolveContract, or to the outer call, which returns too.
\* Then the second call, for the implementation of the record it has.
Returned(r, found, implementation) ==
  LET q == reader[r]
      f == IF q.nested \/ q.second THEN q.found ELSE found
  IN reader' = [reader EXCEPT ![r] =
       IF ~q.second /\ f /\ implementation # NoContract
       THEN [q EXCEPT !.at = "row", !.current = implementation, !.second = TRUE,
                      !.nested = FALSE, !.found = f]
       ELSE [q EXCEPT !.at = "answer", !.found = f,
                      !.answer = IF f THEN "verified" ELSE "unverified"]]

\* A row that a submission created has no implementationAddress.
ImplementationOf(c) ==
  IF stored[c] \in {"explorer", "both"} THEN Implementation[c] ELSE NoContract

\* The implementation in the root's record, wherever the call is: a row's, or, in a
\* nested call, the explorer's.
RootImplementation(r) ==
  LET q == reader[r]
  IN IF q.nested THEN Implementation[q.root] ELSE ImplementationOf(q.root)

\* Mutant: the negative cache is asked first.
ReadRowNegativeFirst(r) ==
  /\ reader[r].at = "row"
  /\ LET c == reader[r].current
     IN IF c \in unverified THEN Returned(r, FALSE, NoContract)
        ELSE IF stored[c] # "no" THEN Returned(r, TRUE, RootImplementation(r))
        ELSE reader' = [reader EXCEPT ![r].at = "negative"]
  /\ UNCHANGED <<stored, unverified, onExplorer, page, rejections>>

\* getVerifiedContract.
ReadRow(r) ==
  /\ reader[r].at = "row"
  /\ IF stored[reader[r].current] # "no" THEN Returned(r, TRUE, RootImplementation(r))
     ELSE reader' = [reader EXCEPT ![r].at = "negative"]
  /\ UNCHANGED <<stored, unverified, onExplorer, page, rejections>>

\* The query rejects: an outer call ignores it, resolveContract and the route do not, and
\* the error's body is the response.
ReadRowFails(r) ==
  /\ reader[r].at = "row"
  /\ IF reader[r].nested THEN Returned(r, TRUE, RootImplementation(r))
     ELSE reader' = [reader EXCEPT ![r].at = "answer", ![r].answer = "error"]
  /\ UNCHANGED <<stored, unverified, onExplorer, page, rejections>>

\* The negative cache; a failed read counts as a miss.
ReadNegative(r) ==
  /\ reader[r].at = "negative"
  /\ \/ reader[r].current \in unverified /\ Returned(r, FALSE, RootImplementation(r))
     \/ reader' = [reader EXCEPT ![r].at = "fetch"]
  /\ UNCHANGED <<stored, unverified, onExplorer, page, rejections>>

\* fetchBlockscoutVerification: a record, or null, whether the contract is not there
\* or the explorer did not answer.
FetchExplorer(r) ==
  /\ reader[r].at = "fetch"
  /\ LET c == reader[r].current
     IN \/ /\ c \in onExplorer
           /\ reader' = [reader EXCEPT ![r].at = "save"]
           /\ UNCHANGED unverified
        \/ /\ Returned(r, FALSE, RootImplementation(r))
           /\ unverified' \in {unverified, unverified \cup {c}}
  /\ UNCHANGED <<stored, onExplorer, page, rejections>>

\* After the upsert of a fetched record: its implementation is fetched too.
Recurse(r) ==
  LET q == reader[r]
      f == IF q.nested \/ q.second THEN q.found ELSE TRUE
  IN IF Implementation[q.current] = NoContract THEN Returned(r, TRUE, Implementation[q.root])
     ELSE reader' = [reader EXCEPT ![r] = [q EXCEPT !.at = "row", !.found = f, !.nested = TRUE,
                                                    !.current = Implementation[q.current]]]

\* Mutant: the implementation is fetched before the row is stored.
SaveRecordLate(r) ==
  /\ reader[r].at = "save"
  /\ IF Implementation[reader[r].current] = NoContract
     THEN stored' = [stored EXCEPT ![reader[r].current] = "explorer"]
     ELSE UNCHANGED stored
  /\ Recurse(r)
  /\ UNCHANGED <<unverified, onExplorer, page, rejections>>

\* The upsert: it overwrites what was stored meanwhile.  A rejection is ignored.
SaveRecord(r) ==
  /\ reader[r].at = "save"
  /\ \/ stored' = [stored EXCEPT ![reader[r].current] = "explorer"] /\ UNCHANGED rejections
     \/ rejections < MaxRejections /\ rejections' = rejections + 1 /\ UNCHANGED stored
  /\ Recurse(r)
  /\ UNCHANGED <<unverified, onExplorer, page>>

\* The response is sent, and kept unless the cache cannot be written.
SendVerification(r) ==
  /\ reader[r].at = "answer"
  /\ reader' = [reader EXCEPT ![r].at = "done"]
  /\ \/ page' = [page EXCEPT ![reader[r].root] = [answer |-> reader[r].answer,
                                                 known |-> reader[r].known]]
     \/ UNCHANGED page
  /\ UNCHANGED <<stored, unverified, onExplorer, rejections>>

\* postVerify with a match: an upsert that knows nothing of proxies.
PostVerify(c) ==
  /\ stored' = [stored EXCEPT ![c] = IF @ \in {"explorer", "both"} THEN "both" ELSE "local"]
  /\ UNCHANGED <<unverified, onExplorer, page, reader, rejections>>

NegativeExpires(c) ==
  /\ c \in unverified
  /\ unverified' = unverified \ {c}
  /\ UNCHANGED <<stored, onExplorer, page, reader, rejections>>

\* After 30 seconds.
PageExpires(c) ==
  /\ page[c] # NoPage
  /\ page' = [page EXCEPT ![c] = NoPage]
  /\ UNCHANGED <<stored, unverified, onExplorer, reader, rejections>>

ExplorerVerifies(c) ==
  /\ onExplorer' = onExplorer \cup {c}
  /\ UNCHANGED <<stored, unverified, page, reader, rejections>>

ReaderStep(r) ==
  ReadRow(r) \/ ReadRowFails(r) \/ ReadNegative(r) \/ FetchExplorer(r) \/ SaveRecord(r)
    \/ SendVerification(r)

VerNext ==
  \/ \E r \in Readers : ReaderStep(r)
                        \/ \E c \in Contracts : ServeCached(r, c) \/ Resolve(r, c)
  \/ \E c \in Contracts : PostVerify(c) \/ NegativeExpires(c) \/ PageExpires(c)
                            \/ ExplorerVerifies(c)

\* Every await settles: the explorer's fetch has a timeout.
VerFairness == \A r \in Readers : WF_verVars(ReaderStep(r))

VerSpec == VerInit /\ [][VerNext]_verVars /\ VerFairness

-----------------------------------------------------------------------------
(* Properties. *)

\* What is stored is found: a request that begins when the contract is verified is told
\* so, or fails, whatever the negative cache still holds from before; unless the route
\* still has the response to a request that began earlier, and then only for what that
\* one was told (verifiedAbi.ts:67-83, address.route.ts:31).
VerifiedIsFound ==
  \A r \in Readers :
    reader[r].at = "done" /\ reader[r].known /\ ~reader[r].stale =>
      reader[r].answer \in {"verified", "error"}

\* A request ends, though implementations may point at each other and writes of what
\* was fetched may be lost (verifiedAbi.ts:119-126).
ResolutionEnds ==
  \A r \in Readers : reader[r].at # "idle" ~> reader[r].at = "done"
=============================================================================
