------------------------------ MODULE PagedReads ------------------------------
(***************************************************************************)
(* The paged lists: the API's list handlers (apps/api/src/controllers,     *)
(* with utils/pagination.ts, utils/count.ts and middlewares/cache.ts), the *)
(* web's fetch helpers (apps/web/lib/api.ts), its list pages and           *)
(* components/Pagination.tsx.  A visitor walks a list from its first page  *)
(* by "Next" while the indexer changes the table underneath, and each page *)
(* may come from a cache.                                                  *)
(***************************************************************************)
EXTENDS Integers, Sequences, SequencesExt, FiniteSets

CONSTANTS
  EXPLORER_LIST_CAP,  \* rows a list admits to (500000 in the code)
  Sizes,              \* sizes of the table when the visit begins
  Inserts,            \* where a new row may come in, besides the end
  StoredTotals,       \* what a token's transferCount may say: transfers that another
                      \* process stored are not in it, and a repeated poll counts twice
  MaxChanges,         \* bound: changes of the table
  MaxPages            \* bound: the last page that anybody asks for

ASSUME PagedReadsAssumption ==
  /\ EXPLORER_LIST_CAP \in Nat \ {0} /\ MaxChanges \in Nat /\ MaxPages \in Nat \ {0}
  /\ Sizes \subseteq Nat \ {0} /\ Inserts \subseteq Nat \ {0} /\ StoredTotals \subseteq Nat

-----------------------------------------------------------------------------
(* The handlers.  limit and maxLimit: their parsePagination; count: "rows"  *)
(* are counted, or the token's "stored" transferCount is given; moves: the  *)
(* order is a ranking or leaves ties, so that rows change places.  All read *)
(* the rows and the count in either order: beside each other, or, in        *)
(* listTokens and listTokenHolders, the count first when their own table    *)
(* has rows, and after the rows, or beside them, when it has none yet.      *)

listLatestBlocks == [limit |-> 20, maxLimit |-> 100, count |-> "rows", moves |-> FALSE]
listLatestTransactions == [listLatestBlocks EXCEPT !.limit = 15, !.maxLimit = 50]
\* Ordered by the L1 block alone, which several messages share.
listL1ToL2Transactions == [listLatestTransactions EXCEPT !.moves = TRUE]
listTransactionsByAddress == listLatestBlocks
listTokenTransfersByAddress == [listLatestBlocks EXCEPT !.limit = 25]
listNftTransfersByAddress == [listLatestBlocks EXCEPT !.limit = 25]
\* Ordered by block and trace path, which the transactions of a block share.
listAddressInternalTransactions == [listLatestBlocks EXCEPT !.limit = 25, !.moves = TRUE]
listOtherTransactionsByAddress == [listLatestBlocks EXCEPT !.limit = 25]
listAddressEvents == [listLatestBlocks EXCEPT !.limit = 25]
\* Ranked by balance.
listAddressTokenHoldings == [listLatestBlocks EXCEPT !.limit = 25, !.moves = TRUE]
\* Ranked by transfers.
listTokens == [listLatestBlocks EXCEPT !.limit = 25, !.moves = TRUE]
listTokenTransfers == [listLatestBlocks EXCEPT !.limit = 25, !.count = "stored"]
\* Ranked by balance.
listTokenHolders == [listLatestBlocks EXCEPT !.limit = 25, !.moves = TRUE]

-----------------------------------------------------------------------------
(* The web's lists: the handler, the rows asked per page, whether the       *)
(* number of pages comes from the answer's limit or from the page's own,    *)
(* and whether an unreachable API shows an error or an empty list.          *)

Page(handler) == [handler |-> handler, asks |-> 25, divides |-> "answered", failure |-> "error"]
Section(handler) == [handler |-> handler, asks |-> 25, divides |-> "asked", failure |-> "empty"]

AllBlocksPage == Page(listLatestBlocks)
AllTransactionsPage == Page(listLatestTransactions)
AllL1ToL2Page == Page(listL1ToL2Transactions)
TokensPage == Page(listTokens)
AddressPage == [Page(listTransactionsByAddress) EXCEPT !.divides = "asked"]
TokenTransfersTab == Page(listTokenTransfers)
TokenHoldersTab == [Page(listTokenHolders) EXCEPT !.asks = 100]
AddressTokenTransfersSection == Section(listTokenTransfersByAddress)
AddressNftTransfersSection == Section(listNftTransfersByAddress)
AddressInternalTxSection == Section(listAddressInternalTransactions)
AddressOtherTxSection == Section(listOtherTransactionsByAddress)
AddressEventsSection == Section(listAddressEvents)
AddressTokenHoldingsSection == Section(listAddressTokenHoldings)

Lists ==
  {AllBlocksPage, AllTransactionsPage, AllL1ToL2Page, TokensPage, AddressPage,
   TokenTransfersTab, TokenHoldersTab, AddressTokenTransfersSection,
   AddressNftTransfersSection, AddressInternalTxSection, AddressOtherTxSection,
   AddressEventsSection, AddressTokenHoldingsSection}

VARIABLES
  list,       \* the list the visitor walks
  versions,   \* the table as it has been, newest last: its rows in order, numbered at
              \* first from 1 and then downwards from -1 as they come, and whether the
              \* change that made it left the earlier rows in place or further down
  fetching,   \* the request under way: see NoFetch
  pageCache,  \* [page -> NoAnswer, ErrorBody, or an answer: its rows' version and total]
  visit       \* what the visitor has seen: see NoVisit

pagesVars == <<list, versions, fetching, pageCache, visit>>

NoFetch == [page |-> 0, rows |-> 0, count |-> -1]
NoAnswer == [rows |-> 0, total |-> 0]
\* An error's body, which cacheMiddleware keeps like any other: it is answered as a
\* success, without rows or a total.
ErrorBody == [rows |-> 0, total |-> -1]
\* page: the one shown; first, last: the versions its first and last pages were read
\* from; ordered: no page came from an older version than the page before it.
NoVisit == [page |-> 0, first |-> 0, last |-> 0, ordered |-> TRUE, seen |-> {}, total |-> 0]

Pages == 1..MaxPages

PagesInit ==
  /\ list \in Lists
  /\ versions \in {<<[rows |-> [i \in 1..n |-> i], settled |-> TRUE]>> : n \in Sizes}
  /\ fetching = NoFetch
  /\ pageCache = [p \in Pages |-> NoAnswer]
  /\ visit = NoVisit

Least(a, b) == IF a < b THEN a ELSE b

\* Mutant: a limit asked for is clamped to the default.
ParsePaginationDefault(h, asked) == Least(asked, h.limit)

\* The limit a handler uses for the one it is asked (0: none).
parsePagination(h, asked) == Least(IF asked = 0 THEN h.limit ELSE asked, h.maxLimit)

\* Pagination: the pages there are for a total, at least one.
totalPages(l, total) ==
  LET limit == IF l.divides = "answered" THEN parsePagination(l.handler, l.asks) ELSE l.asks
      pages == (total + limit - 1) \div limit
  IN IF pages = 0 THEN 1 ELSE pages

\* The rows of a page: take and skip over the ordered table.
RowsShown(l, p, rows) ==
  LET offset == (p - 1) * l.asks
      limit == parsePagination(l.handler, l.asks)
  IN {rows[i] : i \in (offset + 1)..Least(offset + limit, Len(rows))}

Rows == Last(versions).rows
hasNext == visit.page < totalPages(list, visit.total)

-----------------------------------------------------------------------------
(* The table.                                                               *)

Change(rows, settled) ==
  /\ Len(versions) <= MaxChanges
  /\ versions' = Append(versions, [rows |-> rows, settled |-> settled])
  /\ UNCHANGED <<list, fetching, pageCache, visit>>

\* The indexer stores a row: the newest one, or an older one when a backfill does.
InsertRow ==
  \E i \in (Inserts \cap 1..Len(Rows)) \cup {Len(Rows) + 1} :
    Change(InsertAt(Rows, i, -Len(versions)), TRUE)

\* In a ranking a row rises or leaves; tied rows are returned in another order.
MoveRow ==
  /\ list.handler.moves /\ Rows # <<>>
  /\ \/ Change(InsertAt(RemoveAt(Rows, Len(Rows)), 1, Last(Rows)), FALSE)
     \/ Change(Tail(Rows), FALSE)

-----------------------------------------------------------------------------
(* A request.                                                               *)

\* apiFetch finds no cached answer, and neither does cacheMiddleware; another
\* visitor's request counts as well.
Fetch(p) ==
  /\ fetching = NoFetch /\ pageCache[p] = NoAnswer
  /\ fetching' = [NoFetch EXCEPT !.page = p]
  /\ UNCHANGED <<list, versions, pageCache, visit>>

ReadRows ==
  /\ fetching.page # 0 /\ fetching.rows = 0
  /\ fetching' = [fetching EXCEPT !.rows = Len(versions)]
  /\ UNCHANGED <<list, versions, pageCache, visit>>

\* cappedCount and the handlers' own counts; or the count stored with the token, which
\* is counted like the others while the token has no row.
ReadCount ==
  /\ fetching.page # 0 /\ fetching.count < 0
  /\ \/ fetching' = [fetching EXCEPT !.count = Len(Rows)]
     \/ /\ list.handler.count = "stored"
        /\ \E total \in StoredTotals : fetching' = [fetching EXCEPT !.count = total]
  /\ UNCHANGED <<list, versions, pageCache, visit>>

\* The envelope is answered, and cached on its way out.
Respond ==
  /\ fetching.rows # 0 /\ fetching.count >= 0
  /\ pageCache' = [pageCache EXCEPT ![fetching.page] =
       [rows |-> fetching.rows, total |-> Least(fetching.count, EXPLORER_LIST_CAP)]]
  /\ fetching' = NoFetch
  /\ UNCHANGED <<list, versions, visit>>

\* A cache drops the answer: its seconds are over, or a Redis call failed.
Drop(p) ==
  /\ pageCache[p] # NoAnswer
  /\ pageCache' = [pageCache EXCEPT ![p] = NoAnswer]
  /\ UNCHANGED <<list, versions, fetching, visit>>

\* The API fails, and its error is kept, or it cannot be reached: a page says so and
\* the visitor may try again, a section shows an empty list without a way on.
FetchFails ==
  /\ fetching.page # 0
  /\ fetching' = NoFetch
  /\ IF list.failure = "empty" /\ fetching.page = visit.page + 1 /\ (visit.page = 0 \/ hasNext)
     THEN visit' = [visit EXCEPT !.page = @ + 1, !.total = 0]
     ELSE UNCHANGED visit
  /\ pageCache' \in {pageCache, [pageCache EXCEPT ![fetching.page] = ErrorBody]}
  /\ UNCHANGED <<list, versions>>

-----------------------------------------------------------------------------
(* The visitor.                                                             *)

\* The first page is opened, or "Next" where Pagination offers it.
ShowPage ==
  LET p == visit.page + 1 answer == pageCache[p] IN
  /\ visit.page = 0 \/ hasNext
  /\ p \in Pages /\ answer \notin {NoAnswer, ErrorBody}
  /\ visit' = [page |-> p,
               first |-> IF p = 1 THEN answer.rows ELSE visit.first,
               last |-> answer.rows,
               ordered |-> visit.ordered /\ visit.last <= answer.rows,
               seen |-> visit.seen \cup RowsShown(list, p, versions[answer.rows].rows),
               total |-> answer.total]
  /\ UNCHANGED <<list, versions, fetching, pageCache>>

\* A kept error: a page throws on it, a section takes it for an empty list.
ShowNothing ==
  /\ list.failure = "empty" /\ (visit.page = 0 \/ hasNext)
  /\ visit.page + 1 \in Pages /\ pageCache[visit.page + 1] = ErrorBody
  /\ visit' = [visit EXCEPT !.page = @ + 1, !.total = 0]
  /\ UNCHANGED <<list, versions, fetching, pageCache>>

PagesNext ==
  \/ InsertRow \/ MoveRow
  \/ \E p \in Pages : Fetch(p) \/ Drop(p)
  \/ ReadRows \/ ReadCount \/ Respond \/ FetchFails
  \/ ShowPage \/ ShowNothing

PagesSpec == PagesInit /\ [][PagesNext]_pagesVars

-----------------------------------------------------------------------------
(* Properties.                                                              *)

\* A visitor who walks a list to its last page (Pagination.tsx) sees every row that
\* was in it when the walk began, however many rows the indexer stores meanwhile,
\* with the rows and the total of a page read apart and pages from different moments,
\* on four conditions, without which the handlers let rows slip: within the cap; no row
\* rose or left between the pages shown (a ranking's do); no page came from a cache
\* filled before the page preceding it; and the last total was not less than the rows
\* it stands beside (counted earlier, or a transferCount that is short).  An error,
\* kept or not, may end the walk, and then no total says that it is done.
WalkComplete ==
  LET first == versions[visit.first].rows last == versions[visit.last].rows IN
  visit.page > 0 /\ visit.first > 0 /\ ~hasNext /\ visit.ordered
    /\ (\A v \in (visit.first + 1)..visit.last : versions[v].settled)
    /\ visit.total >= Least(EXPLORER_LIST_CAP, Len(last))
  => {last[i] : i \in 1..Least(EXPLORER_LIST_CAP, Len(last))} \cap ToSet(first)
       \subseteq visit.seen
=============================================================================
