---------------------------- MODULE TokenMetadata ----------------------------
(***************************************************************************)
(* Names, symbols and logos of tokens, on the indexer's side: the loop of  *)
(* apps/indexer/src/index.ts that drains the Token rows without a name     *)
(* with an adaptive pace and a backoff (services/metadataBackoff.ts,       *)
(* tokenMetadataResolver.ts), the health snapshot it publishes to Redis    *)
(* for the API (metadataStatus.ts), and the logos' script.                 *)
(***************************************************************************)
EXTENDS Integers, FiniteSets, FiniteSetsExt

CONSTANTS
  Tokens,        \* token contracts
  Exposed,       \* [Tokens -> SUBSET Fields]: the methods a contract implements
  Limit,         \* tokens of a pass
  IdleInterval,  \* TOKEN_METADATA_IDLE_INTERVAL_MS, in ticks
  BusyInterval,  \* TOKEN_METADATA_BUSY_INTERVAL_MS
  BackoffMax,    \* TOKEN_METADATA_BACKOFF_MAX_MS
  MaxLevel,      \* TOKEN_METADATA_BACKOFF_MAX_LEVEL
  StatusTtl,     \* METADATA_STATUS_TTL_S
  MaxCrashes     \* bound: ends of the process

Fields == {"name", "symbol", "decimals"}

ASSUME MetadataAssumption ==
  /\ IsFiniteSet(Tokens) /\ Exposed \in [Tokens -> SUBSET Fields]
  /\ Limit \in Nat \ {0}
  /\ {IdleInterval, BusyInterval, BackoffMax, MaxLevel, StatusTtl, MaxCrashes} \subseteq Nat
  /\ BusyInterval <= IdleInterval /\ IdleInterval <= BackoffMax
  /\ BackoffMax < StatusTtl

VARIABLES
  known,     \* tokens with a Token row
  meta,      \* the columns of a row that are not NULL
  logo,      \* logoUrl: "unchecked" (NULL), "none" (empty) or "url"
  loopAt,    \* where the loop is: "down", "timer", "pass"
  todo,      \* tokens left of the pass
  outcome,   \* its processed and resolved
  level,     \* metadataBackoffLevel
  wait,      \* ticks until the timer fires
  took,      \* history: ticks of the pass so far, counted up to StatusTtl
  status,    \* Redis: the published level, and its age
  crashes,
  script,    \* the logo script: what is left of its page
  published  \* history: the last pass of this process reached Redis

metaVars == <<known, meta, logo, loopAt, todo, outcome, level, wait, took, status, crashes,
              script, published>>

NoStatus == [level |-> -1, age |-> 0]

MetaInit ==
  /\ known \in SUBSET Tokens
  /\ meta = [t \in Tokens |-> {}] /\ logo = [t \in Tokens |-> "unchecked"]
  /\ loopAt = "down" /\ todo = {} /\ outcome = [processed |-> 0, resolved |-> 0]
  /\ level = 0 /\ wait = 0 /\ took = 0 /\ status = NoStatus /\ crashes = 0
  /\ script = {} /\ published = FALSE

-----------------------------------------------------------------------------
(* metadataBackoff.ts. *)

Lesser(a, b) == IF a < b THEN a ELSE b

\* tokenMetadataPlan: a backlog is worked on faster.
Plan(backlog) == IF backlog > 0 THEN BusyInterval ELSE IdleInterval

\* Mutant: the ceiling is applied to the base, not to the product.
applyMetadataBackoffUncapped(base, l) ==
  IF l <= 0 THEN base ELSE Lesser(base, BackoffMax) * 2 ^ l

applyMetadataBackoff(base, l) ==
  IF l <= 0 THEN base ELSE Lesser(base * 2 ^ l, BackoffMax)

nextMetadataBackoffLevel(l, processed, resolved, threw) ==
  IF threw \/ (processed > 0 /\ resolved = 0) THEN Lesser(l + 1, MaxLevel) ELSE 0

-----------------------------------------------------------------------------
(* The loop. *)

\* "finally": the snapshot (best effort), and the next timer.
PassOver(l, delay) ==
  /\ level' = l
  /\ wait' = delay /\ took' = 0
  /\ loopAt' = "timer"
  /\ todo' = {}
  /\ published' \in BOOLEAN
  /\ status' = IF published' THEN [level |-> l, age |-> 0] ELSE status

\* main starts the loop.
LoopStart ==
  /\ loopAt = "down"
  /\ loopAt' = "timer" /\ wait' = 0 /\ level' = 0
  /\ published' = FALSE
  /\ UNCHANGED <<known, meta, logo, todo, outcome, took, status, crashes, script>>

\* Mutant: a pass is about every token without a symbol.
PendingSymbol == {t \in known : "symbol" \notin meta[t]}

\* The rows whose name is NULL.
Pending == {t \in known : "name" \notin meta[t]}

\* countPendingTokenMetadata throws; or nothing is pending; or a page of what is, in
\* no particular order.
PassBegin ==
  /\ loopAt = "timer" /\ wait = 0
  /\ outcome' = [processed |-> 0, resolved |-> 0]
  /\ \/ LET l == nextMetadataBackoffLevel(level, 0, 0, TRUE)
        IN PassOver(l, applyMetadataBackoff(BusyInterval, l))
     \/ Pending = {} /\ PassOver(0, Plan(0))
     \/ /\ Pending # {}
        /\ todo' \in kSubset(Lesser(Limit, Cardinality(Pending)), Pending)
        /\ loopAt' = "pass"
        /\ UNCHANGED <<level, wait, took, status, published>>
  /\ UNCHANGED <<known, meta, logo, crashes, script>>

\* fetchTokenLogoUrl: its answer, or null.
LogoAnswers == {"url", "none", "unchecked"}

\* "null = leave unchecked": null is not written.
LogoAfter(t, answer) == IF answer = "unchecked" THEN logo[t] ELSE answer

\* resolveTokenMetadata: each eth_call may miss; the upsert writes all four columns.
ResolveToken(t) ==
  /\ loopAt = "pass" /\ t \in todo
  /\ \E got \in SUBSET Exposed[t], answer \in LogoAnswers :
       /\ meta' = [meta EXCEPT ![t] = got]
       /\ logo' = [logo EXCEPT ![t] = LogoAfter(t, answer)]
       /\ outcome' = [processed |-> outcome.processed + 1,
                      resolved  |-> outcome.resolved +
                                    IF {"name", "symbol"} \cap got # {} THEN 1 ELSE 0]
  /\ todo' = todo \ {t}
  /\ UNCHANGED <<known, loopAt, level, wait, took, status, crashes, script, published>>

\* The pass ends, or its upsert threw.
PassEnd ==
  /\ loopAt = "pass"
  /\ \/ todo = {} /\
        LET l == nextMetadataBackoffLevel(level, outcome.processed, outcome.resolved, FALSE)
        IN PassOver(l, applyMetadataBackoff(Plan(1), l))
     \/ todo # {} /\
        LET l == nextMetadataBackoffLevel(level, 0, 0, TRUE)
        IN PassOver(l, applyMetadataBackoff(BusyInterval, l))
  /\ UNCHANGED <<known, meta, logo, outcome, crashes, script>>

IndexerDies ==
  /\ loopAt # "down" /\ crashes < MaxCrashes
  /\ crashes' = crashes + 1
  /\ loopAt' = "down" /\ todo' = {} /\ wait' = 0 /\ took' = 0
  /\ published' = FALSE
  /\ UNCHANGED <<known, meta, logo, outcome, level, status, script>>

\* A tick of the timer, or of a pass, which takes as long as its calls do; Redis drops
\* a snapshot at its TTL.
Tick ==
  /\ loopAt # "timer" \/ wait > 0
  /\ wait' = IF wait > 0 THEN wait - 1 ELSE 0
  /\ took' = IF loopAt = "pass" THEN Lesser(took + 1, StatusTtl) ELSE 0
  /\ status' = IF status = NoStatus \/ status.age + 1 >= StatusTtl THEN NoStatus
               ELSE [status EXCEPT !.age = @ + 1]
  /\ UNCHANGED <<known, meta, logo, loopAt, todo, outcome, level, crashes, script,
                 published>>

\* saveTokenTransfers creates the row of a token it has not seen.
NewToken(t) ==
  /\ t \notin known
  /\ known' = known \cup {t}
  /\ UNCHANGED <<meta, logo, loopAt, todo, outcome, level, wait, took, status, crashes,
                 script, published>>

-----------------------------------------------------------------------------
(* scripts/backfillTokenLogos.ts. *)

Unchecked == {t \in known : logo[t] = "unchecked"}

\* The next page of rows without a logo, at the start and while there is one.
LogoPage ==
  /\ script = {} /\ Unchecked # {}
  /\ script' = Unchecked
  /\ UNCHANGED <<known, meta, logo, loopAt, todo, outcome, level, wait, took, status, crashes,
                 published>>

\* A row of the page, whatever the resolver has done to it since.
LogoRow(t) ==
  /\ t \in script
  /\ \E answer \in LogoAnswers : logo' = [logo EXCEPT ![t] = LogoAfter(t, answer)]
  /\ script' = script \ {t}
  /\ UNCHANGED <<known, meta, loopAt, todo, outcome, level, wait, took, status, crashes,
                 published>>

MetaNext ==
  \/ LoopStart \/ PassBegin \/ PassEnd \/ IndexerDies \/ Tick \/ LogoPage
  \/ \E t \in Tokens : ResolveToken(t) \/ NewToken(t) \/ LogoRow(t)

MetaSpec == MetaInit /\ [][MetaNext]_metaVars

-----------------------------------------------------------------------------
(* Properties. *)

\* While the indexer runs, a snapshot that reached Redis is there until the next one
\* and tells the level of the loop, through the longest backoff and what the TTL leaves
\* of the pass after it.  A pass that takes longer outlasts it, and the API then says
\* that the indexer is not publishing (tokens.controller.ts:471-472).
StatusOutlasts ==
  loopAt # "down" /\ published =>
    /\ BackoffMax + took < StatusTtl => status # NoStatus
    /\ status # NoStatus => status.level = level

\* What was found out stays: a name, as only rows without one are resolved again and
\* passes do not overlap; a logo that was checked, through failed fetches of the
\* resolver and of the script beside it (tokenLogoResolver.ts:12-17).
ResolvedStays ==
  [][\A t \in Tokens :
       /\ "name" \in meta[t] => "name" \in meta'[t]
       /\ logo[t] # "unchecked" => logo'[t] # "unchecked"]_metaVars
=============================================================================
