------------------------------ MODULE RpcRouter ------------------------------
(***************************************************************************)
(* How a JSON-RPC call finds an endpoint.  sendRpc (packages/rpc,          *)
(* providerRoles.ts) orders the configured providers by role and walks     *)
(* their URLs with retries; the round-robin sender (ethersMulti.ts) walks  *)
(* the header-free URL list that config builds from the environment.       *)
(*                                                                         *)
(* The two share nothing: routerVars and senderVars are separate, each     *)
(* with its Init and Next.  A call of sendRpc shares no state with others, *)
(* so one is enough; the sender's callers share its cursor.                *)
(***************************************************************************)
EXTENDS Integers, FiniteSets, Sequences, SequencesExt

CONSTANTS
  MaxUrls,        \* bound: URLs of a provider, and of an environment list
  retriesPerUrl,  \* attempts at a URL
  maxLogRange,    \* QUICKNODE_MAX_LOG_RANGE_BLOCKS
  Hosts,          \* hosts of the URLs in the environment
  Senders,        \* concurrent callers of the round-robin sender
  MaxSends        \* bound: calls of the round-robin sender

ASSUME RouterAssumption ==
  /\ MaxUrls \in Nat \ {0} /\ retriesPerUrl \in Nat \ {0} /\ maxLogRange \in Nat
  /\ MaxSends \in Nat /\ "default" \notin Hosts

None   == "none"   \* no roleHint
NoSpan == -1       \* no logRangeBlocks

VARIABLES
  conf,     \* the environment: how many URLs each provider has
  call,     \* the call's method, roleHint and logRangeBlocks
  callAt,   \* where it is
  walk,     \* its URLs, in order
  walkPos,  \* its place in the walk
  attempt,  \* its attempts at that URL
  tries,    \* history: attempts at each URL
  refused,  \* history: URLs given up on a refusal
  timedOut  \* history: URLs given up on their timeout

routerVars == <<conf, call, callAt, walk, walkPos, attempt, tries, refused, timedOut>>

VARIABLES
  env,      \* the lists in ZAN_RPC_URLS and QUICKNODE_RPC_URLS
  sharedCursor, \* the sender's shared counter
  sender,   \* each caller: its place, start and i
  asked     \* history: the URLs it has asked, in order

senderVars == <<env, sharedCursor, sender, asked>>

-----------------------------------------------------------------------------
(* Loops over a list that push to another. *)

\* Each element pushes what f has for it.
FlatMap(s, f) == FoldLeft(LAMBDA out, x : out \o f[x], <<>>, s)

Kept(s, S) == FlatMap(s, [x \in ToSet(s) |-> IF x \in S THEN <<x>> ELSE <<>>])

\* dedupeUrls, and "seen" in eligibleProviders: the first of a key stays, in order.
Dedupe(s, key) ==
  FoldLeft(LAMBDA out, x : IF \E k \in DOMAIN out : key[out[k]] = key[x]
                           THEN out ELSE Append(out, x), <<>>, s)

-----------------------------------------------------------------------------
(* Providers and roles. *)

Roles == {"bulk", "trace", "primary", "fallback"}

Known == <<"zan", "uniblock", "quicknode">>

RolesOf == [zan       |-> {"bulk"},
            uniblock  |-> {"trace", "primary"},
            quicknode |-> {"fallback"},
            default   |-> Roles]

Providers == DOMAIN RolesOf

\* buildProviders: the configured ones, or else the public default for every role.
buildProviders(c) ==
  LET configured == Kept(Known, {p \in ToSet(Known) : c[p] > 0})
  IN IF configured = <<>> THEN <<"default">> ELSE configured

UrlCount(c, p) == IF p = "default" THEN 1 ELSE c[p]

Methods == {"bulk", "logs", "trace", "other"}   \* kinds of method the routing knows

rolesForMethod(method, hint) ==
  IF hint # None
  THEN <<hint>> \o Kept(<<"primary", "bulk", "fallback">>, Roles \ {hint})
  ELSE CASE method = "trace"             -> <<"trace", "fallback">>
         [] method \in {"bulk", "logs"}  -> <<"bulk", "primary", "fallback">>
         [] OTHER                        -> <<"primary", "bulk", "fallback">>

\* Mutant: the providers are filtered in their own order, not in the roles'.
eligibleProvidersAsBuilt(c, roleOrder) ==
  Kept(buildProviders(c), {p \in Providers : RolesOf[p] \cap ToSet(roleOrder) # {}})

eligibleProviders(c, roleOrder) ==
  LET hits == [role \in Roles |->
                 Kept(buildProviders(c), {p \in Providers : role \in RolesOf[p]})]
  IN Dedupe(FlatMap(roleOrder, hits), [p \in Providers |-> p])

\* The provider's log window is too small for the call.
WindowTooSmall(c, p) ==
  c.method = "logs" /\ c.span # NoSpan /\ p = "quicknode" /\ c.span > maxLogRange

\* The URLs the loops go through, in order.
UrlsFor(c) ==
  LET urlsOf == [p \in Providers |-> IF WindowTooSmall(c, p) THEN <<>>
                                     ELSE [u \in 1 .. UrlCount(conf, p) |-> <<p, u>>]]
  IN FlatMap(eligibleProviders(conf, rolesForMethod(c.method, c.hint)), urlsOf)

-----------------------------------------------------------------------------
(* sendRpc. *)

Targets == Providers \X (1 .. MaxUrls)

NoCall == [method |-> "other", hint |-> None, span |-> NoSpan]

RouterInit ==
  /\ conf \in [ToSet(Known) -> 0 .. MaxUrls]
  /\ call = NoCall /\ callAt = "idle" /\ walk = <<>> /\ walkPos = 1 /\ attempt = 0
  /\ tries = [t \in Targets |-> 0] /\ refused = {} /\ timedOut = {}

Send(method, hint, span) ==
  /\ callAt = "idle"
  /\ method = "logs" \/ span = NoSpan
  /\ call' = [method |-> method, hint |-> hint, span |-> span]
  /\ walk' = UrlsFor(call')
  /\ callAt' = IF walk' = <<>> THEN "thrown" ELSE "post"
  /\ UNCHANGED <<conf, walkPos, attempt, tries, refused, timedOut>>

\* postJsonRpc answers with a result.
PostSucceeds ==
  /\ callAt = "post"
  /\ tries' = [tries EXCEPT ![walk[walkPos]] = @ + 1]
  /\ callAt' = "returned"
  /\ UNCHANGED <<conf, call, walk, walkPos, attempt, refused, timedOut>>

\* How an attempt fails: in a way that isRetryable recognises (rate limits, 5xx, network
\* errors); refused by the provider; or aborted by its own timeout, whose error says
\* neither "timeout" nor a status.
Failures == {"retryable", "refused", "aborted"}

\* What every failed attempt leaves.
Failed(how) ==
  LET t == walk[walkPos]
  IN /\ tries' = [tries EXCEPT ![t] = @ + 1]
     /\ refused' = IF how = "refused" THEN refused \cup {t} ELSE refused
     /\ timedOut' = IF how = "aborted" THEN timedOut \cup {t} ELSE timedOut

\* Mutant: a refusal throws at once.
PostFailsHard(how) ==
  /\ callAt = "post"
  /\ Failed(how)
  /\ IF how = "retryable" /\ attempt + 1 < retriesPerUrl
     THEN attempt' = attempt + 1 /\ UNCHANGED <<walkPos, callAt>>
     ELSE /\ attempt' = 0 /\ walkPos' = walkPos + 1
          /\ callAt' = IF how = "refused" \/ walkPos = Len(walk) THEN "thrown" ELSE "post"
  /\ UNCHANGED <<conf, call, walk>>

\* postJsonRpc throws: the same URL up to retriesPerUrl times while the failure is
\* retryable, and then, or at once, the next URL.
PostFails(how) ==
  /\ callAt = "post"
  /\ Failed(how)
  /\ IF how = "retryable" /\ attempt + 1 < retriesPerUrl
     THEN attempt' = attempt + 1 /\ UNCHANGED <<walkPos, callAt>>
     ELSE /\ attempt' = 0 /\ walkPos' = walkPos + 1
          /\ callAt' = IF walkPos = Len(walk) THEN "thrown" ELSE "post"
  /\ UNCHANGED <<conf, call, walk>>

Post == PostSucceeds \/ \E how \in Failures : PostFails(how)

RouterNext ==
  \/ \E method \in Methods, hint \in Roles \cup {None},
        span \in {NoSpan, maxLogRange, maxLogRange + 1} : Send(method, hint, span)
  \/ Post

RouterSpec == RouterInit /\ [][RouterNext]_routerVars

-----------------------------------------------------------------------------
(* The round-robin sender over L2_RPC_URLS. *)

Urls == [host : Hosts, slashes : 0 .. 1]

DefaultUrl == [host |-> "default", slashes |-> 0]

\* mergeRpcUrls: ZAN, QuickNode, the public endpoint; equal but for trailing
\* slashes is equal.
L2_RPC_URLS == Dedupe(env.zan \o env.quicknode \o <<DefaultUrl>>,
                      [u \in Urls \cup {DefaultUrl} |-> u.host])

N == Len(L2_RPC_URLS)

SenderInit ==
  /\ env \in [zan : SeqOf(Urls, MaxUrls), quicknode : SeqOf(Urls, MaxUrls)]
  /\ sharedCursor = 0
  /\ sender = [s \in Senders |-> [at |-> "idle", start |-> 0, i |-> 0]]
  /\ asked = [s \in Senders |-> <<>>]

SenderSend(s) ==
  /\ sender[s].at \in {"idle", "returned", "thrown"}
  /\ sharedCursor < MaxSends
  /\ sharedCursor' = sharedCursor + 1
  /\ sender' = [sender EXCEPT ![s] = [at |-> "ask", start |-> sharedCursor % N, i |-> 0]]
  /\ asked' = [asked EXCEPT ![s] = <<>>]
  /\ UNCHANGED env

SenderAsk(s, ok) ==
  /\ sender[s].at = "ask"
  /\ LET i == sender[s].i
     IN /\ asked' = [asked EXCEPT ![s] = Append(@, L2_RPC_URLS[((sender[s].start + i) % N) + 1])]
        /\ sender' = [sender EXCEPT ![s].i = i + 1,
                                    ![s].at = IF ok THEN "returned"
                                              ELSE IF i + 1 < N THEN "ask" ELSE "thrown"]
  /\ UNCHANGED <<env, sharedCursor>>

SenderNext ==
  \E s \in Senders : SenderSend(s) \/ \E ok \in BOOLEAN : SenderAsk(s, ok)

SenderSpec == SenderInit /\ [][SenderNext]_senderVars

-----------------------------------------------------------------------------
(* Properties. *)

\* A failed send has asked every endpoint of the merged list once, though other
\* callers moved the cursor meanwhile, and an endpoint that is configured twice, with
\* and without a slash, counts once (ethersMulti.ts:74-87, constants.ts:19-30).
SenderCoversAll ==
  \A s \in Senders : sender[s].at = "thrown" =>
    /\ ToSet(asked[s]) = ToSet(L2_RPC_URLS)
    /\ {u.host : u \in ToSet(asked[s])} =
         {u.host : u \in ToSet(env.zan) \cup ToSet(env.quicknode)} \cup {"default"}
    /\ Len(asked[s]) = Cardinality({u.host : u \in ToSet(asked[s])})

\* A URL of a configured provider that has a role in the call's order and a window
\* that is large enough.
Eligible(t) ==
  /\ t[1] \in ToSet(buildProviders(conf)) /\ t[2] <= UrlCount(conf, t[1])
  /\ \E role \in ToSet(rolesForMethod(call.method, call.hint)) : role \in RolesOf[t[1]]
  /\ ~WindowTooSmall(call, t[1])

\* It has had all its attempts, or one was refused or timed out.
GivenUp(t) == tries[t] = retriesPerUrl \/ t \in refused \cup timedOut

\* In an order of roles, p has one that comes before those of q.
Prefers(order, p, q) ==
  \E k \in DOMAIN order : /\ order[k] \in RolesOf[p]
                          /\ \A l \in 1 .. k : order[l] \notin RolesOf[q]

\* A call that throws has given up every URL that could serve it, of every list in the
\* environment, and no URL is ever tried more often than configured, though a provider
\* may be reached by several roles (providerRoles.ts:170-186 and 292-301).  A URL that
\* timed out is given up at once, though "timeouts" are to be retried by the comment at
\* providerRoles.ts:231-233.  The round-robin sender gives up no earlier.
ThrowsAfterAll ==
  /\ \A t \in Targets : tries[t] <= retriesPerUrl
  /\ callAt = "thrown" => \A t \in Targets : Eligible(t) => GivenUp(t)
  /\ SenderCoversAll

\* A provider is asked only when every URL of the providers that the call prefers to it
\* is given up, whatever fails and however the environment lists them: so a trace asks
\* for traces where they are served before it degrades (providerRoles.ts:128-135 and
\* 158-164).  It does degrade to ZAN, though comments say "never ZAN" of the hint that
\* every trace is sent with (providerRoles.ts:133, stateChanges.controller.ts:151-152).
PreferredFirst ==
  LET order == rolesForMethod(call.method, call.hint)
  IN \A t, u \in Targets :
       tries[u] # 0 /\ Eligible(t) /\ Prefers(order, t[1], u[1]) => GivenUp(t)
=============================================================================
