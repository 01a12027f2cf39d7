------------------------------ MODULE ChainReads ------------------------------
(***************************************************************************)
(* What the API reads from the chain and from the signature database, and  *)
(* keeps in Redis (apps/api: utils/tokenResolver.ts, isContract.ts,        *)
(* contractType.ts, standardReadAbi.ts, methodResolver.ts, inputDecoder.ts *)
(* and eventDecoder.ts): every read may fail, each entry is kept 30 days   *)
(* or a short while, and requests for one key run side by side.            *)
(***************************************************************************)
EXTENDS Integers, FiniteSets

CONSTANTS
  Addresses,   \* token-like addresses that requests are about
  Answers,     \* [Addresses -> SUBSET TokenFields]: what the contract there answers
  Nfts,        \* the addresses whose contract says over ERC-165 that it is an NFT
  Wants        \* [clients -> what their requests ask for]: see Ask

Clients == DOMAIN Wants
TokenFields == {"name", "symbol", "decimals"}

\* The three users of the signature database: a method's label, a call's
\* arguments, an event's parameters.
Lookups == {"method", "input", "event"}

ASSUME ChainReadsAssumption ==
  /\ Answers \in [Addresses -> SUBSET TokenFields]
  /\ Nfts \subseteq Addresses
  /\ \A c \in Clients : Wants[c] \subseteq {"list", "detail", "type", "standard"}

VARIABLES
  deployed,    \* addresses that have code
  isContract,  \* hoodscan:iscontract: "none", "yes" or "no"
  tokenCache,  \* hoodscan:token: NoEntry, or the fields found and whether it is kept long
  typeCache,   \* hoodscan:ctype: "none", "nft" or "other"
  standard,    \* hoodscan:readstd: "none", "nft", "erc20" or "unknown"
  listed,      \* whether the signature database knows the selector
  signature,   \* [Lookups -> "none", "found" or "missing"]
  client,      \* each request: see Idle
  asking       \* each request to the signature database: see NotAsking

chainVars == <<deployed, isContract, tokenCache, typeCache, standard, client>>
signatureVars == <<listed, signature, asking>>

NoEntry == [fields |-> {}, long |-> FALSE, present |-> FALSE]
Entry(fields) == [fields |-> fields, long |-> {"name", "symbol"} \subseteq fields, present |-> TRUE]

\* base: the cached fields a heal starts from; live: the address had code when a
\* detail request began; missed: a read of this request failed, or a stale "no" was used.
Idle == [at |-> "idle", want |-> "none", addr |-> "none", base |-> {}, got |-> {},
         live |-> FALSE, missed |-> FALSE]

ChainInit ==
  /\ deployed \in SUBSET Addresses
  /\ isContract = [a \in Addresses |-> "none"]
  /\ tokenCache = [a \in Addresses |-> NoEntry]
  /\ typeCache = [a \in Addresses |-> "none"]
  /\ standard = [a \in Addresses |-> "none"]
  /\ client = [c \in Clients |-> Idle]

\* What the chain answers at an address now, and what a standard is inferred from.
OnChain(a) == IF a \in deployed THEN Answers[a] ELSE {}
Moves(c, changes) == client' = [client EXCEPT ![c] = changes]
At(c, at) == client[c].at = at

-----------------------------------------------------------------------------
(* Requests for tokens and contracts.                                       *)

\* "list": getTokenMetadata(a, false); "detail": getTokenMetadata(a, true);
\* "type": getContractType(a, true); "standard": detectReadStandard(a).
Ask(c, want, a) ==
  /\ client[c].at \in {"idle", "answered"} /\ want \in Wants[c]
  /\ Moves(c, [Idle EXCEPT !.want = want, !.addr = a, !.live = want = "detail" /\ a \in deployed,
       !.at = CASE want \in {"list", "detail"} -> "token" [] want = "type" -> "type"
                [] want = "standard" -> "standard"])
  /\ UNCHANGED <<deployed, isContract, tokenCache, typeCache, standard>>

\* What a client that has its token metadata does: a standard's detection goes on.
Answered(c, fields) ==
  CASE client[c].want = "standard" ->
         [client[c] EXCEPT !.at = "infer", !.base = {}, !.got = fields, !.missed = FALSE]
    [] client[c].want = "detail" ->
         [client[c] EXCEPT !.at = "answered", !.base = {}, !.got = fields]
    [] client[c].want = "list" -> Idle

-----------------------------------------------------------------------------
(* getTokenMetadata.                                                        *)

\* The cache is read: an entry with every field answers, and any entry answers a
\* list; so does an absent one. A Redis that fails reads as an absent entry.
TokenRead(c) ==
  LET q == client[c] cached == tokenCache[q.addr] remote == q.want # "list" IN
  /\ q.at = "token"
  /\ \/ /\ cached.present
        /\ Moves(c, IF cached.fields = TokenFields \/ ~remote THEN Answered(c, cached.fields)
                    ELSE [q EXCEPT !.at = "heal", !.base = cached.fields])
     \/ Moves(c, IF remote THEN [q EXCEPT !.at = "code"] ELSE Answered(c, {}))
  /\ UNCHANGED <<deployed, isContract, tokenCache, typeCache, standard>>

\* Mutant: a failed eth_getCode is cached as a contract.
IsContractGuess(c) ==
  LET q == client[c] IN
  /\ q.at = "code"
  /\ \/ /\ isContract[q.addr] = "no"
        /\ Moves(c, [Answered(c, {}) EXCEPT !.missed = q.want = "detail"])
        /\ UNCHANGED isContract
     \/ /\ isContract[q.addr] = "none" /\ q.addr \notin deployed
        /\ isContract' = [isContract EXCEPT ![q.addr] = "no"]
        /\ Moves(c, Answered(c, {}))
     \/ /\ isContract[q.addr] # "no"
        /\ isContract' = [isContract EXCEPT ![q.addr] = "yes"]
        /\ Moves(c, [q EXCEPT !.at = "probe"])
  /\ UNCHANGED <<deployed, tokenCache, typeCache, standard>>

\* isContractAddress(a, true): an entry answers, or eth_getCode, whose failure is
\* not cached; only a definite "no" ends the request, with three nulls.
IsContract(c) ==
  LET q == client[c] IN
  /\ q.at = "code"
  /\ \/ /\ isContract[q.addr] = "no"
        /\ Moves(c, [Answered(c, {}) EXCEPT !.missed = q.want = "detail"])
        /\ UNCHANGED isContract
     \/ /\ isContract[q.addr] = "none" /\ q.addr \notin deployed
        /\ isContract' = [isContract EXCEPT ![q.addr] = "no"]
        /\ Moves(c, Answered(c, {}))
     \/ /\ isContract[q.addr] = "yes" \/ q.addr \in deployed
        /\ isContract' = [isContract EXCEPT ![q.addr] = "yes"]
        /\ Moves(c, [q EXCEPT !.at = "probe"])
     \/ /\ isContract[q.addr] = "none"
        /\ Moves(c, [q EXCEPT !.at = "probe", !.missed = TRUE])
        /\ UNCHANGED isContract
  /\ UNCHANGED <<deployed, tokenCache, typeCache, standard>>

\* name, symbol and decimals are read side by side, and a failed one is null.
TokenProbe(c) ==
  LET q == client[c] IN
  /\ q.at = "probe"
  /\ \E got \in SUBSET OnChain(q.addr) :
       Moves(c, [q EXCEPT !.at = "write", !.got = got,
                          !.missed = @ \/ got # OnChain(q.addr)])
  /\ UNCHANGED <<deployed, isContract, tokenCache, typeCache, standard>>

\* The answer is cached whatever it is.
TokenWrite(c) ==
  LET q == client[c] IN
  /\ q.at = "write"
  /\ tokenCache' = [tokenCache EXCEPT ![q.addr] = Entry(q.got)]
  /\ Moves(c, Answered(c, q.got))
  /\ UNCHANGED <<deployed, isContract, typeCache, standard>>

\* Mutant: only decimals is read again.
HealDecimals(c) ==
  LET q == client[c] again == (OnChain(q.addr) \cap {"decimals"}) \ q.base IN
  /\ q.at = "heal"
  /\ \E got \in SUBSET again :
       Moves(c, [q EXCEPT !.at = "healed", !.got = got, !.missed = @ \/ got # again])
  /\ UNCHANGED <<deployed, isContract, tokenCache, typeCache, standard>>

\* Each field the entry lacks is read again.
Heal(c) ==
  LET q == client[c] again == OnChain(q.addr) \ q.base IN
  /\ q.at = "heal"
  /\ \E got \in SUBSET again :
       Moves(c, [q EXCEPT !.at = "healed", !.got = got, !.missed = @ \/ got # again])
  /\ UNCHANGED <<deployed, isContract, tokenCache, typeCache, standard>>

\* The merged entry is written over whatever is there, if it improved on its base.
HealWrite(c) ==
  LET q == client[c] IN
  /\ q.at = "healed"
  /\ IF q.got # {} THEN tokenCache' = [tokenCache EXCEPT ![q.addr] = Entry(q.base \cup q.got)]
     ELSE UNCHANGED tokenCache
  /\ Moves(c, Answered(c, q.base \cup q.got))
  /\ UNCHANGED <<deployed, isContract, typeCache, standard>>

-----------------------------------------------------------------------------
(* getContractType and detectReadStandard.                                  *)

\* A probe that fails is taken for a contract without the interface.
ContractType(c) ==
  LET q == client[c]
      next(t) == CASE q.want = "type" -> Idle
                   [] q.want = "standard" /\ t = "nft" -> [q EXCEPT !.at = "infer", !.base = {"nft"}]
                   [] q.want = "standard" /\ t # "nft" -> [q EXCEPT !.at = "token"]
  IN /\ q.at = "type"
     /\ \/ /\ typeCache[q.addr] # "none"
           /\ Moves(c, next(typeCache[q.addr])) /\ UNCHANGED typeCache
        \/ \E t \in {"other"} \cup (IF q.addr \in Nfts \cap deployed THEN {"nft"} ELSE {}) :
             /\ typeCache' = [typeCache EXCEPT ![q.addr] = t]
             /\ Moves(c, next(t))
     /\ UNCHANGED <<deployed, isContract, tokenCache, standard>>

StandardRead(c) ==
  LET q == client[c] IN
  /\ q.at = "standard"
  /\ Moves(c, IF standard[q.addr] = "none" THEN [q EXCEPT !.at = "type"] ELSE Idle)
  /\ UNCHANGED <<deployed, isContract, tokenCache, typeCache, standard>>

\* An NFT by its type; else ERC-20 if any field was found.
StandardWrite(c) ==
  LET q == client[c] IN
  /\ q.at = "infer"
  /\ standard' = [standard EXCEPT ![q.addr] =
       IF q.base = {"nft"} THEN "nft" ELSE IF q.got # {} THEN "erc20" ELSE "unknown"]
  /\ Moves(c, Idle)
  /\ UNCHANGED <<deployed, isContract, tokenCache, typeCache>>

-----------------------------------------------------------------------------
(* A contract is deployed; an entry's time is up.                           *)

Deploy ==
  /\ \E a \in Addresses \ deployed : deployed' = deployed \cup {a}
  /\ UNCHANGED <<isContract, tokenCache, typeCache, standard, client>>

Expires ==
  /\ \E a \in Addresses :
       \/ /\ isContract' = [isContract EXCEPT ![a] = "none"]
          /\ UNCHANGED <<tokenCache, typeCache, standard>>
       \/ /\ tokenCache' = [tokenCache EXCEPT ![a] = NoEntry]
          /\ UNCHANGED <<isContract, typeCache, standard>>
       \/ /\ typeCache' = [typeCache EXCEPT ![a] = "none"]
          /\ UNCHANGED <<isContract, tokenCache, standard>>
       \/ /\ standard' = [standard EXCEPT ![a] = "none"]
          /\ UNCHANGED <<isContract, tokenCache, typeCache>>
  /\ UNCHANGED <<deployed, client>>

ChainNext ==
  \/ Deploy \/ Expires
  \/ \E c \in Clients :
       \/ \E want \in Wants[c], a \in Addresses : Ask(c, want, a)
       \/ TokenRead(c) \/ IsContract(c) \/ TokenProbe(c) \/ TokenWrite(c)
       \/ Heal(c) \/ HealWrite(c)
       \/ ContractType(c) \/ StandardRead(c) \/ StandardWrite(c)

ChainSpec == ChainInit /\ [][ChainNext]_chainVars

-----------------------------------------------------------------------------
(* The signature database.                                                  *)

\* live: the database listed the selector when the request began; stale: the answer
\* is a cached miss, or the database did not answer.
NotAsking == [at |-> "idle", lookup |-> "none", got |-> "none", live |-> FALSE, stale |-> FALSE]

SignatureInit ==
  /\ listed \in BOOLEAN
  /\ signature = [l \in Lookups |-> "none"]
  /\ asking = [c \in Clients |-> NotAsking]

Listed == ~listed /\ listed' = TRUE /\ UNCHANGED <<signature, asking>>

SignatureExpires ==
  /\ \E l \in Lookups : signature' = [signature EXCEPT ![l] = "none"]
  /\ UNCHANGED <<listed, asking>>

\* A cached answer is given; a cached miss too, except by the method's label, which
\* asks again.
LookUp(c, l) ==
  LET cached == signature[l] = "found" \/ (signature[l] = "missing" /\ l # "method") IN
  /\ asking[c].at \in {"idle", "answered"}
  /\ asking' = [asking EXCEPT ![c] =
       IF cached
       THEN [at |-> "answered", lookup |-> l, got |-> signature[l], live |-> listed,
             stale |-> signature[l] = "missing"]
       ELSE [at |-> "asked", lookup |-> l, got |-> "none", live |-> listed, stale |-> FALSE]]
  /\ UNCHANGED <<listed, signature>>

\* The database's answer is cached, and so is its failure: as a miss, even over
\* what another request has found meanwhile.
LookedUp(c) ==
  LET q == asking[c] IN
  /\ q.at = "asked"
  /\ \E found \in IF listed THEN BOOLEAN ELSE {FALSE} :
       LET outcome == IF found THEN "found" ELSE "missing" IN
       /\ signature' = [signature EXCEPT ![q.lookup] = outcome]
       /\ asking' = [asking EXCEPT ![c] =
            [q EXCEPT !.at = "answered", !.got = outcome, !.stale = found # listed]]
  /\ UNCHANGED listed

SignatureNext ==
  \/ Listed \/ SignatureExpires
  \/ \E c \in Clients : LookedUp(c) \/ \E l \in Lookups : LookUp(c, l)

-----------------------------------------------------------------------------
(* Properties.                                                              *)

\* A detail request answers everything the contract answered when it began, whatever
\* partial entry earlier requests left in the cache (tokenResolver.ts:215-216: a miss
\* "must never stay frozen"), unless one of its own reads failed, or it found no entry
\* and was told by a "not a contract" that was cached before the contract was deployed
\* (isContract.ts:55, 82: kept for a day). A method's label likewise, whatever
\* earlier lookups found (methodResolver.ts:100-102), unless its own lookup erred.
DetailHeals ==
  \A c \in Clients :
    /\ At(c, "answered") /\ client[c].live /\ ~client[c].missed =>
         Answers[client[c].addr] \subseteq client[c].got
    /\ asking[c].lookup = "method" /\ asking[c].at = "answered" /\ asking[c].live
         /\ ~asking[c].stale => asking[c].got = "found"

\* What is kept for 30 days is a fact of the chain that no later read would change,
\* though it was written by a request that saw some of its reads fail: a contract is
\* one, an NFT is one, and a token entry has its name and symbol from the contract.
LongEntriesTrue ==
  \A a \in Addresses :
    /\ isContract[a] = "yes" => a \in deployed
    /\ typeCache[a] = "nft" => a \in Nfts \cap deployed
    /\ tokenCache[a].long => {"name", "symbol"} \subseteq tokenCache[a].fields \cap OnChain(a)
=============================================================================
