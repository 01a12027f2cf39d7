------------------------------- MODULE StateDiff -------------------------------
(***************************************************************************)
(* The state changes of a transaction (apps/api:                           *)
(* controllers/stateChanges.controller.ts): the node's prestateTracer in   *)
(* diff mode reports sparse "pre" and "post" states, which decodeStateDiff *)
(* turns into before and after values for each account.                    *)
(***************************************************************************)
EXTENDS Integers

CONSTANTS
  Accounts,  \* accounts a transaction touches
  Slots      \* storage slots

VARIABLES
  before, after,  \* [Accounts -> account]: the chain around the transaction
  answer,         \* the answer: "unasked", "unavailable" or "decoded"
  traced,         \* the node had a trace for it (history)
  diff            \* the answer's changes, by account

diffVars == <<before, after, answer, traced, diff>>

\* Values are 0 or 1: a zero is what an absent field and an absent slot stand for.
Values == {0, 1}
AccountStates == [balance : Values, nonce : Values, storage : [Slots -> Values]]
Empty == [balance |-> 0, nonce |-> 0, storage |-> [s \in Slots |-> 0]]
Nothing == [f \in {} |-> 0]

\* The nonce of an account does not fall.  No account is destroyed: the tracer then
\* reports no more of it than what it was.
DiffInit ==
  /\ before \in [Accounts -> AccountStates]
  /\ after \in [Accounts -> AccountStates]
  /\ \A a \in Accounts : after[a].nonce >= before[a].nonce
  /\ answer = "unasked" /\ traced = FALSE /\ diff = Nothing

-----------------------------------------------------------------------------
(* The node.  What is absent from a report is not in its domain.            *)

Changed == {a \in Accounts : after[a] # before[a]}

\* Of the accounts that changed but were not new: their earlier fields, with the slots
\* that changed and were not zero.
TracerPre ==
  [a \in {b \in Changed : before[b] # Empty} |->
    [before[a] EXCEPT !.storage =
      [s \in {t \in Slots : before[a].storage[t] \notin {0, after[a].storage[t]}} |->
         before[a].storage[s]]]]

\* Of the accounts that changed: the fields that did, and the slots that did and are
\* not zero.
TracerPost ==
  [a \in Changed |->
    [f \in {"storage"} \cup {g \in {"balance", "nonce"} : after[a][g] # before[a][g]} |->
       IF f # "storage" THEN after[a][f]
       ELSE [s \in {t \in Slots : after[a].storage[t] \notin {0, before[a].storage[t]}} |->
               after[a].storage[s]]]]

Report == [null |-> FALSE, pre |-> TracerPre, post |-> TracerPost]
NullTrace == [null |-> TRUE, pre |-> Nothing, post |-> Nothing]

-----------------------------------------------------------------------------
(* The controller.                                                          *)

OrElse(f, x, default) == IF x \in DOMAIN f THEN f[x] ELSE default

\* Mutant: a slot missing from post is taken as unchanged, as a balance is.
DecodeSlotsSparse(pre, post) ==
  LET balance == OrElse(pre, "balance", 0) nonce == OrElse(pre, "nonce", 0)
      was == OrElse(pre, "storage", Nothing) is == OrElse(post, "storage", Nothing)
  IN [balanceBefore |-> balance, balanceAfter |-> OrElse(post, "balance", balance),
      nonceBefore |-> nonce, nonceAfter |-> OrElse(post, "nonce", nonce),
      storageBefore |-> [s \in DOMAIN is |-> OrElse(was, s, 0)],
      storageAfter |-> is]

\* A field missing from post is unchanged, a slot missing from either side is zero.
DecodeAccount(pre, post) ==
  LET balance == OrElse(pre, "balance", 0) nonce == OrElse(pre, "nonce", 0)
      was == OrElse(pre, "storage", Nothing) is == OrElse(post, "storage", Nothing)
      slots == {s \in DOMAIN was \cup DOMAIN is : OrElse(was, s, 0) # OrElse(is, s, 0)}
  IN [balanceBefore |-> balance, balanceAfter |-> OrElse(post, "balance", balance),
      nonceBefore |-> nonce, nonceAfter |-> OrElse(post, "nonce", nonce),
      storageBefore |-> [s \in slots |-> OrElse(was, s, 0)],
      storageAfter |-> [s \in slots |-> OrElse(is, s, 0)]]

\* decodeStateDiff: the accounts on either side, without those that did not change; of
\* a null trace, none.
decodeStateDiff(trace) ==
  LET pre == trace.pre post == trace.post
      changes == [a \in DOMAIN pre \cup DOMAIN post |->
                    DecodeAccount(OrElse(pre, a, Nothing), OrElse(post, a, Nothing))]
      changed(c) == \/ c.balanceBefore # c.balanceAfter \/ c.nonceBefore # c.nonceAfter
                    \/ DOMAIN c.storageAfter # {}
  IN IF trace.null THEN Nothing
     ELSE [a \in {b \in DOMAIN changes : changed(changes[b])} |-> changes[a]]

\* getTransactionStateDiff: what the node answered, decoded, whether a trace or null; or
\* "unavailable" when the call throws.
getTransactionStateDiff ==
  /\ \/ \E trace \in {Report, NullTrace} :
          /\ answer' = "decoded" /\ traced' = ~trace.null
          /\ diff' = decodeStateDiff(trace)
     \/ answer' = "unavailable" /\ traced' = FALSE /\ diff' = Nothing
  /\ UNCHANGED <<before, after>>

DiffNext == getTransactionStateDiff

DiffSpec == DiffInit /\ [][DiffNext]_diffVars

-----------------------------------------------------------------------------
(* Properties.                                                              *)

\* An account as the section shows it, where it says nothing of what did not change.
Shown(a, balance, nonce, storage) ==
  IF a \notin DOMAIN diff THEN before[a]
  ELSE [balance |-> diff[a][balance], nonce |-> diff[a][nonce],
        storage |-> [s \in Slots |-> OrElse(diff[a][storage], s, before[a].storage[s])]]

\* When the node had a trace, the changes the transaction page shows, of balances, nonces
\* and slots, lead from the accounts as they were to the accounts as they are, also when a
\* slot is cleared, an account is new, or only one field changed, no account having been
\* destroyed (stateChanges.controller.ts:90-127).  A null trace is answered as no changes,
\* without the note that is there for it (StateChangesSection.tsx:11-13).
DiffAppliesBack ==
  answer = "decoded" /\ traced =>
    \A a \in Accounts :
      /\ Shown(a, "balanceBefore", "nonceBefore", "storageBefore") = before[a]
      /\ Shown(a, "balanceAfter", "nonceAfter", "storageAfter") = after[a]
=============================================================================
