------------------------------ MODULE ContractTab ------------------------------
(***************************************************************************)
(* A visitor's Contract tab (apps/web: components/ContractPanel.tsx,       *)
(* VerifyContractForm.tsx, ReadContractSection.tsx and                     *)
(* WriteContractSection.tsx) against the API behind it                     *)
(* (apps/api: controllers/readContract.controller.ts and                   *)
(* verifyContract.controller.ts, their answers kept by                     *)
(* middlewares/cache.ts): requests overtake each other, forms and sections *)
(* are left while their requests are under way, and a wallet may decline.  *)
(***************************************************************************)
EXTENDS FiniteSets

CONSTANTS
  Submissions,   \* submissions of the form that may be under way together
  Standard       \* whether the contract's standard can be detected

ASSUME ContractTabAssumption == Standard \in BOOLEAN

VARIABLES
  row,         \* whether a verified source is stored for the contract
  kept,        \* cacheMiddleware's answers: the verification and the read functions
  value,       \* hoodscan:readfn of a function without arguments: "none", "null" or "read"
  panel,       \* the panel: see NoPanel
  status,      \* its getVerification: "none", "asked", or the answer on its way
  form,        \* the submission of the form on the screen: see NoForm
  submission,  \* [Submissions -> "none", "sent", "matched", "failed" or "left"]
  section,     \* ReadContractSection: see NoSection
  card,        \* one of its cards: "idle", "loading", "result" or "error"
  wallet       \* WriteContractSection and one of its cards: see NoWallet

tabVars == <<row, kept, value, panel, status, form, submission, section, card, wallet>>

\* shown: the verification in the panel's state; "none" stands for null.
NoPanel == [sub |-> "none", loading |-> FALSE, shown |-> "none"]
NoForm == [uses |-> "none", error |-> FALSE]
NoSection == [asked |-> "none", shown |-> "none"]
NoWallet == [at |-> "none", onChain |-> FALSE, card |-> "idle"]
NothingKept == [verification |-> "none", reads |-> "none"]

TabInit ==
  /\ row \in BOOLEAN /\ kept = NothingKept /\ value = "none"
  /\ panel = NoPanel /\ status = "none" /\ form = NoForm
  /\ submission = [s \in Submissions |-> "none"]
  /\ section = NoSection /\ card = "idle" /\ wallet = NoWallet

Verified == panel.shown = "yes"

\* Mutant: the form is there from the beginning.
FormOfferedEarly == panel.sub = "code" /\ ~Verified

\* The form is there with its tab, once the panel knows that it is needed.
FormOffered == panel.sub = "code" /\ ~panel.loading /\ ~Verified

-----------------------------------------------------------------------------
(* The panel.                                                               *)

\* The tab is opened: the panel asks for the verification.
OpenTab ==
  /\ panel = NoPanel
  /\ panel' = [sub |-> "code", loading |-> TRUE, shown |-> "none"]
  /\ status' = "asked"
  /\ UNCHANGED <<row, kept, value, form, submission, section, card, wallet>>

\* Another page: what is under way is answered to nobody.
LeaveTab ==
  /\ panel # NoPanel
  /\ panel' = NoPanel /\ status' = "none" /\ form' = NoForm
  /\ section' = NoSection /\ card' = "idle" /\ wallet' = NoWallet
  /\ submission' = [s \in Submissions |->
       IF submission[s] = "sent" THEN "left" ELSE "none"]
  /\ UNCHANGED <<row, kept, value>>

\* A sub-tab is shown: the others unmount with their state.
Shows(sub, shown) ==
  /\ panel' = [panel EXCEPT !.sub = sub, !.shown = shown]
  /\ IF sub = panel.sub THEN UNCHANGED <<form, section, card, wallet>>
     ELSE /\ form' = NoForm /\ card' = "idle"
          /\ section' = IF sub = "read" THEN [NoSection EXCEPT !.asked = "asked"]
                        ELSE NoSection
          /\ wallet' = IF sub = "write" THEN [NoWallet EXCEPT !.at = "off"] ELSE NoWallet

PickTab(sub) ==
  /\ panel # NoPanel /\ sub # panel.sub
  /\ Shows(sub, panel.shown)
  /\ UNCHANGED <<row, kept, value, status, submission>>

\* getVerification is answered: from the cache, from the table, or with null.
AnswerStatus ==
  /\ status = "asked"
  /\ \/ kept.verification # "none" /\ status' = kept.verification /\ UNCHANGED kept
     \/ /\ status' = IF row THEN "yes" ELSE "no"
        /\ kept' \in {kept, [kept EXCEPT !.verification = status']}
     \/ status' = "null" /\ UNCHANGED kept
  /\ UNCHANGED <<row, value, panel, form, submission, section, card, wallet>>

\* The answer arrives, and replaces what the panel shows.
StatusArrives ==
  /\ status \in {"yes", "no", "null"}
  /\ panel' = [panel EXCEPT !.loading = FALSE,
                            !.shown = IF status = "null" THEN "none" ELSE status]
  /\ status' = "none"
  /\ UNCHANGED <<row, kept, value, form, submission, section, card, wallet>>

-----------------------------------------------------------------------------
(* The form.                                                                *)

Submit(s) ==
  /\ FormOffered
  /\ form.uses = "none" /\ submission[s] = "none"
  /\ submission' = [submission EXCEPT ![s] = "sent"]
  /\ form' = [uses |-> s, error |-> FALSE]
  /\ UNCHANGED <<row, kept, value, panel, status, section, card, wallet>>

\* The compiler cannot be loaded, or rejects the source, or names no such contract; or
\* its code, without the metadata, differs from the chain's; or is the same.
verifyContractSource == {"throws", "differs", "matches"}

\* postVerify: the source is stored if it compiles to the contract's code; anything
\* else answers with an error, and an answer may be lost on its way.
postVerify(s) ==
  /\ submission[s] \in {"sent", "left"}
  /\ \E outcome \in verifyContractSource, arrives \in BOOLEAN :
       /\ row' = (row \/ outcome = "matches")
       /\ submission' = [submission EXCEPT ![s] =
            IF submission[s] = "left" THEN "none"
            ELSE IF outcome = "matches" /\ arrives THEN "matched" ELSE "failed"]
  /\ UNCHANGED <<kept, value, panel, status, form, section, card, wallet>>

\* The answer reaches the form's submit, also when the form is no longer there: a
\* record becomes the panel's and Read is shown, an error is the form's own.
Submitted(s) ==
  /\ submission[s] \in {"matched", "failed"}
  /\ submission' = [submission EXCEPT ![s] = "none"]
  /\ IF submission[s] = "matched" THEN Shows("read", "yes")
     ELSE /\ form' = IF form.uses = s THEN [uses |-> "none", error |-> TRUE] ELSE form
          /\ UNCHANGED <<panel, section, card, wallet>>
  /\ UNCHANGED <<row, kept, value, status>>

-----------------------------------------------------------------------------
(* Read Contract.                                                           *)

\* resolveReadFunction: the value kept, or a call of the contract, whose failure or
\* timeout is null; either is kept, unless Redis fails.
resolveReadFunction ==
  \/ value # "none" /\ UNCHANGED value
  \/ \E v \in {"read", "null"} : value' \in {v, value}

\* getReadContract: the verified functions, or the standard's if it is detected.
getReadContract ==
  /\ section.asked = "asked"
  /\ \/ /\ kept.reads # "none"
        /\ section' = [section EXCEPT !.asked = kept.reads] /\ UNCHANGED <<kept, value>>
     \/ \E answer \in IF row THEN {"verified"}
                      ELSE {"unsupported"} \cup (IF Standard THEN {"standard"} ELSE {}) :
          /\ section' = [section EXCEPT !.asked = answer]
          /\ kept' \in {kept, [kept EXCEPT !.reads = answer]}
          /\ IF answer = "unsupported" THEN UNCHANGED value ELSE resolveReadFunction
     \/ section' = [section EXCEPT !.asked = "unsupported"] /\ UNCHANGED <<kept, value>>
  /\ UNCHANGED <<row, panel, status, form, submission, card, wallet>>

ReadsArrive ==
  /\ section.asked \in {"verified", "standard", "unsupported"}
  /\ section' = [asked |-> "none", shown |-> section.asked]
  /\ UNCHANGED <<row, kept, value, panel, status, form, submission, card, wallet>>

\* FunctionCard's query, one at a time, and its answer by callReadContract: a result,
\* or an error for a revert, a bad argument, or a function the ABI used now lacks.
Query ==
  /\ section.shown \in {"verified", "standard"} /\ card # "loading"
  /\ card' = "loading"
  /\ UNCHANGED <<row, kept, value, panel, status, form, submission, section, wallet>>

callReadContract ==
  /\ card = "loading"
  /\ card' \in {"result", "error"}
  /\ UNCHANGED <<row, kept, value, panel, status, form, submission, section, wallet>>

-----------------------------------------------------------------------------
(* Write Contract.                                                          *)

WalletMoves(changes) ==
  /\ wallet' = changes
  /\ UNCHANGED <<row, kept, value, panel, status, form, submission, section, card>>

\* connect: accounts are asked for; then the chain is switched to, or else added.
\* Both may be declined, and the account stays.
Connect == wallet.at = "off" /\ Verified /\ ~panel.loading
           /\ WalletMoves([wallet EXCEPT !.at = "asking"])
AccountsAnswered ==
  wallet.at = "asking" /\ \E at \in {"off", "switching"} : WalletMoves([wallet EXCEPT !.at = at])
ChainSwitched ==
  wallet.at = "switching"
  /\ \/ WalletMoves([wallet EXCEPT !.at = "on", !.onChain = TRUE])
     \/ \E added \in BOOLEAN : WalletMoves([wallet EXCEPT !.at = "on", !.onChain = @ \/ added])

\* WriteFunctionCard's write: the account is there from the moment it is known.
\* viem refuses a wallet on another chain, and the user may reject.
Write == wallet.at \in {"switching", "on"} /\ wallet.card # "sending"
         /\ WalletMoves([wallet EXCEPT !.card = "sending"])
Written ==
  wallet.card = "sending"
  /\ \E outcome \in {"error"} \cup (IF wallet.onChain THEN {"sent"} ELSE {}) :
       WalletMoves([wallet EXCEPT !.card = outcome])

-----------------------------------------------------------------------------

\* A kept answer's 30 seconds, or a value's 45 or 10, are over.
AnswersExpire ==
  /\ \/ kept' = NothingKept /\ kept # NothingKept /\ UNCHANGED value
     \/ value' = "none" /\ value # "none" /\ UNCHANGED kept
  /\ UNCHANGED <<row, panel, status, form, submission, section, card, wallet>>

TabNext ==
  \/ OpenTab \/ LeaveTab \/ \E sub \in {"code", "read", "write"} : PickTab(sub)
  \/ AnswerStatus \/ StatusArrives
  \/ \E s \in Submissions : Submit(s) \/ postVerify(s) \/ Submitted(s)
  \/ getReadContract \/ ReadsArrive \/ Query \/ callReadContract
  \/ Connect \/ AccountsAnswered \/ ChainSwitched \/ Write \/ Written
  \/ AnswersExpire

TabSpec == TabInit /\ [][TabNext]_tabVars

-----------------------------------------------------------------------------
(* Properties.                                                              *)

\* Once the panel shows a contract as verified, no answer that was under way takes
\* it back while the tab is open: neither the panel's own first request nor one of
\* several submissions made from forms since left (ContractPanel.tsx:34-46, 95-98;
\* VerifyContractForm.tsx:10-11).  A wallet is connected and a card of the contract
\* is written from under it.
VerifiedStays ==
  [][/\ Verified /\ panel' # NoPanel => panel'.shown = "yes"
     /\ wallet'.at \notin {"none", "off"} => panel'.shown = "yes"]_tabVars
=============================================================================
