-------------------------------- MODULE MCApi --------------------------------
(* Small instances for TLC of the API's parts and of the web pages over them.  *)
(* The parts share no state: a behaviour is about one of them, and the others  *)
(* stay where they are.                                                        *)
EXTENDS InternalTxs, Verification, ChainReads, PagedReads, ContractTab, StateDiff

VARIABLE which

mcVars == <<which, itVars, verVars, chainVars, signatureVars, pagesVars, tabVars, diffVars>>

MCCalls == [t1 |-> {<<0>>, <<0, 0>>, <<1>>}, t2 |-> {<<0>>}]
MCTxs == DOMAIN MCCalls
MCImplementation == [a |-> "b", b |-> "a"]
MCAnswers == [nft |-> {"name", "symbol"}]
MCWants == [c1 |-> {"detail", "list"}, c2 |-> {"standard"}]

\* A part's initial states, and one of them for the behaviours that are not about it.
Part(w, init, rest) == IF which = w THEN init ELSE init /\ rest

Init ==
  /\ which \in {"calls", "verified", "tokens", "signatures", "pages", "tab", "diff"}
  /\ ItInit /\ VerInit
  /\ Part("tokens", ChainInit, deployed = {})
  /\ Part("signatures", SignatureInit, listed = FALSE)
  /\ Part("pages", PagesInit, list = AllBlocksPage /\ Len(Rows) = 25)
  /\ Part("tab", TabInit, row = FALSE)
  /\ Part("diff", DiffInit, \A a \in Accounts : before[a] = Empty /\ after[a] = Empty)

Next ==
  /\ UNCHANGED which
  /\ \/ /\ which = "calls" /\ ItNext
        /\ UNCHANGED <<verVars, chainVars, signatureVars, pagesVars, tabVars, diffVars>>
     \/ /\ which = "verified" /\ VerNext
        /\ UNCHANGED <<itVars, chainVars, signatureVars, pagesVars, tabVars, diffVars>>
     \/ /\ which = "tokens" /\ ChainNext
        /\ UNCHANGED <<itVars, verVars, signatureVars, pagesVars, tabVars, diffVars>>
     \/ /\ which = "signatures" /\ SignatureNext
        /\ UNCHANGED <<itVars, verVars, chainVars, pagesVars, tabVars, diffVars>>
     \/ /\ which = "pages" /\ PagesNext
        /\ UNCHANGED <<itVars, verVars, chainVars, signatureVars, tabVars, diffVars>>
     \/ /\ which = "tab" /\ TabNext
        /\ UNCHANGED <<itVars, verVars, chainVars, signatureVars, pagesVars, diffVars>>
     \/ /\ which = "diff" /\ DiffNext
        /\ UNCHANGED <<itVars, verVars, chainVars, signatureVars, pagesVars, tabVars>>

\* The readers of the other parts' behaviours never begin: fairness asks nothing there.
Spec == Init /\ [][Next]_mcVars /\ VerFairness
=============================================================================
