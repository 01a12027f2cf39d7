----------------------------- MODULE MCStandalone -----------------------------
(* The standalone indexer by itself, when every head it reads is the chain's.  *)
EXTENDS StandaloneBackfill

ExactHead == mainAt = "off" /\ mainAt' = "fetch" => chainHead' = tip
ExactSpec == StandaloneInit /\ [][StandaloneNext /\ ExactHead]_standaloneVars
=============================================================================
