---------------------------- MODULE MCLiveIndexer ----------------------------
(* Small instances of the indexer's process for TLC. *)
EXTENDS LiveIndexer
=============================================================================
