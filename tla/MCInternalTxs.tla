---------------------------- MODULE MCInternalTxs ----------------------------
(* Small instances of the internal transactions: one nested call and siblings. *)
EXTENDS InternalTxs

MCCalls == [t1 |-> {<<0>>, <<0, 0>>, <<1>>}, t2 |-> {<<0>>}]
=============================================================================
