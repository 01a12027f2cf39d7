---------------------------- MODULE MCL1Messages ----------------------------
(* Small instances of the L1 message watcher for TLC. *)
EXTENDS L1Messages

CONSTANTS indexer, backfill, m1, m2, m3

MCSavers   == {indexer, backfill}
MCMessages == {m1, m2, m3}
MCSmallMessages == {m1, m2}

Delivery(b, i, m) == [block |-> b, id |-> i, msg |-> m]

\* An L1 transaction with two tickets, so that each of its events is paired
\* with both, and a third ticket in a later block.
MCDeliveries == <<Delivery(1, 1, m1), Delivery(1, 1, m2),
                  Delivery(1, 2, m1), Delivery(1, 2, m2), Delivery(4, 3, m3)>>

\* Two L1 transactions of one block, one ticket each.
MCOneEach == <<Delivery(1, 1, m1), Delivery(1, 2, m2)>>

\* Two tickets in two blocks.
MCTwoBlocks == <<Delivery(1, 1, m1), Delivery(2, 2, m2)>>
=============================================================================
