------------------------- MODULE MCGaplessBackfill -------------------------
(* Small instances of the gapless backfill for TLC. *)
EXTENDS GaplessBackfill

Reverse(start, last) == [direction |-> "reverse", startBlock |-> start, endBlock |-> last]
Forward(first, start) == [direction |-> "forward", startBlock |-> start, endBlock |-> first]

\* The default range, in both directions.
MCPlans == {Reverse(None, 0), Forward(0, None)}

\* An explicit range that starts above the chain's head, beside the default.
MCSmallPlans == {Reverse(MaxHead, 0), Reverse(None, 0), Forward(0, None)}
=============================================================================
