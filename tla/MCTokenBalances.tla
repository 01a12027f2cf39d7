--------------------------- MODULE MCTokenBalances ---------------------------
(* A small instance of one token's aggregates for TLC. *)
EXTENDS TokenBalances

CONSTANTS alice, bob, zero

MCOwners == {alice, bob}

Move(from, to, amount) == [from |-> from, to |-> to, amount |-> amount]

\* A mint, a transfer of everything, and a burn of part of it.
MCTransfers == <<{Move(zero, alice, 2)},
                 {Move(alice, bob, 2)},
                 {Move(bob, zero, 1)}>>

\* The last two blocks share a day.
MCDay == <<1, 2, 2>>
=============================================================================
