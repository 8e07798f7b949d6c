------------------------------- MODULE MCPool -------------------------------
(* A small instance of the whole pool for TLC. *)
EXTENDS Pool

CONSTANTS alice, pool, fast

(* Hash 0 wins a block, hash 1 is an ordinary share, hash 2 meets no target. *)
MCRateTarget == [r \in Rates |-> 1]
MCTipTarget == [t \in 0 .. MaxTip |-> 0]
=============================================================================
