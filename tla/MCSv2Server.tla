----------------------------- MODULE MCSv2Server -----------------------------
(* Small instances of Sv2Server for TLC. *)
EXTENDS Sv2Server

CONSTANTS alice, junk, pool, slow, fast, easy, hard

(* A slow miner's own target is easier than any network target, a fast     *)
(* one's lies between the hard and the easy network target, and the        *)
(* network targets leave hashes on both sides; MaxHash = 3 meets no target. *)
MCRateTarget == [r \in Rates |-> IF r = slow THEN 2 ELSE 1]
MCNetworkTarget == [b \in Blocks |-> IF b = easy THEN 2 ELSE 0]
=============================================================================
