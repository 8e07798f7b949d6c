----------------------------- MODULE MCDbWorker -----------------------------
(* Small instances of DbWorker for TLC. *)
EXTENDS DbWorker

CONSTANTS alice, bob

(* The better (smaller) hash has the larger difficulty. *)
MCDifficulty == [h \in Hashes |-> IF h = 0 THEN 2 ELSE 1]
=============================================================================
