------------------------- MODULE MCNoiseConnection -------------------------
(* Small instances of NoiseConnection for TLC. *)
EXTENDS NoiseConnection
=============================================================================
