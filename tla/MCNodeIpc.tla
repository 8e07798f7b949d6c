------------------------------ MODULE MCNodeIpc ------------------------------
(* Small instances of NodeIpc for TLC; alice is whoever the coinbase pays. *)
EXTENDS NodeIpc

CONSTANT alice
=============================================================================
