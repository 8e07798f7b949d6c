---------------------------- MODULE FrameChannel ----------------------------
(***************************************************************************)
(* What NoiseReadHalf::read_frame (pool/src/noise_connection.rs) promises  *)
(* to the connection task: the frames the peer sends are received one by   *)
(* one, each once and in order; a forged one is never received, and apart  *)
(* from that the connection ends only for a reason outside the reader.     *)
(***************************************************************************)
EXTENDS Naturals, Sequences

CONSTANTS
    Frame,     \* a set of records; field ok says that the frame is genuine
    Reasons    \* reasons outside the reader

VARIABLES
    sent,       \* frames the peer has sent
    received,   \* frames read_frame has returned
    status      \* "up", or the reason the connection ended

vars == <<sent, received, status>>

Init == sent = <<>> /\ received = <<>> /\ status = "up"

(* The peer sends one more frame.                                          *)
Send ==
    /\ status = "up"
    /\ Len(sent') = Len(sent) + 1
    /\ sent'[Len(sent) + 1] \in Frame
    /\ sent' = Append(sent, sent'[Len(sent) + 1])
    /\ UNCHANGED <<received, status>>

Receive ==
    /\ status = "up"
    /\ Len(received) < Len(sent)
    /\ sent[Len(received) + 1].ok
    /\ received' = Append(received, sent[Len(received) + 1])
    /\ UNCHANGED <<sent, status>>

Garbled ==
    /\ status = "up"
    /\ Len(received) < Len(sent)
    /\ ~sent[Len(received) + 1].ok
    /\ status' = "garbled"
    /\ UNCHANGED <<sent, received>>

End(reason) ==
    /\ status = "up"
    /\ status' = reason
    /\ UNCHANGED <<sent, received>>

Next ==
    \/ Send
    \/ Receive \/ Garbled
    \/ \E reason \in Reasons : End(reason)

Spec == Init /\ [][Next]_vars
=============================================================================
