-------------------------- MODULE NoiseConnection --------------------------
(***************************************************************************)
(* The receiving side of a Noise connection, pool/src/noise_connection.rs: *)
(* the responder's handshake with its time limit, and read_frame, which    *)
(* collects a frame over several reads and may be dropped between any two  *)
(* of them, because handle_connection runs it in a select! beside the      *)
(* template watch.                                                         *)
(*                                                                         *)
(* Bytes are their positions in the peer's stream: 1 .. HandshakeLen is    *)
(* the handshake message, then each frame is an encrypted header followed  *)
(* by an encrypted payload.                                                *)
(***************************************************************************)
EXTENDS Naturals, Sequences

CONSTANTS
    HandshakeLen,  \* bytes of the initiator's message (64)
    HeaderLen,     \* bytes of an encrypted frame header
    PayloadLens,   \* possible lengths of an encrypted payload
    MaxFrames      \* bound: frames the peer sends

ASSUME NoiseAssumption ==
    /\ HandshakeLen \in Nat \ {0} /\ HeaderLen \in Nat \ {0}
    /\ PayloadLens \subseteq Nat /\ MaxFrames \in Nat

(* A frame is known by the number of bytes before it and its payload; one  *)
(* that is not ok was not encrypted with the key of this connection.       *)
Frame == [at : Nat, len : PayloadLens, ok : BOOLEAN]

Reasons == {"handshake", "left", "refused"}

VARIABLES
    frames,      \* the peer: frames it has sent
    written,     \* bytes it has written
    hungUp,      \* it has closed its end, or the network failed
    arrived,     \* bytes that have reached our socket
    consumed,    \* bytes we have taken from the socket
    status,      \* "up", or why the connection was closed
    pc,          \* the connection task, see Pcs
    buf,         \* NoiseReadHalf.buf; 0 is a byte that was never read
    bytes_read,  \* NoiseReadHalf.bytes_read
    decoder,     \* NoiseReadHalf.decoder
    opened,      \* NoiseReadHalf.state: bytes the cipher has decrypted so far
    delivered    \* frames read_frame has returned

peerVars == <<frames, written, hungUp, arrived>>
readHalf == <<buf, bytes_read, decoder, opened>>
vars == <<peerVars, consumed, status, pc, readHalf, delivered>>

(* In the handshake; about to call read_frame, for the first time, after a *)
(* frame was handled or after a broadcast; waiting in read; in yield_now.  *)
Pcs == {"handshake", "start", "handled", "broadcast", "reading", "yielded"}

-----------------------------------------------------------------------------
(* ---- The decoder of codec_sv2 ---- *)

(* missing_noise_b of a new decoder is 0; it learns what it needs from the *)
(* first call of next_frame.                                               *)
NewDecoder == [stage |-> "new", missing |-> 0]
WantHeader == [stage |-> "header", missing |-> HeaderLen]
WantPayload(len) == [stage |-> "payload", missing |-> len]

(* The frame whose header comes next, or has just been decrypted.          *)
NextFrame == frames[Len(delivered) + 1]

(* Decryption succeeds on exactly the bytes that were encrypted, in the    *)
(* order in which they were encrypted.                                     *)
Decrypts(bytes) == NextFrame.ok /\ \A i \in DOMAIN bytes : bytes[i] = opened + i

Close(reason) == status' = reason

(* writable().copy_from_slice(bytes), then next_frame: it asks for more    *)
(* bytes, returns a frame or fails.                                        *)
NextFrameOf(bytes) ==
    \/ /\ decoder.stage = "new"
       /\ decoder' = WantHeader
       /\ pc' = "yielded"
       /\ UNCHANGED <<status, opened, delivered>>
    \/ /\ decoder.stage = "header" /\ Decrypts(bytes)
       /\ decoder' = WantPayload(NextFrame.len)
       /\ opened' = opened + Len(bytes)
       /\ pc' = "yielded"
       /\ UNCHANGED <<status, delivered>>
    \/ /\ decoder.stage = "payload" /\ Decrypts(bytes)
       /\ decoder' = WantHeader
       /\ opened' = opened + Len(bytes)
       /\ delivered' = Append(delivered, [at |-> opened - HeaderLen,
                                          len |-> Len(bytes), ok |-> TRUE])
       /\ pc' = "handled"
       /\ UNCHANGED status
    \/ /\ decoder.stage # "new" /\ ~Decrypts(bytes)
       /\ Close("garbled")
       /\ UNCHANGED <<decoder, opened, pc, delivered>>

-----------------------------------------------------------------------------
(* ---- NoiseReadHalf::read_frame ---- *)

Resized(expected) ==
    [i \in 1 .. expected |-> IF i <= Len(buf) THEN buf[i] ELSE 0]

(* After a stage bytes_read is 0 again, so that the next one starts at the *)
(* front of the buffer even if it needs the same number of bytes.          *)
MutAfterStageKept(bytes) == Len(bytes)
AfterStage(bytes) == 0

MutBytesKeptNone(expected) == 0
(* What is left of an interrupted stage when the loop is entered again.    *)
BytesKept(expected) == IF Len(buf) # expected THEN 0 ELSE bytes_read

(* read_frame is called, or goes on after yield_now: the top of its loop,  *)
(* up to the first read if there is anything to be read.                   *)
MutResumeAwaitsBytes ==
    /\ status = "up"
    /\ pc \in {"start", "handled", "broadcast", "yielded"}
    /\ arrived > consumed
    /\ buf' = Resized(decoder.missing)
    /\ IF decoder.missing > BytesKept(decoder.missing)
       THEN /\ bytes_read' = BytesKept(decoder.missing)
            /\ pc' = "reading"
            /\ UNCHANGED <<status, decoder, opened, delivered>>
       ELSE /\ bytes_read' = AfterStage(buf')
            /\ NextFrameOf(buf')
    /\ UNCHANGED <<peerVars, consumed>>
Resume ==
    /\ status = "up"
    /\ pc \in {"start", "handled", "broadcast", "yielded"}
    /\ buf' = Resized(decoder.missing)
    /\ IF decoder.missing > BytesKept(decoder.missing)
       THEN /\ bytes_read' = BytesKept(decoder.missing)
            /\ pc' = "reading"
            /\ UNCHANGED <<status, decoder, opened, delivered>>
       ELSE /\ bytes_read' = AfterStage(buf')
            /\ NextFrameOf(buf')
    /\ UNCHANGED <<peerVars, consumed>>

MutRoomWholeBuffer == Len(buf)
Room == Len(buf) - bytes_read

(* read returns n bytes; the stage is complete when the buffer is full.    *)
Read(n) ==
    /\ status = "up" /\ pc = "reading"
    /\ n <= Room /\ n <= arrived - consumed
    /\ buf' = [i \in DOMAIN buf |->
                 IF i \in bytes_read + 1 .. bytes_read + n
                 THEN consumed + i - bytes_read ELSE buf[i]]
    /\ consumed' = consumed + n
    /\ IF n < Room
       THEN /\ bytes_read' = bytes_read + n
            /\ UNCHANGED <<status, pc, decoder, opened, delivered>>
       ELSE /\ bytes_read' = AfterStage(buf')
            /\ NextFrameOf(buf')
    /\ UNCHANGED peerVars

(* read returns 0 bytes, or an error.                                      *)
ReadFails ==
    /\ status = "up" /\ pc = "reading"
    /\ hungUp
    /\ Close("left")
    /\ UNCHANGED <<peerVars, consumed, pc, readHalf, delivered>>

-----------------------------------------------------------------------------
(* ---- The connection task ---- *)

(* select! takes the template branch and drops the future of read_frame at *)
(* the await it is in; the first frame is read outside select!.            *)
Cancel ==
    /\ status = "up" /\ pc \in {"reading", "yielded"}
    /\ delivered # <<>>
    /\ pc' = "broadcast"
    /\ UNCHANGED <<peerVars, consumed, status, readHalf, delivered>>

(* SetupConnection is refused or a handler fails: the task ends.           *)
HandlerFails ==
    /\ status = "up" /\ pc = "handled"
    /\ Close("refused")
    /\ UNCHANGED <<peerVars, consumed, pc, readHalf, delivered>>

(* read_exact takes n bytes of the handshake message.                      *)
HandshakeRead(n) ==
    /\ status = "up" /\ pc = "handshake"
    /\ n <= HandshakeLen - consumed /\ n <= arrived - consumed
    /\ consumed' = consumed + n
    /\ UNCHANGED <<peerVars, status, pc, readHalf, delivered>>

(* The reply is written; both halves are built with a new decoder.         *)
HandshakeReply ==
    /\ status = "up" /\ pc = "handshake" /\ consumed = HandshakeLen
    /\ pc' = "start"
    /\ decoder' = NewDecoder
    /\ buf' = <<>> /\ bytes_read' = 0
    /\ opened' = consumed
    /\ UNCHANGED <<peerVars, consumed, status, delivered>>

(* step_1 refuses the message, the reply cannot be written, or the peer    *)
(* leaves before its message is complete.                                  *)
HandshakeFails ==
    /\ status = "up" /\ pc = "handshake"
    /\ consumed = HandshakeLen \/ hungUp
    /\ Close("handshake")
    /\ UNCHANGED <<peerVars, consumed, pc, readHalf, delivered>>

MutTimeoutOnlyIfSilent ==
    /\ status = "up" /\ pc = "handshake" /\ consumed = 0
    /\ Close("handshake")
    /\ UNCHANGED <<peerVars, consumed, pc, readHalf, delivered>>
(* HANDSHAKE_TIMEOUT runs over the whole of read_exact.                    *)
HandshakeTimeout ==
    /\ status = "up" /\ pc = "handshake" /\ consumed < HandshakeLen
    /\ Close("handshake")
    /\ UNCHANGED <<peerVars, consumed, pc, readHalf, delivered>>

-----------------------------------------------------------------------------
(* ---- The peer and the network ---- *)

(* The peer can encrypt only once it has our reply.                        *)
PeerSends(len, ok) ==
    /\ status = "up" /\ pc # "handshake" /\ ~hungUp
    /\ Len(frames) < MaxFrames
    /\ frames' = Append(frames, [at |-> written, len |-> len, ok |-> ok])
    /\ written' = written + HeaderLen + len
    /\ UNCHANGED <<hungUp, arrived, consumed, status, pc, readHalf, delivered>>

(* TCP delivers in order, in pieces of any size.                           *)
Arrive(n) ==
    /\ status = "up" /\ n <= written - arrived
    /\ arrived' = arrived + n
    /\ UNCHANGED <<frames, written, hungUp, consumed, status, pc, readHalf, delivered>>

PeerHangsUp ==
    /\ status = "up" /\ ~hungUp
    /\ hungUp' = TRUE
    /\ UNCHANGED <<frames, written, arrived, consumed, status, pc, readHalf, delivered>>

-----------------------------------------------------------------------------

Init ==
    /\ frames = <<>> /\ written = HandshakeLen /\ hungUp = FALSE
    /\ arrived = 0 /\ consumed = 0
    /\ status = "up" /\ pc = "handshake"
    /\ buf = <<>> /\ bytes_read = 0 /\ decoder = NewDecoder /\ opened = 0
    /\ delivered = <<>>

ReadSome == \E n \in 1 .. Room : Read(n)

Next ==
    \/ Resume \/ ReadSome \/ ReadFails
    \/ Cancel \/ HandlerFails
    \/ \E n \in 1 .. HandshakeLen : HandshakeRead(n)
    \/ HandshakeReply \/ HandshakeFails \/ HandshakeTimeout
    \/ \E len \in PayloadLens, ok \in BOOLEAN : PeerSends(len, ok)
    \/ \E n \in 1 .. written - arrived : Arrive(n)
    \/ PeerHangsUp

Spec == Init /\ [][Next]_vars

(* The task is scheduled; select! polls its branches in random order, so a *)
(* read that is ready again and again is taken; the timer fires.           *)
Fairness ==
    /\ WF_vars(Resume)
    /\ SF_vars(ReadSome)
    /\ WF_vars(HandshakeTimeout)
    /\ WF_vars(HandshakeReply \/ HandshakeFails)

FairSpec == Spec /\ Fairness

-----------------------------------------------------------------------------
(* ---- Properties ---- *)

(* Every variable has its type, and the positions are in order.            *)
TypeOK ==
    /\ frames \in Seq(Frame) /\ delivered \in Seq(Frame)
    /\ written \in Nat /\ arrived \in 0 .. written /\ consumed \in 0 .. arrived
    /\ hungUp \in BOOLEAN
    /\ status \in {"up", "garbled"} \cup Reasons /\ pc \in Pcs
    /\ buf \in Seq(Nat) /\ bytes_read \in 0 .. Len(buf)
    /\ decoder \in [stage : {"new", "header", "payload"}, missing : Nat]
    /\ opened \in Nat

(* What has been taken from the socket is with the decoder or at the front *)
(* of the buffer, in order, however often read_frame was dropped half-way. *)
NoByteLost ==
    status = "up" /\ pc # "handshake" =>
        /\ consumed = opened + bytes_read
        /\ \A i \in 1 .. bytes_read : buf[i] = opened + i

(* Seen frame by frame the reader is a reliable channel: short reads, and  *)
(* any number of cancellations between them, never lose, repeat or garble  *)
(* a frame, nor end the connection; a forged frame is never returned.      *)
Channel == INSTANCE FrameChannel WITH
    sent <- frames, received <- delivered
ChannelSpec == Channel!Spec

(* A frame that has arrived is returned by read_frame, though the template *)
(* branch may win the select! again and again, and a frame without payload *)
(* does not wait for the bytes of the next one.                            *)
FramesGetThrough ==
    \A k \in 1 .. MaxFrames :
        /\ status = "up" /\ k <= Len(frames)
        /\ arrived >= frames[k].at + HeaderLen + frames[k].len
        ~> Len(delivered) >= k \/ status # "up"

(* A peer cannot hold a task in the handshake: not by silence, and not by  *)
(* stopping in the middle of its message.                                  *)
HandshakeEnds == pc = "handshake" ~> pc # "handshake" \/ status # "up"
=============================================================================
