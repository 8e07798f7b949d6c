----------------------- MODULE NoiseConnectionProofs -----------------------
(***************************************************************************)
(* Proofs about NoiseConnection, for every length of header, payload and   *)
(* handshake message, and any number of frames, reads and cancellations.   *)
(***************************************************************************)
EXTENDS NoiseConnection, TLAPS

(* Number of the frame the decoder works on.                               *)
Current == Len(delivered) + 1

(* Frames follow each other in the stream without gaps.                    *)
StreamOK ==
    /\ frames = <<>> => written = HandshakeLen
    /\ \A j \in 1 .. Len(frames) :
         frames[j].at + HeaderLen + frames[j].len =
           IF j = Len(frames) THEN written ELSE frames[j + 1].at
    /\ frames # <<>> => frames[1].at = HandshakeLen

HandshakeOK ==
    pc = "handshake" =>
        /\ frames = <<>> /\ delivered = <<>>
        /\ consumed <= HandshakeLen /\ status # "garbled"

(* The decoder asks for what the stream has next, and the cipher stands at *)
(* the beginning of it.                                                    *)
DecoderOK ==
    /\ Len(delivered) <= Len(frames)
    /\ decoder.stage = "new" => decoder.missing = 0
    /\ decoder.stage = "header" => decoder.missing = HeaderLen
    /\ decoder.stage = "payload" =>
         /\ Current <= Len(frames)
         /\ decoder.missing = frames[Current].len
         /\ opened = frames[Current].at + HeaderLen
         /\ frames[Current].ok
    /\ decoder.stage # "payload" =>
         opened = IF Current <= Len(frames) THEN frames[Current].at ELSE written

(* A stage that has begun has its buffer, and is not complete.             *)
StageOK ==
    /\ bytes_read > 0 \/ pc = "reading" =>
         Len(buf) = decoder.missing /\ bytes_read < Len(buf)

IndInv ==
    /\ TypeOK /\ NoByteLost /\ StreamOK /\ HandshakeOK
    /\ status = "up" /\ pc # "handshake" => DecoderOK /\ StageOK

-----------------------------------------------------------------------------

(* The fields of a frame in a sequence of frames.                          *)
LEMMA FrameFields ==
    ASSUME NEW s \in Seq(Frame)
    PROVE  \A j \in 1 .. Len(s) :
             s[j] \in Frame /\ s[j].at \in Nat /\ s[j].len \in Nat /\ s[j].ok \in BOOLEAN
  <1>1. ASSUME NEW f \in Frame
        PROVE  f.at \in Nat /\ f.len \in Nat /\ f.ok \in BOOLEAN
    BY NoiseAssumption DEF Frame
  <1>2. \A j \in 1 .. Len(s) : s[j] \in Frame
    OBVIOUS
  <1> QED
    BY <1>1, <1>2

(* A buffer of m bytes.                                                    *)
LEMMA Buffer ==
    ASSUME NEW m \in Nat, NEW f \in [1 .. m -> Nat]
    PROVE  f \in Seq(Nat) /\ Len(f) = m
  OBVIOUS

(* The invariant holds when the connection has been accepted.              *)
LEMMA InitOK == Init => IndInv
  <1> SUFFICES ASSUME Init PROVE IndInv
    OBVIOUS
  <1> USE NoiseAssumption DEF Init
  <1>1. <<>> \in Seq(Frame) /\ <<>> \in Seq(Nat) /\ Len(<<>>) = 0
    OBVIOUS
  <1>2. decoder \in [stage : {"new", "header", "payload"}, missing : Nat]
    BY DEF NewDecoder
  <1>3. hungUp \in BOOLEAN
    BY Zenon
  <1>4. TypeOK
    BY <1>1, <1>2, <1>3 DEF TypeOK, Pcs, Reasons
  <1> QED
    BY <1>1, <1>4 DEF IndInv, NoByteLost, StreamOK, HandshakeOK

(* The actions that leave the read half and the sent frames alone.         *)
Others ==
    \/ ReadFails \/ Cancel \/ HandlerFails
    \/ \E n \in 1 .. HandshakeLen : HandshakeRead(n)
    \/ HandshakeFails \/ HandshakeTimeout
    \/ \E n \in 1 .. written - arrived : Arrive(n)
    \/ PeerHangsUp

(* They keep the invariant.                                                *)
LEMMA OthersOK == IndInv /\ Others => IndInv'
  <1> SUFFICES ASSUME IndInv, Others PROVE IndInv'
    OBVIOUS
  <1> USE NoiseAssumption DEF IndInv, TypeOK, NoByteLost, StreamOK, HandshakeOK,
          DecoderOK, StageOK, Current, peerVars, readHalf, Pcs, Reasons, Close
  <1>1. CASE ReadFails
    BY <1>1 DEF ReadFails
  <1>2. CASE Cancel
    BY <1>2 DEF Cancel
  <1>3. CASE HandlerFails
    BY <1>3 DEF HandlerFails
  <1>4. CASE \E n \in 1 .. HandshakeLen : HandshakeRead(n)
    BY <1>4 DEF HandshakeRead
  <1>5. CASE HandshakeFails
    BY <1>5 DEF HandshakeFails
  <1>6. CASE HandshakeTimeout
    BY <1>6 DEF HandshakeTimeout
  <1>7. CASE \E n \in 1 .. written - arrived : Arrive(n)
    BY <1>7 DEF Arrive
  <1>8. CASE PeerHangsUp
    BY <1>8 DEF PeerHangsUp
  <1> QED
    BY <1>1, <1>2, <1>3, <1>4, <1>5, <1>6, <1>7, <1>8 DEF Others

(* The two halves start where the handshake message ends.                  *)
LEMMA HandshakeReplyOK == IndInv /\ HandshakeReply => IndInv'
  BY NoiseAssumption DEF IndInv, TypeOK, NoByteLost, StreamOK, HandshakeOK,
     DecoderOK, StageOK, Current, peerVars, Pcs, Reasons, HandshakeReply, NewDecoder

(* A new frame begins where the peer's stream ended so far.                *)
LEMMA PeerSendsOK ==
    ASSUME IndInv, NEW len \in PayloadLens, NEW ok \in BOOLEAN, PeerSends(len, ok)
    PROVE  IndInv'
  <1> USE NoiseAssumption
  <1> DEFINE f == [at |-> written, len |-> len, ok |-> ok]
  <1>1. f \in Frame /\ f.at = written /\ f.len = len /\ len \in Nat
    BY DEF Frame, IndInv, TypeOK
  <1>2. frames \in Seq(Frame) /\ frames' = Append(frames, f)
    BY DEF PeerSends, IndInv, TypeOK
  <1> HIDE DEF f
  <1>3. /\ frames' \in Seq(Frame) /\ Len(frames') = Len(frames) + 1
        /\ frames'[Len(frames) + 1] = f
        /\ \A j \in 1 .. Len(frames) : frames'[j] = frames[j]
        /\ frames' # <<>>
    BY <1>1, <1>2
  <1>4. TypeOK'
    BY <1>1, <1>3 DEF PeerSends, IndInv, TypeOK, readHalf
  <1>5. NoByteLost' /\ HandshakeOK'
    BY DEF PeerSends, IndInv, NoByteLost, HandshakeOK, readHalf
  <1>6. StreamOK'
    <2>1. \A j \in 1 .. Len(frames) : frames[j].at \in Nat /\ frames[j].len \in Nat
      BY <1>2, FrameFields
    <2>2. frames'[1].at = HandshakeLen
      <3>1. CASE frames = <<>>
        BY <3>1, <1>1, <1>3 DEF IndInv, StreamOK
      <3>2. CASE frames # <<>>
        BY <3>2, <1>2, <1>3 DEF IndInv, StreamOK
      <3> QED
        BY <3>1, <3>2
    <2>3. ASSUME NEW j \in 1 .. Len(frames')
          PROVE  frames'[j].at + HeaderLen + frames'[j].len =
                   IF j = Len(frames') THEN written' ELSE frames'[j + 1].at
      <3>1. CASE j = Len(frames')
        BY <3>1, <1>1, <1>2, <1>3 DEF PeerSends, IndInv, TypeOK
      <3>2. CASE j < Len(frames)
        BY <3>2, <1>2, <1>3 DEF IndInv, StreamOK
      <3>3. CASE j = Len(frames)
        BY <3>3, <1>1, <1>2, <1>3 DEF IndInv, StreamOK
      <3> QED
        BY <3>1, <3>2, <3>3, <1>2, <1>3
    <2> QED
      BY <1>3, <2>2, <2>3 DEF StreamOK
  <1>7. DecoderOK' /\ StageOK'
    BY <1>1, <1>2, <1>3, SMTT(30)
       DEF PeerSends, IndInv, TypeOK, DecoderOK, StageOK, Current, readHalf
  <1> QED
    BY <1>4, <1>5, <1>6, <1>7 DEF IndInv

-----------------------------------------------------------------------------

(* The bytes of a complete stage, as they are given to the decoder.        *)
Whole(bytes) ==
    /\ bytes \in Seq(Nat) /\ Len(bytes) = decoder.missing
    /\ \A i \in 1 .. Len(bytes) : bytes[i] = opened + i

(* A complete stage leads to the next one, to the frame the peer sent, or  *)
(* to the end if that frame is forged.                                     *)
LEMMA StageStep ==
    ASSUME IndInv, status = "up", pc # "handshake", UNCHANGED peerVars,
           NEW bytes, Whole(bytes), NextFrameOf(bytes),
           buf' = bytes, bytes_read' = 0,
           consumed' = opened + Len(bytes), consumed' <= arrived
    PROVE  IndInv' /\ [Channel!Next]_(Channel!vars)
  <1> USE NoiseAssumption
  <1> DEFINE k == Current
  <1>1. /\ frames \in Seq(Frame) /\ delivered \in Seq(Frame) /\ opened \in Nat
        /\ bytes \in Seq(Nat) /\ Len(bytes) = decoder.missing /\ DOMAIN bytes = 1 .. Len(bytes)
        /\ written \in Nat /\ arrived \in 0 .. written /\ hungUp \in BOOLEAN
        /\ status = "up" /\ pc \in Pcs
    BY DEF IndInv, TypeOK, Whole
  <1>a. consumed' \in 0 .. arrived /\ Len(bytes) \in Nat
    BY <1>1
  <1>b. Len(frames) \in Nat /\ Len(delivered) \in Nat /\ k \in 1 .. Len(frames) + 1
    BY <1>1 DEF IndInv, DecoderOK, Current
  <1>c. \A j \in 1 .. Len(frames) :
             frames[j] \in Frame /\ frames[j].at \in Nat /\ frames[j].len \in Nat
    BY <1>1, FrameFields
  <1>2. UNCHANGED <<frames, written, hungUp, arrived>>
    BY DEF peerVars
  <1>3. StreamOK'
    BY <1>2 DEF IndInv, StreamOK
  <1>4. \A i \in DOMAIN bytes : bytes[i] = opened + i
    BY <1>1 DEF Whole
  <1>5. Len(bytes) > 0 /\ decoder.stage = "header" => Current <= Len(frames)
    BY <1>1 DEF IndInv, DecoderOK
  <1>d. decoder.stage \in {"new", "header", "payload"} /\ decoder.missing \in Nat
    BY DEF IndInv, TypeOK
  <1>6. CASE decoder.stage = "new"
    <2>1. /\ decoder' = WantHeader /\ pc' = "yielded"
          /\ UNCHANGED <<status, opened, delivered>> /\ Len(bytes) = 0
      BY <1>1, <1>6 DEF NextFrameOf, IndInv, DecoderOK
    <2>2. TypeOK'
      BY <1>1, <1>a, <1>2, <2>1 DEF TypeOK, WantHeader, Pcs
    <2>3. NoByteLost' /\ HandshakeOK' /\ StageOK'
      BY <1>1, <2>1 DEF NoByteLost, HandshakeOK, StageOK
    <2>4. DecoderOK'
      BY <1>2, <1>6, <2>1 DEF IndInv, DecoderOK, Current, WantHeader
    <2>5. UNCHANGED Channel!vars
      BY <1>2, <2>1 DEF Channel!vars
    <2> QED
      BY <1>3, <2>2, <2>3, <2>4, <2>5 DEF IndInv
  <1>7. CASE decoder.stage = "header" /\ NextFrame.ok
    <2>0. k <= Len(frames) /\ NextFrame = frames[k]
      BY <1>5, <1>7, <1>1 DEF NextFrame, Current, IndInv, DecoderOK
    <2>1. /\ decoder' = WantPayload(frames[k].len) /\ opened' = opened + Len(bytes)
          /\ pc' = "yielded" /\ UNCHANGED <<status, delivered>> /\ Len(bytes) = HeaderLen
      BY <1>1, <1>4, <1>7, <2>0 DEF NextFrameOf, Decrypts, IndInv, DecoderOK
    <2>2. TypeOK'
      BY <1>1, <1>a, <1>b, <1>c, <1>2, <2>0, <2>1 DEF TypeOK, WantPayload, Pcs
    <2>3. NoByteLost' /\ HandshakeOK' /\ StageOK'
      BY <1>1, <1>a, <2>1 DEF NoByteLost, HandshakeOK, StageOK
    <2>4. DecoderOK'
      BY <1>1, <1>b, <1>2, <1>7, <2>0, <2>1 DEF IndInv, DecoderOK, Current, WantPayload
    <2>5. UNCHANGED Channel!vars
      BY <1>2, <2>1 DEF Channel!vars
    <2> QED
      BY <1>3, <2>2, <2>3, <2>4, <2>5 DEF IndInv
  <1>8. CASE decoder.stage = "payload"
    <2>0. k <= Len(frames) /\ NextFrame = frames[k] /\ NextFrame.ok
          /\ decoder.missing = frames[k].len /\ opened = frames[k].at + HeaderLen
      BY <1>8 DEF NextFrame, Current, IndInv, DecoderOK
    <2> DEFINE f == [at |-> opened - HeaderLen, len |-> Len(bytes), ok |-> TRUE]
    <2>1. /\ decoder' = WantHeader /\ opened' = opened + Len(bytes)
          /\ pc' = "handled" /\ UNCHANGED status /\ delivered' = Append(delivered, f)
      BY <1>1, <1>4, <1>8, <2>0 DEF NextFrameOf, Decrypts
    <2>2. f = frames[k] /\ f \in Frame
      <3>1. frames[k] \in [at : Nat, len : PayloadLens, ok : BOOLEAN]
        BY <1>b, <1>c, <2>0 DEF Frame
      <3>2. frames[k].ok = TRUE /\ frames[k].at = opened - HeaderLen /\ frames[k].len = Len(bytes)
        BY <1>1, <1>b, <1>c, <2>0, <3>1
      <3> QED
        BY <3>1, <3>2 DEF Frame
    <2> HIDE DEF f
    <2>3. delivered' \in Seq(Frame) /\ Len(delivered') = Len(delivered) + 1
      BY <1>1, <2>1, <2>2
    <2>4. TypeOK'
      BY <1>1, <1>a, <1>2, <2>1, <2>3 DEF TypeOK, WantHeader, Pcs
    <2>5. NoByteLost' /\ HandshakeOK' /\ StageOK'
      BY <1>1, <1>a, <2>1 DEF NoByteLost, HandshakeOK, StageOK
    <2>6. opened' = IF k + 1 <= Len(frames) THEN frames[k + 1].at ELSE written
      <3>1. k \in 1 .. Len(frames) /\ frames[k].at \in Nat /\ frames[k].len \in Nat
        BY <1>b, <1>c, <2>0
      <3>2. opened' = frames[k].at + HeaderLen + frames[k].len
        BY <1>1, <2>0, <2>1, <3>1
      <3>3. opened' = IF k = Len(frames) THEN written ELSE frames[k + 1].at
        BY <3>1, <3>2 DEF IndInv, StreamOK
      <3> QED
        BY <1>b, <3>1, <3>3
    <2>7. DecoderOK'
      BY <1>1, <1>b, <1>2, <2>0, <2>1, <2>3, <2>6 DEF DecoderOK, Current, WantHeader
    <2>8. Channel!Receive
      BY <1>1, <1>b, <1>2, <2>0, <2>1, <2>2 DEF Channel!Receive, Current
    <2> QED
      BY <1>3, <2>4, <2>5, <2>7, <2>8 DEF IndInv, Channel!Next
  <1>9. CASE decoder.stage = "header" /\ ~NextFrame.ok
    <2>0. k <= Len(frames) /\ NextFrame = frames[k]
      BY <1>5, <1>9, <1>1 DEF NextFrame, Current, IndInv, DecoderOK
    <2>1. status' = "garbled" /\ UNCHANGED <<decoder, opened, pc, delivered>>
      BY <1>9 DEF NextFrameOf, Decrypts, Close
    <2>2. TypeOK'
      BY <1>1, <1>a, <1>d, <1>2, <2>1 DEF TypeOK, IndInv
    <2>3. Channel!Garbled
      BY <1>1, <1>b, <1>2, <1>9, <2>0, <2>1 DEF Channel!Garbled, Current
    <2> QED
      BY <1>1, <1>3, <2>1, <2>2, <2>3 DEF IndInv, NoByteLost, HandshakeOK, Channel!Next
  <1> QED
    BY <1>6, <1>7, <1>8, <1>9, <1>d

(* A read gives the decoder a complete stage, or adds to what there is of  *)
(* it.                                                                     *)
LEMMA ReadOK ==
    ASSUME IndInv, NEW n \in 1 .. Room, Read(n)
    PROVE  IndInv' /\ [Channel!Next]_(Channel!vars)
  <1> USE NoiseAssumption
  <1>1. /\ status = "up" /\ pc = "reading" /\ n <= arrived - consumed
        /\ buf \in Seq(Nat) /\ Len(buf) \in Nat /\ bytes_read \in 0 .. Len(buf)
        /\ Room = Len(buf) - bytes_read /\ n \in Nat /\ opened \in Nat /\ consumed \in Nat
        /\ arrived \in Nat /\ consumed' = consumed + n /\ consumed' <= arrived
        /\ UNCHANGED peerVars
    BY DEF Read, Room, IndInv, TypeOK
  <1>2. /\ consumed = opened + bytes_read /\ Len(buf) = decoder.missing
        /\ \A i \in 1 .. bytes_read : buf[i] = opened + i
    BY <1>1 DEF IndInv, NoByteLost, StageOK
  <1>3. /\ buf' \in Seq(Nat) /\ Len(buf') = Len(buf)
        /\ \A i \in 1 .. bytes_read + n : buf'[i] = opened + i
    <2>1. buf' = [i \in 1 .. Len(buf) |->
                   IF i \in bytes_read + 1 .. bytes_read + n
                   THEN consumed + i - bytes_read ELSE buf[i]]
      BY <1>1 DEF Read
    <2>2. \A i \in 1 .. Len(buf) : buf'[i] \in Nat
      BY <1>1, <2>1
    <2>3. \A i \in 1 .. bytes_read + n : buf'[i] = opened + i
      BY <1>1, <1>2, <2>1
    <2>4. buf' \in [1 .. Len(buf) -> Nat]
      BY <2>1, <2>2
    <2> QED
      BY <1>1, <2>3, <2>4, Buffer
  <1>4. CASE n < Room
    <2>1. bytes_read' = bytes_read + n /\ UNCHANGED <<status, pc, decoder, opened, delivered>>
      BY <1>4 DEF Read
    <2>2. UNCHANGED <<frames, written, hungUp, arrived>>
      BY <1>1 DEF peerVars
    <2>3. TypeOK'
      BY <1>1, <1>3, <1>4, <2>1, <2>2 DEF IndInv, TypeOK
    <2>4. NoByteLost' /\ HandshakeOK' /\ StreamOK' /\ StageOK'
      BY <1>1, <1>2, <1>3, <1>4, <2>1, <2>2
         DEF IndInv, NoByteLost, HandshakeOK, StreamOK, StageOK
    <2>5. DecoderOK'
      BY <1>1, <2>1, <2>2 DEF IndInv, DecoderOK, Current
    <2>6. UNCHANGED Channel!vars
      BY <2>1, <2>2 DEF Channel!vars
    <2> QED
      BY <2>3, <2>4, <2>5, <2>6 DEF IndInv
  <1>5. CASE ~(n < Room)
    <2>1. n = Room /\ NextFrameOf(buf') /\ bytes_read' = 0
      BY <1>1, <1>5 DEF Read, AfterStage
    <2>2. Whole(buf') /\ consumed' = opened + Len(buf')
      <3>1. bytes_read + n = Len(buf')
        BY <1>1, <1>3, <2>1
      <3>2. consumed' = opened + Len(buf')
        <4>1. bytes_read \in Nat /\ n \in Nat /\ opened \in Nat /\ consumed' = consumed + n
          BY <1>1
        <4>2. consumed = opened + bytes_read
          BY <1>2
        <4> QED
          BY <3>1, <4>1, <4>2
      <3>3. \A i \in 1 .. Len(buf') : buf'[i] = opened + i
        BY <1>3, <3>1
      <3> QED
        BY <1>2, <1>3, <3>2, <3>3, Zenon DEF Whole
    <2> DEFINE b == buf'
    <2>3. b = buf' /\ Whole(b) /\ NextFrameOf(b) /\ consumed' = opened + Len(b)
      BY <2>1, <2>2
    <2> HIDE DEF b
    <2> QED
      BY <1>1, <2>1, <2>3, StageStep
  <1> QED
    BY <1>4, <1>5

(* Entering the loop keeps what was read before a cancellation; a stage of *)
(* length 0 is complete at once.                                           *)
LEMMA ResumeOK ==
    ASSUME IndInv, Resume
    PROVE  IndInv' /\ [Channel!Next]_(Channel!vars)
  <1> USE NoiseAssumption
  <1> DEFINE m == decoder.missing
             kept == BytesKept(m)
  <1>1. /\ status = "up" /\ pc # "handshake" /\ buf' = Resized(m)
        /\ buf \in Seq(Nat) /\ Len(buf) \in Nat /\ bytes_read \in 0 .. Len(buf)
        /\ m \in Nat /\ opened \in Nat /\ consumed \in 0 .. arrived /\ arrived \in Nat
        /\ UNCHANGED peerVars /\ consumed' = consumed
    BY DEF Resume, IndInv, TypeOK
  <1>2. /\ consumed = opened + bytes_read
        /\ \A i \in 1 .. bytes_read : buf[i] = opened + i
        /\ bytes_read > 0 => Len(buf) = m /\ bytes_read < Len(buf)
    BY <1>1 DEF IndInv, NoByteLost, StageOK
  <1>3. kept = bytes_read /\ (bytes_read = 0 \/ bytes_read < m)
    BY <1>1, <1>2 DEF BytesKept
  <1>4. /\ buf' \in Seq(Nat) /\ Len(buf') = m
        /\ \A i \in 1 .. bytes_read : buf'[i] = opened + i
    <2>1. buf' = [i \in 1 .. m |-> IF i <= Len(buf) THEN buf[i] ELSE 0]
      BY <1>1 DEF Resized
    <2>2. buf' \in [1 .. m -> Nat]
      BY <1>1, <2>1
    <2>3. \A i \in 1 .. bytes_read : buf'[i] = opened + i
      BY <1>1, <1>2, <1>3, <2>1
    <2> QED
      BY <1>1, <2>2, <2>3, Buffer
  <1> HIDE DEF kept
  <1>5. CASE m > kept
    <2>1. bytes_read' = bytes_read /\ pc' = "reading"
          /\ UNCHANGED <<status, decoder, opened, delivered>>
      BY <1>3, <1>5 DEF Resume, kept
    <2>2. UNCHANGED <<frames, written, hungUp, arrived>>
      BY <1>1 DEF peerVars
    <2>3. TypeOK'
      BY <1>1, <1>3, <1>4, <1>5, <2>1, <2>2 DEF IndInv, TypeOK, Pcs
    <2>4. NoByteLost' /\ HandshakeOK' /\ StreamOK' /\ StageOK'
      BY <1>1, <1>2, <1>3, <1>4, <1>5, <2>1, <2>2
         DEF IndInv, NoByteLost, HandshakeOK, StreamOK, StageOK
    <2>5. DecoderOK'
      BY <1>1, <2>1, <2>2 DEF IndInv, DecoderOK, Current
    <2>6. UNCHANGED Channel!vars
      BY <2>1, <2>2 DEF Channel!vars
    <2> QED
      BY <2>3, <2>4, <2>5, <2>6 DEF IndInv
  <1>6. CASE ~(m > kept)
    <2>1. bytes_read' = 0 /\ NextFrameOf(buf')
      BY <1>6 DEF Resume, AfterStage, kept
    <2>2. bytes_read = 0 /\ Len(buf') = 0 /\ consumed' = opened + Len(buf')
      BY <1>1, <1>2, <1>3, <1>4, <1>6
    <2> DEFINE b == buf'
    <2>3. b \in Seq(Nat) /\ Len(b) = 0 /\ Len(b) = decoder.missing
      BY <1>4, <2>2
    <2>4. b = buf' /\ NextFrameOf(b) /\ consumed' = opened + Len(b)
      BY <2>1, <2>2
    <2> HIDE DEF b
    <2>5. Whole(b)
      BY <2>3 DEF Whole
    <2> QED
      BY <1>1, <2>1, <2>4, <2>5, StageStep
  <1> QED
    BY <1>5, <1>6

(* The other actions send a frame, end the connection or do nothing that   *)
(* the channel shows.                                                      *)
LEMMA OthersRefine == IndInv /\ (Others \/ HandshakeReply) => [Channel!Next]_(Channel!vars)
  <1> SUFFICES ASSUME IndInv, Others \/ HandshakeReply
               PROVE  [Channel!Next]_(Channel!vars)
    OBVIOUS
  <1>1. CASE ReadFails
    BY <1>1 DEF ReadFails, Close, peerVars, Channel!Next, Channel!End, Reasons
  <1>2. CASE HandlerFails
    BY <1>2 DEF HandlerFails, Close, peerVars, Channel!Next, Channel!End, Reasons
  <1>3. CASE HandshakeFails
    BY <1>3 DEF HandshakeFails, Close, peerVars, Channel!Next, Channel!End, Reasons
  <1>4. CASE HandshakeTimeout
    BY <1>4 DEF HandshakeTimeout, Close, peerVars, Channel!Next, Channel!End, Reasons
  <1>5. CASE Cancel \/ HandshakeReply \/ PeerHangsUp
    BY <1>5 DEF Cancel, HandshakeReply, PeerHangsUp, peerVars, Channel!vars
  <1>6. CASE \E n \in 1 .. HandshakeLen : HandshakeRead(n)
    BY <1>6 DEF HandshakeRead, peerVars, Channel!vars
  <1>7. CASE \E n \in 1 .. written - arrived : Arrive(n)
    BY <1>7 DEF Arrive, Channel!vars
  <1> QED
    BY <1>1, <1>2, <1>3, <1>4, <1>5, <1>6, <1>7 DEF Others

(* Sending is sending.                                                     *)
LEMMA PeerSendsRefines ==
    ASSUME IndInv, NEW len \in PayloadLens, NEW ok \in BOOLEAN, PeerSends(len, ok)
    PROVE  Channel!Send
  <1> DEFINE f == [at |-> written, len |-> len, ok |-> ok]
  <1>1. f \in Frame /\ frames \in Seq(Frame) /\ frames' = Append(frames, f)
    BY DEF Frame, IndInv, TypeOK, PeerSends
  <1> HIDE DEF f
  <1>2. Len(frames') = Len(frames) + 1 /\ frames'[Len(frames) + 1] = f
    BY <1>1
  <1>3. status = "up" /\ UNCHANGED <<delivered, status>>
    BY DEF PeerSends
  <1> QED
    BY <1>1, <1>2, <1>3 DEF Channel!Send

(* Every step keeps the invariant and is a step of the channel, or none.   *)
LEMMA StepOK == IndInv /\ [Next]_vars => IndInv' /\ [Channel!Next]_(Channel!vars)
  <1> SUFFICES ASSUME IndInv, [Next]_vars
               PROVE  IndInv' /\ [Channel!Next]_(Channel!vars)
    OBVIOUS
  <1>1. CASE Resume
    BY <1>1, ResumeOK
  <1>2. CASE ReadSome
    BY <1>2, ReadOK DEF ReadSome
  <1>3. CASE Others
    BY <1>3, OthersOK, OthersRefine
  <1>4. CASE HandshakeReply
    BY <1>4, HandshakeReplyOK, OthersRefine
  <1>5. CASE \E len \in PayloadLens, ok \in BOOLEAN : PeerSends(len, ok)
    BY <1>5, PeerSendsOK, PeerSendsRefines DEF Channel!Next
  <1>6. CASE UNCHANGED vars
    BY <1>6 DEF vars, peerVars, readHalf, Channel!vars, IndInv, TypeOK, NoByteLost,
       StreamOK, HandshakeOK, DecoderOK, StageOK, Current
  <1> QED
    BY <1>1, <1>2, <1>3, <1>4, <1>5, <1>6 DEF Next, Others

(* The invariant holds throughout.                                         *)
LEMMA Invariance == Spec => []IndInv
  <1>1. IndInv /\ [Next]_vars => IndInv'
    BY StepOK
  <1> QED
    BY <1>1, InitOK, PTL DEF Spec

-----------------------------------------------------------------------------

(* The read half keeps its types, and never reads past its buffer.         *)
THEOREM TypeCorrect == Spec => []TypeOK
  <1>1. IndInv => TypeOK
    BY DEF IndInv
  <1> QED
    BY <1>1, Invariance, PTL

(* However read_frame is cancelled, no byte taken from the socket is lost. *)
THEOREM CancelSafe == Spec => []NoByteLost
  <1>1. IndInv => NoByteLost
    BY DEF IndInv
  <1> QED
    BY <1>1, Invariance, PTL

(* The reader implements the frame channel.                                *)
THEOREM Reliable == Spec => ChannelSpec
  <1>1. Init => Channel!Init
    BY DEF Init, Channel!Init
  <1>2. IndInv /\ [Next]_vars => [Channel!Next]_(Channel!vars)
    BY StepOK
  <1> QED
    BY <1>1, <1>2, Invariance, PTL DEF Spec, ChannelSpec, Channel!Spec
=============================================================================
