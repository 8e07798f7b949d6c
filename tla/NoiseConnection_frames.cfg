\* Frames with an empty payload, one as long as a header and a longer one.
CONSTANTS
    HandshakeLen = 2
    HeaderLen = 2
    PayloadLens = {0, 2, 3}
    MaxFrames = 3
SPECIFICATION FairSpec
INVARIANTS
    TypeOK
    NoByteLost
PROPERTIES
    ChannelSpec
    FramesGetThrough
    HandshakeEnds
CHECK_DEADLOCK FALSE
