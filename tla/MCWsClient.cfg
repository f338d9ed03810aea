SPECIFICATION Spec
CONSTANTS
    Replies <- MCReplies
    Frames <- MCFrames
    MaxFrames = 2
    MAX_HANDSHAKE_HEADER_SIZE = 6
INVARIANTS
    TypeOK
    FramesInSync
    EndsAsCut
    VerdictFollowsReply
PROPERTIES
    ImplementsFrameChannel
    ConnectEnds
CHECK_DEADLOCK FALSE
