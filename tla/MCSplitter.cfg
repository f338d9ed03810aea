SPECIFICATION Spec
CONSTANTS
    Streams <- MCStreams
    MaxMessages = 3
    Fills = {1, 127}
INVARIANTS
    TypeOK
    PartsTile
    OneFramePerMessage
    CutsBetweenMessages
CHECK_DEADLOCK FALSE
