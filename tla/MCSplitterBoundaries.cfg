SPECIFICATION Spec
CONSTANTS
    Streams <- MCStreams
    MaxMessages = 2
    Fills = {1}
INVARIANTS
    BoundariesPreserved
CHECK_DEADLOCK FALSE
