SPECIFICATION Spec
CONSTANTS
    MaxUp = 2
    MaxFrames = 3
    WireCap = 1
    ClientCap = 1
INVARIANTS
    TypeOK
    FramesWhole
    LockHeldByWriters
    PingsAnswered
PROPERTIES
    ImplementsDuplex
    SessionEnds
    DownloadCompletes
CHECK_DEADLOCK FALSE
