SPECIFICATION Spec
CONSTANTS
    MaxUp = 1
    MaxFrames = 2
    WireCap = 1
    ClientCap = 1
INVARIANTS
    NoSharedLockStall
CHECK_DEADLOCK FALSE
