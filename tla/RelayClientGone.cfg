SPECIFICATION Spec
CONSTANTS
    MaxUp = 1
    MaxFrames = 1
    WireCap = 1
    ClientCap = 1
PROPERTIES
    EndsWhenClientGone
CHECK_DEADLOCK FALSE
