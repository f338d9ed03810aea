SPECIFICATION Spec
CONSTANTS
    MaxUnits = 3
    BufSize = 2
    SockCap = 1
INVARIANTS
    TypeOK
PROPERTIES
    ImplementsDuplex
    EndsWhenBroken
CHECK_DEADLOCK FALSE
