SPECIFICATION Spec
CONSTANTS
    c1 = c1
    c2 = c2
    Clients = {c1, c2}
    Hosts <- BackoffHosts
    Packets <- BackoffPackets
    MaxClock = 6
    WS_FAILURE_COOLDOWN = 4
    WS_ATTEMPT_WINDOW = 1
SYMMETRY ClientSymmetry
INVARIANTS
    TypeOK
PROPERTIES
    BackoffKept
    OneProbePerWindow
    DisabledOnlyAfterAll404
    QuietStaysDisabled
