SPECIFICATION Spec
CONSTANTS
    c1 = c1
    c2 = c2
    Clients = {c1, c2}
    Hosts <- ResolutionHosts
    Packets <- ResolutionPackets
    MaxClock = 0
    WS_FAILURE_COOLDOWN = 4
    WS_ATTEMPT_WINDOW = 1
INVARIANTS
    LearnedFromInit
    RouteMatchesInit
PROPERTIES
    FirstHitOnly
    AttemptResolves
