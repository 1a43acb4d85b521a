SPECIFICATION ThrottleSpec
CONSTANTS
    Request = {r1, r2, r3}
    Address = {ada}
    Peer = {home}
    Minute = 2
    Hour = 4
    PerHour = 2
    PerPeer = 2
    MaxDelay = 2
    MaxTime = 4
    None = None
SYMMETRY Requests
INVARIANTS
    ThrottleTypeOK
    WithinLimits
CHECK_DEADLOCK FALSE
