SPECIFICATION Spec
CONSTANTS
    StaticIP = {s1}
    LeaseIP = {l1, l2}
    ZERO = zero
    Unknown = unknown
    Down = down
    MaxRestarts = 1
INVARIANTS
    TypeOK
    ServersWhileRunning
    OneAddress
PROPERTIES
    ImplementsService
    ComesUp
    GoesDown
