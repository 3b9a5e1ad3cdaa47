CONSTANTS
    monitor = monitor
    other = other
    Servers = {monitor, other}
    Monitor = monitor
    Burst = 2
    Magics = {1}
    Chunk = 2
    MaxSessions = 2
    MaxRequests = 4
SPECIFICATION Spec
INVARIANTS
    PoolMatchesTraffic
PROPERTIES
    LeaseSpec
    EveryRequestSettles
    BreakNoticed
\* requests are bounded, and the agent may crash
CHECK_DEADLOCK FALSE
