CONSTANTS
    Fds = {1, 2, 3}
    MaxSlots = 3
    MaxEvents = 2
    MaxFiles = 3
    MaxBroken = 1
SPECIFICATION Spec
INVARIANTS
    WatchedInTheirSlots
    EventsReachTheirListener
PROPERTIES
    ReadyIsDispatched
\* an error ends the program, a null listener crashes it
CHECK_DEADLOCK FALSE
