CONSTANTS
    p1 = p1
    p2 = p2
    Pitches = {p1, p2}
    Sizes = {0, 3}
    Bullet = 2
    BufSize = 2
    Capacity = 2
    Backlog = 1
    MaxFaults = 2
SPECIFICATION Spec
INVARIANTS
    InStep
    NeverBothWait
PROPERTIES
    TransfersComplete
    HangsComeFromRecvZero
\* transfers end, and recv_data may loop for ever
CHECK_DEADLOCK FALSE
