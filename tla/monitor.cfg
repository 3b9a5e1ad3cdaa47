CONSTANTS
    Nil = Nil
    Roots <- MCRoots
    MaxChildren = 3
SPECIFICATION Spec
INVARIANTS
    StartedInOrder
    AllStarted
PROPERTIES
    EveryEndIsTold
\* all processes may have ended
CHECK_DEADLOCK FALSE
