CONSTANTS
    Conns = {c1, c2, c3}
    Timers = {t1, t2, t3}
    Burst = 3
    Units = 2
    Room = 3
    MaxMessages = 5
    Users = {u1, u2, u3}
    n_items = 3
    Outside = {3, 4}
SPECIFICATION MemorySpec
INVARIANTS
    RepliesFindTheirHandle
    OnlyThoseAreMissed
    OnlyDeferredIsSpoilt
    SlotsAreKept
PROPERTIES
    TakenIsFreed
\* every client has gone, libuv is corrupted, or all is written that the bound allows
CHECK_DEADLOCK FALSE
