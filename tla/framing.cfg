CONSTANTS
    Header = 2
    BufSize = 5
    MtMax = 2
    MaxSent = 3
    Messages <- MCMessages
    Junk <- MCJunk
SPECIFICATION Spec
INVARIANTS
    CopyInBounds
    FramedWhenAligned
    AbortsOnlyWhenTorn
PROPERTY Delivered
\* a connection closes, and libuv or a call past pbcbs may abort the program
CHECK_DEADLOCK FALSE
