CONSTANTS
    Header = 2
    BufSize = 5
    MtMax = 2
    MaxSent = 3
    Messages <- MCMessages
    Junk <- MCJunk
SPECIFICATION Spec
INVARIANT Reassembled
\* a connection closes, and libuv or a call past pbcbs may abort the program
CHECK_DEADLOCK FALSE
