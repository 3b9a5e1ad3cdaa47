CONSTANTS
    Chunk = 2
    MaxSessions = 4
    MaxRequests = 6
    Magics = {1, 2}
SPECIFICATION PeerSpec
INVARIANTS
    SidsConserved
    NoForeignReply
    OverrunOnlyWhenFull
PROPERTY LeaseSpec
\* a write past ob_sessions ends the behaviour
CHECK_DEADLOCK FALSE
