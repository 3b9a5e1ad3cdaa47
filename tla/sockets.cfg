CONSTANTS
    Senders = {s1, s2}
    Receivers = {r1, r2}
    None = none
    Count = 2
    Total = 3
    QueueLen = 1
    Clients = {a, b, d}
    Lines <- MCLines
    BufferSize = 4
    Backlog = 1
    MaxSockets = 2
    Capacity = 1
    MaxLines = 2
SPECIFICATION SocketsSpec
INVARIANTS
    OnceAndInOrder
    NothingElseIsMissed
    EchoInOrder
PROPERTIES
    AllSendersFinish
    QueuedIsReceived
    WaitingIsAnswered
    EndedIsForgotten
\* senders and receivers end; clients end, wait for ever after an empty line, or type no more
CHECK_DEADLOCK FALSE
