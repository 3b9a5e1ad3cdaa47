CONSTANTS
    Servers = {monitor, ca_log, self}
    Agent = agent
    Self = self
    Silent = {ca_log}
    MaxSends = 2
    Names <- MCNames
    App = "me"
    Values <- MCValues
    Number <- MCNumber
    Short <- MCShort
    Pieces <- MCPieces
    Args = {0, 80, 7002, 67536}
    MaxPieces = 4
    FieldSizes = {4, 6}
    BufferSize = 6
    Beyond = 3
    Stacks <- MCStacks
    MaxLen = 6
SPECIFICATION ConfigSpec
INVARIANTS
    PublishedOnceInOrder
    ConfigsNeverSettle
    OwnPortIsListed
    ServersUnderTheirHeader
    StringsAreRead
PROPERTIES
    LevelBecomesCritical
\* all sent that the bound allows, start-up over, main returned, one value read
CHECK_DEADLOCK FALSE
