SPECIFICATION Spec
CONSTANTS
    a = a
    b = b
    c = c
    Item = {a, b, c}
    NoItem = NoItem
    Signalled = {a}
    Priority <- MCPriority
    TickSecs = 3000
    MaxTicks = 1
INVARIANTS
    SerialDownloads
    NoStrandedItem
    OnePlace
    CancelIsolated
PROPERTIES
    OvertakingIsBounded
    ImplementsService
CHECK_DEADLOCK FALSE
