SPECIFICATION FairSpec
CONSTANTS
    a = a
    b = b
    c = c
    Item = {a, b, c}
    NoItem = NoItem
    Signalled = {a}
    Priority <- EqualPriority
    TickSecs = 0
    MaxTicks = 0
PROPERTIES
    EveryItemAnswered
    CancelledItemAnswered
CHECK_DEADLOCK FALSE
