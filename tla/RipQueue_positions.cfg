SPECIFICATION Spec
CONSTANTS
    a = a
    b = b
    c = c
    Item = {a, b, c}
    NoItem = NoItem
    Signalled = {}
    Priority <- EqualPriority
    TickSecs = 0
    MaxTicks = 0
INVARIANTS
    PositionsSettle
CHECK_DEADLOCK FALSE
