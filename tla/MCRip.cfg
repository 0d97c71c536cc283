SPECIFICATION PartsSpec
CONSTANTS
    Parts = {"pair", "atmos", "stereo", "variants", "lines", "fragment", "sink"}
    ripA = ripA ripS = ripS
    Rip = {ripA, ripS}
    BaseName <- SameName
    Atmos = {ripA}
    Kinds = {"native", "endpoints", "none"}
    MaxRetries = 1
    Rounds = 2
    MaxTogether = 1
    o1 = o1 o2 = o2 w1 = w1 pr = pr none = none
INVARIANTS
    RipIsClean
    StreamAsAsked
    FragmentIntact
PROPERTIES
    EveryRipEnds
    EveryOperationEnds
CHECK_DEADLOCK FALSE
