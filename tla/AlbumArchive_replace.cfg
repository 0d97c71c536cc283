SPECIFICATION Spec
CONSTANTS
    j1 = j1
    j2 = j2
    Job = {j1, j2}
    Policy <- MCPolicy
    Parts <- MCParts
    Gen <- MCGen
    OldGen = "g"
    CodecOf <- MCCodecOf
    Forced = {j2}
    TracksCached = {j1}
    Delivers = {j1}
INVARIANTS
    PartsAccounted
    ArchiveIsWhole
    DeliveredWhole
CHECK_DEADLOCK FALSE
