SPECIFICATION FairSpec
CONSTANTS
    j1 = j1
    j2 = j2
    j3 = j3
    album = album
    track = track
    Job = {j1, j2, j3}
    Key = {album, track}
    NoJob = NoJob
    Targets <- MCTargets
INVARIANTS
    EntriesAreLive
    AcceptedCancelWins
    OneTerminalEvent
    OutcomeMatchesRun
PROPERTIES
    AcceptedCancelSettles
CHECK_DEADLOCK FALSE
