SPECIFICATION FairSpec
CONSTANTS
    j1 = j1
    j2 = j2
    j3 = j3
    album = album
    track = track
    Job = {j1, j2}
    Key = {album, track}
    NoJob = NoJob
    Targets <- TwoTargets
PROPERTIES
    DuplicateIsSettled
CHECK_DEADLOCK FALSE
