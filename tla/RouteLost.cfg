SPECIFICATION Spec
CONSTANTS
    Images <- Two
    Options <- Pairwise
    Lacking <- NoDecoder
    MaxFaults = 1
CHECK_DEADLOCK FALSE
INVARIANTS
    NoMapLost
