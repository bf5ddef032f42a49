SPECIFICATION FairSpec
CONSTANTS
    Lines <- AllLines
    MaxLines = 2
    SpamMax = 1
    MaxFaults = 2
CHECK_DEADLOCK FALSE
INVARIANTS
    CertifiedIsThisRuns
    NotCurrentIsIncomplete
    ProcessesOK
PROPERTIES
    CurrentIsStable
    HangIsKilledWhileWatched
