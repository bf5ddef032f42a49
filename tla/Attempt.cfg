CONSTANTS
    Cap = 1
    MaxOut = 2
    IdleLimit = 1
    AbsoluteLimit = 2
    MaxFaults = 2
SPECIFICATION Spec
CHECK_DEADLOCK FALSE
INVARIANTS
    NoStraySignal
    RetainedCaptureIsFinal
    SuccessIsComplete
PROPERTIES
    MeetsContract
    AttemptEnds
    GroupDies
