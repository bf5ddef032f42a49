CONSTANTS
    N = 2
    MaxFns = 1
    MaxRuns = 2
SPECIFICATION Spec
CHECK_DEADLOCK FALSE
INVARIANTS
    AssemblyAccepts
    CurrentnessInference
    SidecarIsWhole
    FilesMatchRecords
PROPERTIES
    PriorSidecarKept
