SPECIFICATION Spec
CONSTANTS
    Versions = {1, 2}
    Discoveries <- MCDiscoveries
    MaxRuns = 2
    MaxMishaps = 2
INVARIANTS
    ContextIsThisRuns
    ManifestsBindTerminalFiles
    AppliedIsBound
    SecondPassOK
