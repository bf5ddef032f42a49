SPECIFICATION RegionSpec
CONSTANTS
    Captures <- AllCaptures
    Load = 2
    ImageEnd = 12
    AddressEnd = 16
    MaxFunctions = 3
    MaxRanges = 3
    MaxRangesEach = 2
    MaxBytes = 6
    MaxXrefs = 2
CHECK_DEADLOCK FALSE
INVARIANT SpillMatchesReference
