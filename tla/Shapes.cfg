SPECIFICATION Spec
CONSTANTS
    Programs <- AllPrograms
    Recovered <- TwoGlobals
    Top = 7
CHECK_DEADLOCK FALSE
INVARIANT ObservationsTrue
PROPERTIES
    SeedsOnlyAdd
    TrackingConverges
