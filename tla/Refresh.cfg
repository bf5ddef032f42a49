CONSTANTS
    Candidates = {a, b}
    MaxCalls = 3
    a = a
    b = b
SYMMETRY CreationSymmetry
SPECIFICATION Spec
CHECK_DEADLOCK FALSE
INVARIANTS
    Recoverable
    MixedIsMarked
    ErrorRestores
    SuccessIsWhole
    CountersAreHonest
PROPERTIES
    InventoryGrows
