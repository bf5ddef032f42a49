CONSTANTS
    Known = {1, 2, 3}
    Fresh = {4, 5}
    Inventories <- Inventory
    Proofs <- Proof
    MaxRuns = 3
SPECIFICATION Spec
INVARIANTS
    ProgramOK
    NamesKeepTheirRank
    ExportIsPublishable
    MapsApplyBarSharedThunks
PROPERTY ReplayKeepsNames
