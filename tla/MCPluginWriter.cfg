SPECIFICATION Spec
CONSTANTS
    EslFile = 3
    EslObjects = 7
    DefaultNextId = 4
    U8 = 4
    Contexts <- MCContexts
    Groups <- MCGroups
    MasterNames = {"Base.esm"}
    MaxGroups = 3
    MaxMasters = 1
    MaxEslify = 2
INVARIANTS
    ReferencesFollowTheirRecords
    HeaderFitsRecords
