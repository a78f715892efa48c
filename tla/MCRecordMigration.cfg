SPECIFICATION Spec
CONSTANTS
    Sources <- MCSources
    MaxOpens = 2
INVARIANTS
    OpenRecordIsCurrent
PROPERTIES
    ReopenChangesNothing
    MigrationKeepsFields
    MutationsApply
CHECK_DEADLOCK FALSE
