SPECIFICATION Spec
CONSTANTS
    Packages <- MCPackages
    MaxCalls = 3
INVARIANTS
    ViewAndEditorAgree
    CounterFollowsItems
PROPERTIES
    ValidRecordsStayValid
    LosslessEdit
    GroupEditIsLocal
    DecodedFollowsRecord
CHECK_DEADLOCK FALSE
