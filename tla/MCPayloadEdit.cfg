SPECIFICATION Spec
CONSTANTS
    Radix = 8
    AliasVariant = 2
    PackdataVariant = 3
    ConditionFunctions <- MCConditionFunctions
    ResolvedSignature <- MCResolvedSignature
    Cases <- MCCases
INVARIANTS
    EditsReadBack
    CountsFollowArrays
PROPERTY
    OnlyTheEditedPartChanges
CHECK_DEADLOCK FALSE
