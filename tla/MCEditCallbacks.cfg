SPECIFICATION Spec
CONSTANTS
    Schemas <- MCSchemas
INVARIANTS
    DependentFieldsFit
PROPERTIES
    DependentValuesFollow
