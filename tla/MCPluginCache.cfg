SPECIFICATION SpecLight
CONSTANTS
    Names <- MCNames
    Lower <- MCLower
    EslFile = 2
    EslObjects = 4
    LightSlots = 2
    MaxEntries = 4
    MaxDrafts = 2
    U8 = 3
    U16 = 3
    Plugins <- MCPlugins
    Drafts <- MCDrafts
    EditorIds = {"a", "b", "c"}
    NoEditorId = NoEditorId
INVARIANTS
    LoadOrderIsConsistent
    TypeListsPartitionWinners
    WinnersAreFound
    FirstSlotOwnsItsRecords
PROPERTIES
    ResolutionIsStable
    ImplementsOverrides
CHECK_DEADLOCK FALSE
