SPECIFICATION MCSpec
CONSTANTS
    Plugins <- MCPlugins
    Replacements <- MCReplacements
    FormIds <- MCFormIds
    U32 = 9
    MasterCounts = {0, 2}
    MaxOrder = 2
    None = None
    MaxFrames = 3
    MaxRounds = 2
    Headers <- MCHeaders
    Patches <- MCPatches
INVARIANTS
    EveryEditIsWritten
CHECK_DEADLOCK FALSE
