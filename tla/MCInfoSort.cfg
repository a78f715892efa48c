SPECIFICATION Spec
CONSTANTS
    Loads <- MCLoads
    Topics = {"d", "t"}
    Ids = {"a", "b"}
    Links = {"null", "a", "c"}
    MaxCalls = 2
INVARIANTS
    OnlyCyclesAreRefused
    PlansFollowTheLinks
PROPERTIES
    AppliedLinksAreWritten
CHECK_DEADLOCK FALSE
