SPECIFICATION MCSpec
CONSTANTS
    Languages = {"english", "german"}
    Handles = {"first", "second"}
    Installed <- MCInstalled
    Ids = {1, 2}
    Texts <- MCTexts
    MaxCalls = 2
    MaxId = 4
    Payloads = {"a", "b"}
PROPERTIES
    AllocationFindsFreeIds
    RemovedIdsStayRetired
    OpenedTablesAreWhole
    OtherSetsAreUntouched
