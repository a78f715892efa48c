SPECIFICATION RegistrySpec
CONSTANTS
    LinkHandlers <- MCLinkHandlers
    ServiceHandlers <- MCServiceHandlers
    PlainHandlers <- MCPlainHandlers
    Packages <- MCPackages
    Records <- MCRecords
    Values <- MCValues
    CoordinateMin <- MCCoordinateMin
    Resolvers = {r1}
    Tables = {t1}
    t1 = t1
    t2 = t2
    LoadOrders = {0}
    CustomIds = {"format.ctda_condition", "migrate.worldspace_after_load", "resolve.navmesh_edge"}
    Versions = {2}
    MaxCalls = 5
    Decoders <- MCDecoders
    Contexts = {c1}
    Editors = {e1}
    None = None
INVARIANTS
    RegistryIsConsistent
    AnswersFitTheRecord
CHECK_DEADLOCK FALSE
