SPECIFICATION Spec
CONSTANTS
    None = None
    Absent = Absent
    Null = Null
    Clients = {"pool", "manager", "proxy"}
    Homes <- MCHomes
    ProxyUrl <- MCProxyUrl
    Targets <- MCTargets
    Locations <- MCLocations
    CallerDicts <- MCCallerDicts
    DefaultDict <- MCDefaultDict
    ProxyDict <- MCProxyDict
    FieldLists <- MCFieldLists
    Boundaries = {"b", "c"}
    ResponseLines <- MCResponseLines
    Unquotable <- MCUnquotable
    KnownTypes <- MCKnownTypes
    HopBound = 2
INVARIANTS TypeOK ParsesAsMeant ReachesTarget StaysOnHost HeadersAsChosen ProxyHeadersGoToProxy
           HostNamesTarget FieldsArrive HeadersSurvive
PROPERTY DictsUntouched
