SPECIFICATION Spec
CONSTANTS
    None = None
    Absent = Absent
    Null = Null
    Clients = {"manager"}
    Homes <- MCHomes
    ProxyUrl <- MCProxyUrl
    Targets <- MCTargets
    Locations <- MCLocations
    CallerDicts <- MCCallerDicts
    DefaultDict <- MCDefaultDict
    ProxyDict <- MCProxyDict
    FieldLists <- MCFieldLists
    Boundaries = {"b", "c"}
    ResponseLines <- MCResponseLines
    Unquotable <- MCUnquotable
    KnownTypes <- MCKnownTypes
    HopBound = 2
INVARIANTS HeadersAsDocumented
