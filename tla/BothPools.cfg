SPECIFICATION BothSpec
CONSTANTS
    t1 = t1
    t2 = t2
    t3 = t3
    c1 = c1
    c2 = c2
    c3 = c3
    c4 = c4
    c5 = c5
    None = None
    Disabled = Disabled
    NoConn = NoConn
    BackoffMax = 4
    Tasks <- ThreeTasks
    Conns <- FiveConns
    MaxSize = 2
    Block = TRUE
    PoolTimeout = FALSE
    Proxy = FALSE
    Modes <- Preloading
    InitialRetries <- OneRetryOrOff
    Responses <- AnyResponse
    Disturbances <- PeerAndClose
SYMMETRY Interchangeable
INVARIANTS TypeOK Exclusive WithinMaxSize SlotsConserved NoFlood GrowingLeaksNothing
CHECK_DEADLOCK FALSE
