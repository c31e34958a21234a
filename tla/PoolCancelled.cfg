SPECIFICATION FairSpec
CONSTANTS
    None = None
    Disabled = Disabled
    NoConn = NoConn
    BackoffMax = 4
    Tasks = {t1, t2}
    Conns = {c1, c2, c3}
    MaxSize = 1
    Block = TRUE
    PoolTimeout = TRUE
    Proxy = FALSE
    Modes <- Preloading
    InitialRetries <- OneRetry
    Responses <- AnyResponse
    Disturbances <- PeerAndCancel
INVARIANTS SlotsNeverLost
PROPERTIES RequestCompletes
