SPECIFICATION Spec
CONSTANTS
    None = None
    Disabled = Disabled
    NoConn = NoConn
    BackoffMax = 4
    Tasks = {t1, t2}
    Conns = {c1, c2, c3}
    MaxSize = 1
    Block = TRUE
    PoolTimeout = FALSE
    Proxy = TRUE
    Modes <- AnyMode
    InitialRetries <- OneRetry
    Responses <- Redirecting
    Disturbances <- NoCancel
PROPERTIES LendsOneAtATime NothingLentAfterClose
CHECK_DEADLOCK FALSE
