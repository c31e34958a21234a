SPECIFICATION Spec
CONSTANTS
    t1 = t1
    t2 = t2
    http1 = http1
    http2 = http2
    https1 = https1
    https2 = https2
    p1 = p1
    p2 = p2
    p3 = p3
    p4 = p4
    None = None
    Disabled = Disabled
    BackoffMax = 4
    ProxyHost = ProxyHost
    NoPool = NoPool
    Tasks <- OneTask
    Hosts <- Both
    SecureHosts <- Secure
    Proxied = TRUE
    Pools <- FourPools
    NumPools = 2
    RetriesArgs <- NoRedirects
    HopBound = 3
    Disturbances <- Undisturbed
INVARIANTS RedirectLimitHonoured
