CONSTANTS
    Threads = {t1, t2}
    NoThread = NoThread
    Root = Root
    Timeout = 2
    Domains = {"cache"}
    CacheEvents <- MCCacheEvents
    FabEvents <- MCFabEvents
    VtdBases <- MCVtdBases
    Ports <- MCPorts
    CacheBanksLatchTogether = FALSE

SPECIFICATION Spec

INVARIANT ReadReturnsRequestedCount
