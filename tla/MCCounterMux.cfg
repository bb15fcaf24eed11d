CONSTANTS
    Threads = {t1, t2}
    NoThread = NoThread
    Root = Root
    Timeout = 2
    Domains = {"cache", "fabric"}
    CacheEvents <- MCCacheEvents
    FabEvents <- MCFabEvents
    VtdBases <- MCVtdBases
    Ports <- MCPorts
    CacheBanksLatchTogether = TRUE

SPECIFICATION Spec
SYMMETRY ThreadSymmetry

INVARIANT TypeOK
INVARIANT ReadReturnsRequestedCount
INVARIANT NoLostUpdate
PROPERTY CountersRefineAtomic
