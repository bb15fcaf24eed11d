CONSTANTS
    Threads = {t1, t2}
    NoThread = NoThread
    Root = Root
    Timeout = 1
    Domains = {"cache", "iommu"}
    CacheEvents <- MCCacheEvents
    FabEvents <- MCFabEvents
    VtdBases <- MCVtdBases
    Ports <- MCPorts
    CacheBanksLatchTogether = TRUE

SPECIFICATION Spec

INVARIANT ReadReturnsRequestedCount
PROPERTY LockReleased
INVARIANT VtdEventDecodes
INVARIANT NoLostUpdate
