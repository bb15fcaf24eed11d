CONSTANTS
    NFeat = 3
    FeatCmds = {"c1", "c2"}
    Results = {"ok", "efault"}
    NumPorts = 2
    MinSz <- MCMinSz

SPECIFICATION Spec

INVARIANT DispatchIsFirstClaim
INVARIANT PortRequestsReachConfigPortOnlyValid
