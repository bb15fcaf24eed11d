CONSTANTS
    Threads = {u1, u2}
    NoThread = NoThread
    Inputs <- MCInputs
SYMMETRY ThreadSymmetry
INIT Init
NEXT Next
INVARIANT ThresholdsHoldLastAccepted
PROPERTY LockBitFreezesThresholds
PROPERTY ThresholdsRefineAtomic
