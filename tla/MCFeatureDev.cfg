CONSTANTS
    Threads = {u1, u2, u3}
    Remover = Remover
    NoThread = NoThread
    NFeat = 3
    ErrFeat = 2
    QspiFeat = 3

SPECIFICATION Spec
SYMMETRY ThreadSymmetry
\* The driver stops after a failed probe or after remove.
CHECK_DEADLOCK FALSE

INVARIANT TypeOK
INVARIANT OpenAccounting
INVARIANT DetachedIsClean
INVARIANT FeaturesSeePrivate
