CONSTANTS
    Threads = {u1, u2}
    Remover = Remover
    NoThread = NoThread
    NFeat = 3
    ErrFeat = 2
    QspiFeat = 3

SPECIFICATION Spec
\* The driver stops after a failed probe or after remove.
CHECK_DEADLOCK FALSE

INVARIANT QspiChildReleased
