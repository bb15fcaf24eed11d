CONSTANTS
    PortNum = 2
    Root = Root
    Readers = {r1, r2}
    NoThread = NoThread

SPECIFICATION Spec
\* fme_perf_init and fme_perf_uinit run once; the walk ends.
CHECK_DEADLOCK FALSE

INVARIANT NothingLeftBehind
INVARIANT DestroyReversesCreate
PROPERTY TeardownCompletes
