CONSTANTS
    Threads = {u1, u2}
    NoThread = NoThread
    Classes = {"error0", "warning"}
    ModelBits = {0, 6}
    MaxGen = 2

SPECIFICATION Spec

INVARIANT NoUnseenErrorCleared
