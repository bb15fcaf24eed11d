CONSTANTS
    Threads = {u1, u2}
    NoThread = NoThread
    Classes = {"error0", "warning"}
    ModelBits = {0, 6}
    MaxGen = 2

SPECIFICATION Spec
SYMMETRY ThreadSymmetry

INVARIANT TypeOK
INVARIANT MaskRestoredWhenUnlocked
PROPERTY ErrorsRefineAtomic
