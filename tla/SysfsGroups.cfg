CONSTANTS
    NGroups = 6
    Null = Null

SPECIFICATION Spec

INVARIANT TypeOK
INVARIANT CreateAllOrNothing
INVARIANT NoRemoveOfAbsentGroup
