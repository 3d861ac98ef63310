CONSTANTS
    Slots = {x, y, z}
    Backends = {b}
    Ids = {i, j}
    MaxStores = 2
SPECIFICATION Spec
INVARIANT TypeOK
INVARIANT KinExplained
PROPERTY KinShareSessions
