CONSTANTS
    i1 = i1
    i2 = i2
    u1 = u1
    u2 = u2
    r1 = r1
    r2 = r2
    Ids = {i1}
    UserIds = {u1, u2}
    Requests = {r1, r2}
    MaxNow = 1
    Lifetime = 1
    MaxVersion = 0
SPECIFICATION HistorySpec
SYMMETRY Symmetry
INVARIANT HistoryTypeOK
INVARIANT BoundsEnclose
INVARIANT SessionsDurable
PROPERTY RestoredSessionValid
PROPERTY EntitledRestored
