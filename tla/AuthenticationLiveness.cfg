CONSTANTS
    Ids = {i1, i2}
    UserIds = {u1}
    Requests = {r1, r2}
    MaxNow = 0
    Lifetime = 1
    MaxVersion = 1
SPECIFICATION FairSpec
PROPERTY CallsReturn
