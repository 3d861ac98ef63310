CONSTANTS
    Connections = {c1, c2}
    Requests = {r1, r2, r3}
    Permits = 2
SPECIFICATION FairSpec
INVARIANT CalledReady
INVARIANT PermitsReturn
PROPERTY RequestsServed
