CONSTANTS
    Ids = {i1, i2}
    UserIds = {u1, u2}
    MaxNow = 4
    Expiries = {0, 1, 3}

SPECIFICATION Spec

INVARIANT TypeOK
INVARIANT DeadlineCoversExpiry
INVARIANT NeverForgottenEarly
INVARIANT ExpiresAsDocumented
INVARIANT DeadlineTracksExpiry
PROPERTY ImplementsContract
