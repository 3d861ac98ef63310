CONSTANTS
    Ids = {i1}
    UserIds = {u1}
    Requests = {r1, r2}
    MaxNow = 0
    Lifetime = 1
    MaxVersion = 1
    Granted = {0}
SPECIFICATION AuthorizationSpec
INVARIANT AuthorizationJustified
INVARIANT DecisionsExplained
PROPERTY DecisionsAgree
PROPERTY RestoredUserFresh
