CONSTANTS
    Futures = {f1, f2}
    Workers = {w1, w2}
    UserTypes = {t1, t2}
    Sessions = {s1}
    MaxDepth = 2
SPECIFICATION Spec
INVARIANT IdleWorkersClean
PROPERTY ImplementsContext
