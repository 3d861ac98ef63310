CONSTANTS
    Base = 2
    Width = 2
    Ids = {1, 2}
    Second = 2
    Lifetime = 2
    MaxWire = 2
    MaxNow = 3
SPECIFICATION Spec
INVARIANT OneSessionCookie
INVARIANT BrowserPresentsSession
INVARIANT JarHoldsGiven
