CONSTANTS
    Bytes = {b0, b1}
    Half = 2
    MaxPlain = 1
    Users = {u, v}
SPECIFICATION Spec
INVARIANT KeptExplained
PROPERTY AcceptsItsPlaintext
PROPERTY EqualWhenAlikeInBoth
