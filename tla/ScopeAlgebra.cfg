CONSTANTS
    Width = 3
    ByteWidth = 1
    MaxFlags = 3

SPECIFICATION Spec

INVARIANT DeclaredBitsOnly
INVARIANT YieldsContainedFlags
INVARIANT IsAllMeansPrimitivesAndBare
INVARIANT ColumnRoundTrip
INVARIANT TextRoundTrip
