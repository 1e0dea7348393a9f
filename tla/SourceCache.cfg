CONSTANTS
    Execs = {e1, e2}
    NoOne = NoOne
    Bounds <- MCBounds
    Recorders = {r1, r2}
    Listers = {w1, w2}
    MaxRecords = 2
    MaxLists = 2
    MaxRemovals = 1
SPECIFICATION MCSpec
SYMMETRY Interchangeable
INVARIANTS SoundOutputs NoCacheIsFresh OneVersionPerResult MetadataIsKept
CHECK_DEADLOCK FALSE
