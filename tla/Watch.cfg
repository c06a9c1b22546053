SPECIFICATION Spec
CONSTANTS
    Root = root
    Dirs = {d1, d2}
    Names = {n1, n2, tmp}
    Ignored = {tmp}
    Outside = outside
    Nowhere = nowhere
    Removed = removed
    None = None
    MaxChan = 1
    MaxQueue = 3
    MaxSteps = 3
INVARIANTS KnownBlindSpots ChangesOnTheirWay
CHECK_DEADLOCK FALSE
