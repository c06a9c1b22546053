SPECIFICATION Spec
CONSTANTS
    None = None
    Files = {f1, f2}
    Copies = {k1}
    Contents = {c1, c2}
    Links = {l1, l2, l3}
    Inodes = {i1, i2, i3, i4}
    Kinds = {"sync"}
    UserSteps <- BetweenPasses
    FreeRenames = FALSE
    Repeats = FALSE
    MaxFeed = 1
    Faults = {}
    MaxFaults = 0
SYMMETRY FileAndLinkSymmetry
INVARIANTS NothingDiscarded BaselineVouchesForSafe CursorMeansApplied
PROPERTIES TrashesOnlyRemoved
