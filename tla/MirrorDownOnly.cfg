SPECIFICATION Spec
CONSTANTS
    None = None
    Files = {f1}
    Copies = {k1, k2}
    Contents = {c1, c2, c3}
    Links = {l1, l2, l3, l4, l5, l6}
    Inodes = {i1, i2, i3, i4}
    Kinds = {"sync", "down"}
    UserSteps <- BetweenPasses
    FreeRenames = FALSE
    Repeats = FALSE
    MaxFeed = 2
    Faults = {}
    MaxFaults = 0
INVARIANTS NothingDiscarded
