SPECIFICATION FairSpec
CONSTANTS
    None = None
    Files = {f1}
    Copies = {k1, k2}
    Contents = {c1, c2}
    Links = {l1, l2, l3}
    Inodes = {i1, i2, i3, i4}
    Kinds = {"sync", "refresh"}
    UserSteps <- BetweenPasses
    FreeRenames = FALSE
    Repeats = FALSE
    MaxFeed = 2
    Faults <- Reported
    MaxFaults = 1
INVARIANTS CursorMeansApplied
PROPERTIES Converges
