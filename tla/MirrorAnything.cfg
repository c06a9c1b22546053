SPECIFICATION Spec
CONSTANTS
    None = None
    Files = {f1, f2}
    Copies = {k1}
    Contents = {c1}
    Links = {l1, l2, l3, l4, l5, l6}
    Inodes = {i1, i2, i3, i4}
    Kinds <- PassKinds
    UserSteps <- AnyTime
    FreeRenames = TRUE
    Repeats = FALSE
    MaxFeed = 1
    Faults <- FaultKinds
    MaxFaults = 1
SYMMETRY FileSymmetry
INVARIANTS TypeOK Locals
