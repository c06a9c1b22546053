SPECIFICATION Spec
CONSTANTS
    Root = root
    Subdirs = {a, b}
    Inodes = {i0, i1, i2, i3}
    None = None
    Daemons = {d1, d2}
    UserOps = {"mkdir", "rmdir", "rename"}
INVARIANTS OnlyClientWalks LeftoversWereRenamed MarksAreFound
