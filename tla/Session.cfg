SPECIFICATION Spec
CONSTANTS
    Sids = {s1, s2}
    TUI = tui
    Bridges = {daemon}
    None = None
    MaxGen = 2
    Hurried = FALSE
SYMMETRY Sym
INVARIANTS ReplayNeedsAnother NewestOnDisk
PROPERTIES KeyKept
