SPECIFICATION Spec
CONSTANTS
    Roots = {home, disk2, disk3}
    Home = home
    Files = {f1, f2}
    None = None
    MinDeletions = 2
    GuardPercent = 100
INVARIANTS FilesSurvive RenamesAreSafe
SYMMETRY Sym
