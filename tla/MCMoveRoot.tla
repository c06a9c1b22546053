----------------------------- MODULE MCMoveRoot -----------------------------
EXTENDS MoveRoot, TLC
Sym == Permutations(Files) \cup Permutations(Roots \ {Home})
=============================================================================
