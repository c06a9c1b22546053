----------------------------- MODULE MCSession -----------------------------
(* Session for TLC: Proton's session identifiers are interchangeable.      *)
EXTENDS Session, TLC

Sym == Permutations(Sids)
=============================================================================
