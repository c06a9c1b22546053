------------------------------ MODULE MCMirror ------------------------------
(* Mirror on small instances: the sets the configurations choose from.     *)
EXTENDS MirrorInv, TLC

(* When the local user acts: between passes, or at any moment.             *)
BetweenPasses == {"idle"}
AnyTime == Steps

(* What fails: a request whose error the code does not swallow before it   *)
(* saves the cursor, or besides that the process, which is killed.         *)
Failing   == {"poll", "move", "trash", "upload"}
Reported  == Failing \cup {"crash"}

FileSymmetry == Permutations(Files)

(* Names and link ids.  Mirror takes a link id that nothing names any more, *)
(* and which one tells no two behaviours apart: states that differ by a     *)
(* permutation of the ids behave alike.                                     *)
FileAndLinkSymmetry ==
    {[x \in Files \cup Links |-> IF x \in Files THEN f[x] ELSE g[x]] :
        f \in Permutations(Files), g \in Permutations(Links)}
=============================================================================
