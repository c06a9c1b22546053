------------------------------ MODULE MCBackup ------------------------------
(* Instances of Backup: two files, one of which can come to lie under a    *)
(* name that is refused; two contents of one size, one of them undigested. *)
EXTENDS Backup

MCFolder == [f \in Files |-> IF f = "notes" THEN "root" ELSE "docs"]
MCParts  == [f \in Files |-> IF f = "dots" THEN {"plain", "dotdot"}
                                           ELSE {"plain"}]
MCSize   == [c \in Contents \cup {Partial} |->
               CASE c = Partial -> 1 [] OTHER -> 2]
=============================================================================
