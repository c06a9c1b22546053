------------------------------ MODULE Reconcile ------------------------------
(***************************************************************************)
(* The three-way decision of internal/mirror/reconcile.go: what to do      *)
(* about one path, from the baseline, the local side and the remote side.  *)
(*                                                                         *)
(* A side is Absent, a Directory, a file whose hash was not computed       *)
(* (Unhashed) or a file with a hash.  Hashes are compared without case, so *)
(* a member of Hashes stands for all spellings of one digest.              *)
(***************************************************************************)
CONSTANTS Hashes, Absent, Directory, Unhashed

ASSUME SidesAssumption ==
    /\ {Absent, Directory, Unhashed} \cap Hashes = {}
    /\ Absent # Directory /\ Absent # Unhashed /\ Directory # Unhashed

Sides == Hashes \cup {Absent, Directory, Unhashed}
Facts == [base : Sides, local : Sides, remote : Sides]

Actions == {"nothing", "download", "upload", "adopt", "trash-local",
            "trash-remote", "conflict", "mkdir-local", "mkdir-remote",
            "drop-baseline"}

(* changedLocally and changedRemotely: an unknown hash proves no change.   *)
SideChanged(base, side) ==
    IF base = Absent THEN side # Absent
    ELSE /\ base # side
         /\ Unhashed \in {base, side} =>
               {base, side} \cap {Absent, Directory} # {}

(* Mutant: two sides are never known to be the same.                       *)
SameNever(local, remote) == FALSE

SameContent(local, remote) ==
    local = remote /\ local # Unhashed

(* Mutant: a file the other side deleted goes, edited or not.              *)
DeletionBeatsEdit(base, side) == base = Absent

(* A file only one side holds stays when it is new or edited.              *)
EditBeatsDeletion(base, side) == base = Absent \/ SideChanged(base, side)

(* Mutant: a directory only this machine holds is created remotely.       *)
LocalOnlyKeepsDirs(f) ==
    IF f.local = Directory THEN "mkdir-remote"
    ELSE IF EditBeatsDeletion(f.base, f.local) THEN "upload"
    ELSE "trash-local"

LocalOnly(f) ==
    IF f.local = Directory
    THEN IF f.base # Absent THEN "trash-local" ELSE "mkdir-remote"
    ELSE IF EditBeatsDeletion(f.base, f.local) THEN "upload"
    ELSE "trash-local"

RemoteOnly(f) ==
    IF f.remote = Directory
    THEN IF f.base # Absent THEN "trash-remote" ELSE "mkdir-local"
    ELSE IF EditBeatsDeletion(f.base, f.remote) THEN "download"
    ELSE "trash-remote"

(* Mutant: the transfer goes the wrong way.                                *)
BothSidesSwapped(f) ==
    LET local  == SideChanged(f.base, f.local)
        remote == SideChanged(f.base, f.remote)
    IN  IF (f.local = Directory) # (f.remote = Directory) THEN "conflict"
        ELSE IF ~local /\ ~remote THEN "nothing"
        ELSE IF local /\ ~remote THEN "download"
        ELSE IF remote /\ ~local THEN "upload"
        ELSE IF SameContent(f.local, f.remote) THEN "adopt"
        ELSE "conflict"

(* The case of a path that both sides hold.                                *)
BothSides(f) ==
    LET local  == SideChanged(f.base, f.local)
        remote == SideChanged(f.base, f.remote)
    IN  IF f.local = Directory /\ f.remote = Directory THEN "nothing"
        ELSE IF (f.local = Directory) # (f.remote = Directory) THEN "conflict"
        ELSE IF ~local /\ ~remote THEN "nothing"
        ELSE IF local /\ ~remote THEN "upload"
        ELSE IF remote /\ ~local THEN "download"
        ELSE IF SameContent(f.local, f.remote) THEN "adopt"
        ELSE "conflict"

Reconcile(f) ==
    CASE f.local = Absent /\ f.remote = Absent ->
            IF f.base = Absent THEN "nothing" ELSE "drop-baseline"
      [] f.local # Absent /\ f.remote = Absent -> LocalOnly(f)
      [] f.local = Absent /\ f.remote # Absent -> RemoteOnly(f)
      [] f.local # Absent /\ f.remote # Absent -> BothSides(f)

-----------------------------------------------------------------------------
(* One call after another, on any facts.                                   *)
VARIABLES facts, action

DecideInit == facts \in Facts /\ action = Reconcile(facts)
DecideNext == facts' \in Facts /\ action' = Reconcile(facts')
DecideSpec == DecideInit /\ [][DecideNext]_<<facts, action>>

(* A side known to differ from the baseline, or new to it.                 *)
Edited(base, side) ==
    /\ side \in Hashes \cup {Directory}
    /\ base # side /\ base # Unhashed

(* Principle 1 of Reconcile, deletion never beats a modification, of what  *)
(* the caller hands over as a file.  Of a directory it does not hold: one  *)
(* that replaced a tracked file is decided by its type alone.              *)
DeletionNeverBeatsAnEditedFile ==
    /\ action = "trash-local" /\ facts.local # Directory =>
          ~Edited(facts.base, facts.local)
    /\ action = "trash-remote" /\ facts.remote # Directory =>
          ~Edited(facts.base, facts.remote)

(* Principle 2: a conflict never discards either version.  A transfer      *)
(* never replaces a side known to differ from both the baseline and the    *)
(* version that would replace it.                                          *)
ConflictKeepsBoth ==
    /\ action = "download" => ~Edited(facts.base, facts.local)
    /\ action = "upload" => ~Edited(facts.base, facts.remote)

Swapped(f) == [base |-> f.base, local |-> f.remote, remote |-> f.local]
SwappedAction(a) ==
    CASE a = "upload" -> "download"
      [] a = "download" -> "upload"
      [] a = "trash-local" -> "trash-remote"
      [] a = "trash-remote" -> "trash-local"
      [] a = "mkdir-local" -> "mkdir-remote"
      [] a = "mkdir-remote" -> "mkdir-local"
      [] OTHER -> a

(* The local and the remote side are treated alike ("principle 1,          *)
(* mirrored"): no machine decides against the other by position.           *)
Mirrored == Reconcile(Swapped(facts)) = SwappedAction(action)

(* Sides that agree are left alone; sides known to differ are not.         *)
ActsOnDifferencesOnly ==
    IF facts.local = facts.remote /\ facts.local # Unhashed
    THEN action \in {"nothing", "adopt", "drop-baseline"}
    ELSE Unhashed \notin {facts.base, facts.local, facts.remote}
            => action \notin {"nothing", "adopt", "drop-baseline"}
=============================================================================
