------------------------------ MODULE MoveRoot ------------------------------
(***************************************************************************)
(* Moving the sync folder: the confirmation and the goroutine of the TUI   *)
(* (tui/settings.go, tui/app.go), MigrateSyncRoot (config/migrate.go),     *)
(* config.toml, and the daemon that starts again somewhere in between and  *)
(* takes a file that is missing from its root for one the user deleted.    *)
(*                                                                         *)
(* The TUI keeps the configuration in memory, the daemon reads the file    *)
(* when it starts, and neither knows where the files are.  Any step of the *)
(* move can fail, the TUI can be quit in the middle of it, and a pass of   *)
(* the daemon checks the folder long before it looks what is missing.      *)
(* Nobody edits the files or the Drive meanwhile, and one move runs at a   *)
(* time; the code enforces neither.  The files lie directly in the folder. *)
(***************************************************************************)
EXTENDS Integers, FiniteSets

CONSTANTS
    Roots,         \* absolute paths a sync folder can have, none under another
    Home,          \* the one the files are in to begin with
    Files,         \* the files; all are in sync to begin with
    None,          \* no daemon, no file
    MinDeletions,  \* minDeletionsForGuard
    GuardPercent   \* sync.deletion_guard_percent

ASSUME HomeAssumption == Home \in Roots /\ None \notin Roots \cup Files
ASSUME GuardAssumption == MinDeletions \in Nat /\ GuardPercent \in 1 .. 100

VARIABLES
    tree,     \* root -> files that are there whole
    torn,     \* root -> files a copy has not finished, or was cut short in
    remote,   \* file -> "whole", "torn" or "trashed" in the Drive
    base,     \* the files in the state database
    mem,      \* cfg.Sync.Root in the TUI
    saved,    \* sync.root in config.toml
    daemon,   \* the root pdrived runs on, or None
    at,       \* where moveSyncRoot is; "idle" when it does not run
    from, to, \* the roots of that move
    was,      \* wasRunning
    todo,     \* files copyTree has not copied yet
    pass,     \* the daemon's pass: where it is, files left to look at, found
    crossed,  \* has a rename ever been refused?
    undercut  \* has one taken the folder from under a pass?

disk  == <<tree, torn>>
drive == <<remote, base>>
conf  == <<mem, saved>>
move  == <<at, from, to, was, todo>>
fate  == <<crossed, undercut>>
vars  == <<disk, drive, conf, daemon, move, pass, fate>>

NoPass == [at |-> "off", left |-> {}, found |-> {}]

TypeOK ==
    /\ tree \in [Roots -> SUBSET Files]
    /\ torn \in [Roots -> SUBSET Files]
    /\ remote \in [Files -> {"whole", "torn", "trashed"}]
    /\ base \subseteq Files
    /\ mem \in Roots /\ saved \in Roots
    /\ daemon \in Roots \cup {None}
    /\ at \in {"idle", "stop", "move", "copy", "verify", "remove", "save"}
    /\ from \in Roots /\ to \in Roots
    /\ was \in BOOLEAN
    /\ todo \subseteq Files
    /\ pass \in [at : {"off", "pull", "scan", "trash", "upload"},
                left : SUBSET Files, found : SUBSET Files]
    /\ crossed \in BOOLEAN /\ undercut \in BOOLEAN

Present(r) == tree[r] \cup torn[r]

Init ==
    /\ tree = [r \in Roots |-> IF r = Home THEN Files ELSE {}]
    /\ torn = [r \in Roots |-> {}]
    /\ remote = [f \in Files |-> "whole"]
    /\ base = Files
    /\ mem = Home /\ saved = Home
    /\ daemon \in {Home, None}
    /\ at = "idle" /\ from = Home /\ to = Home
    /\ was = FALSE /\ todo = {}
    /\ pass = NoPass
    /\ crossed = FALSE /\ undercut = FALSE

-----------------------------------------------------------------------------
(* The confirmation.                                                       *)

(* ValidateSyncRoot: another folder, empty or not there yet.               *)
ValidateSyncRoot(old, new) == new # old /\ Present(new) = {}

(* SubmitRoot, then "y": ConfirmRoot puts the new folder into the          *)
(* configuration in memory before anything has moved.                      *)
Confirm(new) ==
    /\ at = "idle"
    /\ ValidateSyncRoot(mem, new)
    /\ at' = "stop"
    /\ from' = mem /\ to' = new
    /\ todo' = {}
    /\ mem' = new
    /\ UNCHANGED <<disk, drive, saved, daemon, was, pass, fate>>

-----------------------------------------------------------------------------
(* moveSyncRoot and MigrateSyncRoot.                                       *)

(* systemctl --user start: the daemon reads config.toml.  It does not come *)
(* back when the five minutes of the move's context are over.              *)
Restart(root) ==
    /\ at' = "idle"
    /\ daemon' \in IF was /\ daemon = None THEN {root, None} ELSE {daemon}
    /\ UNCHANGED <<from, to, was, todo>>

StopDaemon ==
    /\ at = "stop"
    /\ at' = "move"
    /\ was' = (daemon # None)
    /\ daemon' = None
    /\ pass' = NoPass
    /\ UNCHANGED <<disk, drive, conf, from, to, todo, fate>>

(* systemctl stop fails: the move is off, and nothing is put back.         *)
StopFails ==
    /\ at = "stop" /\ daemon # None
    /\ at' = "idle"
    /\ UNCHANGED <<disk, drive, conf, daemon, from, to, was, todo, pass, fate>>

(* An error of MigrateSyncRoot, wherever it is: the check of the folder,   *)
(* a copy, the comparison, a removal that stopped half-way.                *)
MigrateFails ==
    /\ at \in {"move", "copy", "verify", "remove"}
    /\ Restart(saved)
    /\ UNCHANGED <<disk, drive, conf, pass, fate>>

(* The same filesystem.  A folder that was never made is made.             *)
Rename ==
    /\ at = "move"
    /\ ValidateSyncRoot(from, to)
    /\ tree' = [tree EXCEPT ![to] = tree[from], ![from] = {}]
    /\ torn' = [torn EXCEPT ![to] = torn[from], ![from] = {}]
    /\ at' = "save"
    /\ undercut' = (undercut \/ (daemon = from /\ pass.at \in {"pull", "scan"}))
    /\ UNCHANGED <<drive, conf, daemon, from, to, was, todo, pass, crossed>>

RenameRefused ==
    /\ at = "move"
    /\ ValidateSyncRoot(from, to)
    /\ crossed' = TRUE
    /\ at' = "copy"
    /\ todo' = Present(from)
    /\ UNCHANGED <<disk, drive, conf, daemon, from, to, was, pass, undercut>>

(* copyFile truncates the target and fills it, one file after the other.   *)
CopyOpen(f) ==
    /\ at = "copy"
    /\ f \in todo
    /\ todo \cap Present(to) = {}
    /\ torn' = [torn EXCEPT ![to] = @ \cup {f}]
    /\ UNCHANGED <<tree, drive, conf, daemon, move, pass, fate>>

CopyClose(f) ==
    /\ at = "copy"
    /\ f \in todo \cap torn[to]
    /\ todo' = todo \ {f}
    /\ IF f \in tree[from]
       THEN /\ tree' = [tree EXCEPT ![to] = @ \cup {f}]
            /\ torn' = [torn EXCEPT ![to] = @ \ {f}]
       ELSE UNCHANGED disk
    /\ UNCHANGED <<drive, conf, daemon, at, from, to, was, pass, fate>>

(* Mutant: the copy is taken to be complete once the last file was begun.  *)
CopyBegun ==
    /\ at = "copy"
    /\ Present(from) \subseteq Present(to)
    /\ at' = "remove"
    /\ UNCHANGED <<disk, drive, conf, daemon, from, to, was, todo, pass, fate>>

CopyDone ==
    /\ at = "copy"
    /\ todo = {}
    /\ at' = "verify"
    /\ UNCHANGED <<disk, drive, conf, daemon, from, to, was, todo, pass, fate>>

(* verifyTree: every file of the original is there with its size.          *)
Verify ==
    /\ at = "verify"
    /\ tree[from] \subseteq tree[to]
    /\ torn[from] \subseteq torn[to]
    /\ at' = "remove"
    /\ UNCHANGED <<disk, drive, conf, daemon, from, to, was, todo, pass, fate>>

(* RemoveAll takes one file after the other.                               *)
Remove(f) ==
    /\ at = "remove"
    /\ f \in Present(from)
    /\ tree' = [tree EXCEPT ![from] = @ \ {f}]
    /\ torn' = [torn EXCEPT ![from] = @ \ {f}]
    /\ UNCHANGED <<drive, conf, daemon, move, pass, fate>>

RemoveDone ==
    /\ at = "remove"
    /\ Present(from) = {}
    /\ at' = "save"
    /\ UNCHANGED <<disk, drive, conf, daemon, from, to, was, todo, pass, fate>>

(* The new folder goes into config.toml, the daemon comes back on it.      *)
SaveRoot ==
    /\ at = "save"
    /\ mem' = to
    /\ saved' = to
    /\ Restart(to)
    /\ UNCHANGED <<disk, drive, pass, fate>>

SaveFails ==
    /\ at = "save"
    /\ mem' = to
    /\ Restart(saved)
    /\ UNCHANGED <<disk, drive, saved, pass, fate>>

-----------------------------------------------------------------------------
(* What the user does meanwhile.                                           *)

(* "s" on the settings screen: all of the configuration in memory.  The    *)
(* running daemon reloads it and keeps its root.                           *)
SaveSettings ==
    /\ saved # mem
    /\ saved' = mem
    /\ UNCHANGED <<disk, drive, mem, daemon, move, pass, fate>>

(* "s" on the status screen, a login, or systemd.                          *)
StartDaemon ==
    /\ daemon = None
    /\ daemon' = saved
    /\ UNCHANGED <<disk, drive, conf, move, pass, fate>>

DaemonEnds ==
    /\ daemon # None
    /\ daemon' = None
    /\ pass' = NoPass
    /\ UNCHANGED <<disk, drive, conf, move, fate>>

(* The TUI is quit or killed, a move with it, and opened again.            *)
Reopen ==
    /\ at # "idle" \/ mem # saved
    /\ at' = "idle"
    /\ mem' = saved
    /\ UNCHANGED <<disk, drive, saved, daemon, from, to, was, todo, pass, fate>>

-----------------------------------------------------------------------------
(* A pass of the daemon, as far as the move is concerned.                  *)

(* Mutant: an empty folder is a folder like any other.                     *)
AnyRoot(r) == TRUE

(* checkRoot: an empty folder is not one the user has emptied.             *)
CheckRoot(r) == base = {} \/ Present(r) # {}

(* checkDeletionCliff: 100 turns it off.                                   *)
CheckDeletionCliff(n) ==
    n >= MinDeletions /\ GuardPercent < 100 /\ base # {} =>
        (n * 100) \div Cardinality(base) < GuardPercent

(* SyncBoth looks at the folder, scans it, and pulls.  Nothing is new in   *)
(* the Drive, but asking takes as long as the network does.                *)
PassBegins ==
    /\ daemon # None /\ pass.at = "off"
    /\ CheckRoot(daemon)
    /\ pass' = [NoPass EXCEPT !.at = "pull"]
    /\ UNCHANGED <<disk, drive, conf, daemon, move, fate>>

(* The second scan does not look at the folder again: one that is gone by  *)
(* then lists as an empty one.  A file that goes between the listing and   *)
(* its Info is left out.                                                   *)
PassLists ==
    /\ pass.at = "pull"
    /\ pass' = [at |-> "scan", left |-> Present(daemon), found |-> {}]
    /\ UNCHANGED <<disk, drive, conf, daemon, move, fate>>

PassFinds(f) ==
    /\ pass.at = "scan" /\ f \in pass.left
    /\ pass' = [pass EXCEPT !.left = @ \ {f},
                            !.found = @ \cup ({f} \cap Present(daemon))]
    /\ UNCHANGED <<disk, drive, conf, daemon, move, fate>>

(* findLocalDeletions and the guard, which ends the pass.                  *)
PassCompares ==
    /\ pass.at = "scan" /\ pass.left = {}
    /\ LET gone == base \ pass.found
       IN  pass' = IF CheckDeletionCliff(Cardinality(gone))
                   THEN [pass EXCEPT !.at = "trash", !.left = gone]
                   ELSE NoPass
    /\ UNCHANGED <<disk, drive, conf, daemon, move, fate>>

(* trashRemote, and the row goes.                                          *)
PassTrashes(f) ==
    /\ pass.at = "trash" /\ f \in pass.left
    /\ remote' = [remote EXCEPT ![f] = "trashed"]
    /\ base' = base \ {f}
    /\ pass' = [pass EXCEPT !.left = @ \ {f}]
    /\ UNCHANGED <<disk, conf, daemon, move, fate>>

(* Then the uploads, of the files the scan found.                          *)
PassPushes ==
    /\ pass.at = "trash" /\ pass.left = {}
    /\ pass' = [at |-> "upload", left |-> pass.found, found |-> {}]
    /\ UNCHANGED <<disk, drive, conf, daemon, move, fate>>

(* pushNode hashes the file as it is now: one the state database does not  *)
(* know, or knows with another content, goes up.                           *)
PassUploads(f) ==
    /\ pass.at = "upload" /\ f \in pass.left \cap Present(daemon)
    /\ remote' = [remote EXCEPT
                    ![f] = IF f \in tree[daemon] THEN "whole" ELSE "torn"]
    /\ base' = base \cup {f}
    /\ pass' = [pass EXCEPT !.left = @ \ {f}]
    /\ UNCHANGED <<disk, conf, daemon, move, fate>>

(* A request fails, or the file cannot be opened any more: a warning.      *)
PassWarns(f) ==
    /\ pass.at \in {"trash", "upload"} /\ f \in pass.left
    /\ pass' = [pass EXCEPT !.left = @ \ {f}]
    /\ UNCHANGED <<disk, drive, conf, daemon, move, fate>>

PassEnds ==
    /\ pass.at = "upload" /\ pass.left = {}
    /\ pass' = NoPass
    /\ UNCHANGED <<disk, drive, conf, daemon, move, fate>>

Pass ==
    \/ PassBegins \/ PassLists \/ PassCompares \/ PassPushes \/ PassEnds
    \/ \E f \in Files : \/ PassFinds(f) \/ PassTrashes(f)
                        \/ PassUploads(f) \/ PassWarns(f)

-----------------------------------------------------------------------------
Migrate ==
    \/ StopDaemon \/ StopFails \/ MigrateFails
    \/ Rename \/ RenameRefused
    \/ \E f \in Files : CopyOpen(f) \/ CopyClose(f) \/ Remove(f)
    \/ CopyDone \/ Verify \/ RemoveDone
    \/ SaveRoot \/ SaveFails

Next ==
    \/ \E r \in Roots : Confirm(r)
    \/ Migrate
    \/ SaveSettings \/ StartDaemon \/ DaemonEnds \/ Reopen
    \/ Pass

Spec == Init /\ [][Next]_vars

-----------------------------------------------------------------------------
(* "Copy and only then remove" (migrate.go:43-44): wherever a move, or a   *)
(* chain of moves, is cut short, every file is whole in some folder.       *)
FilesSurvive == \A f \in Files : \E r \in Roots : f \in tree[r]

(* All there is of the user's files, in the Drive and in one folder.       *)
Untouched == /\ \A f \in Files : remote[f] = "whole"
             /\ \E r \in Roots : tree[r] = Files

(* As long as renames work, no failure, quit or restart of the daemon in   *)
(* the middle of a move makes a pass take the missing folder for           *)
(* deletions, unless the rename falls between its checkRoot and the end of *)
(* its second scan (guards.go:22-30, push.go:26-54).                       *)
RenamesAreSafe == ~crossed /\ ~undercut => Untouched

(* What checkRoot is there for, without that exception: "pDrive stops      *)
(* instead" (guards.go:29).  Refuted (README, section 5): the pull lies    *)
(* between the check and the scan whose result it is to protect.           *)
RootGuarded == ~crossed => Untouched

(* What the confirmation says (settings.go:350-351): "Nothing is           *)
(* downloaded again, and nothing in Proton Drive changes."  Refuted        *)
(* (README, section 5) by a copy that fails after the settings were saved. *)
DriveUnchanged == \A f \in Files : remote[f] = "whole"
=============================================================================
