----------------------------- MODULE MirrorInv -----------------------------
(* The inductive invariant behind NothingDiscarded: what each step of a    *)
(* pass finds in the locals the steps before it left, and why the file a   *)
(* download replaces holds nothing that would be lost.                     *)
EXTENDS Mirror

(* The steps that run on the baseline read for the push.                   *)
Applying == PushSteps \ {"rescan", "baseline"}

(* Ids the machine holds were assigned by Drive, and are never taken back. *)
KnownLinks ==
    /\ \A p \in Paths : rows[p] # None => links[rows[p].id] # None
    /\ \A p \in Paths : pass.base[p] # None => links[pass.base[p].id] # None
    /\ \A n \in pass.kids : links[n.id] # None
    /\ pass.id # None => links[pass.id] # None

(* The batch or the walk answers only for events Drive has published.      *)
CursorInFeed == pass.mark <= visible /\ visible <= Len(feed)

ApplyLocals ==
    /\ pass.step = "apply" => pass.todo \subseteq pass.kids
    /\ pass.step \in {"preserve", "commit", "record"} =>
          /\ pass.todo \subseteq pass.kids
          /\ pass.node \in Node /\ links[pass.node.id] # None
          /\ pass.staged # None

PathLocals ==
    pass.step \in {"deleted", "reaped", "drop", "replace", "untrack",
                   "upload", "track"} => pass.path # None

PushLocals ==
    /\ pass.step \in Applying =>
          /\ pass.todo \subseteq {p \in Paths : pass.local[p] # None}
          /\ \A p \in Paths : pass.moves[p] # None =>
                pass.base[p] # None /\ pass.local[pass.moves[p]] # None
          /\ \A p \in pass.doomed : pass.base[p] # None
    /\ pass.step \in {"drop", "replace"} => pass.moves[pass.path] # None
    /\ pass.step \in {"upload", "track"} =>
          pass.hash # None /\ pass.local[pass.path] # None
    /\ pass.step = "track" => pass.id # None

(* TypeOK needs these to be inductive.                                     *)
Locals == KnownLinks /\ CursorInFeed /\ ApplyLocals /\ PathLocals /\ PushLocals

-----------------------------------------------------------------------------
(* What the safety of the user's work asks of the world: each pass scans   *)
(* before it pulls, nothing is edited while a pass pulls or between the    *)
(* scan for the push and the end of detectMoves, no file is both edited in *)
(* place and renamed between two pushes, and no pass stops between keeping *)
(* a conflict copy and committing the download.                            *)
Precautions ==
    /\ Kinds \subseteq {"sync", "refresh"}
    /\ UserSteps \subseteq {"idle"} \cup (PushSteps \ {"baseline"})
    /\ FreeRenames = FALSE
    /\ Faults \cap {"rename", "crash"} = {}

(* Everything Drive serves is in the vault.                                *)
ServedIsKept == \A l \in Links : links[l] # None => links[l].c \in vault

(* What the machine and Drive mention has been written: a content the user *)
(* writes next is none of it.                                              *)
MentionedIsWritten ==
    /\ \A l \in Links : links[l] # None => links[l].c \in written
    /\ \A p \in Paths :
          /\ disk[p] # None => disk[p].c \in written
          /\ rows[p] # None => rows[p].hash \in written
          /\ rows[p] # None /\ rows[p].stamp # None => rows[p].stamp \in written
          /\ pass.local[p] # None => pass.local[p].c \in written
          /\ pass.base[p] # None => pass.base[p].hash \in written
          /\ pass.read[p] # None => pass.read[p] \in written
    /\ pass.hash # None => pass.hash \in written
    /\ pass.staged # None => pass.staged \in written

UniqueInodes ==
    \A p, q \in Paths :
        disk[p] # None /\ disk[q] # None /\ disk[p].ino = disk[q].ino => p = q

(* A file that detectMoves may recognise by the inode of another path's    *)
(* row is safe to vouch for; between keeping a conflict copy and recording *)
(* the download, the row of the copy's origin still names its inode.       *)
RenamedIsSafe ==
    \A p, q \in Paths :
        /\ rows[p] # None /\ disk[q] # None
        /\ p # q /\ rows[p].ino = disk[q].ino
        => \/ Safe(disk[q].c)
           \/ pass.step \in {"commit", "record"} /\ p = pass.node.name

(* The paths a pull may still replace, and what its scan knows of them.    *)
Awaiting ==
    CASE pass.step \in {"poll", "delete", "deleted", "list"} -> Paths
      [] pass.step \in {"apply", "commit", "record"} ->
            {n.name : n \in pass.todo}
      [] pass.step = "preserve" ->
            {n.name : n \in pass.todo} \cup {pass.node.name}
      [] OTHER -> {}

ScanIsCurrent ==
    \A p \in Awaiting : disk[p] # None =>
        Safe(disk[p].c) \/ pass.before[p] = disk[p].c

ReplacedIsSafe ==
    /\ pass.step \in {"preserve", "commit", "record"} => pass.staged \in vault
    /\ pass.step = "commit" =>
          (disk[pass.node.name] # None => Safe(disk[pass.node.name].c))
    /\ pass.step = "record" =>
          disk[pass.node.name] # None /\ disk[pass.node.name].c = pass.staged

(* The scan the push goes by: each file is still as scanned, or safe, and  *)
(* the hashes detectMoves computed are of the files the scan found.        *)
PushScanIsCurrent ==
    /\ pass.step \in PushSteps =>
          \A p \in Paths : pass.local[p] # None =>
              /\ \/ Safe(pass.local[p].c)
                 \/ disk[p] # None /\ disk[p].c = pass.local[p].c
              /\ \A q \in Paths :
                    disk[q] # None /\ disk[q].ino = pass.local[p].ino => p = q
    /\ pass.step = "baseline" => pass.local = disk
    /\ pass.step \in Applying =>
          \A p \in Paths : pass.read[p] # None =>
              pass.local[p] # None /\ pass.read[p] = pass.local[p].c

MovedIsSafe ==
    /\ pass.step = "baseline" =>
          \A p, q \in Paths :
              /\ rows[p] # None /\ pass.local[q] # None
              /\ p # q /\ rows[p].ino = pass.local[q].ino
              => Safe(pass.local[q].c)
    /\ pass.step \in Applying =>
          \A p \in Paths :
              /\ pass.base[p] # None => Safe(pass.base[p].hash)
              /\ pass.moves[p] # None => Safe(pass.local[pass.moves[p]].c)

UploadedIsSafe ==
    /\ pass.step = "upload" =>
          \/ Safe(pass.hash)
          \/ disk[pass.path] # None /\ disk[pass.path].c = pass.hash
    /\ pass.step = "track" =>
          Safe(pass.hash) /\ Safe(pass.local[pass.path].c)

IInv ==
    /\ NothingDiscarded /\ BaselineVouchesForSafe
    /\ ServedIsKept /\ MentionedIsWritten /\ UniqueInodes /\ RenamedIsSafe
    /\ ScanIsCurrent /\ ReplacedIsSafe /\ PushScanIsCurrent /\ MovedIsSafe
    /\ UploadedIsSafe

-----------------------------------------------------------------------------
(* What TrashesOnlyRemoved asks of the world: the user acts between passes,*)
(* and no pass stops between taking a file away and settling its row.      *)
RemovalPrecautions ==
    /\ UserSteps \subseteq {"idle"}
    /\ Faults \cap {"rename", "crash"} = {}

(* A file that is gone beside its row was removed by the user, or is being *)
(* deleted or replaced by the step that runs.                              *)
GoneIsRemoved ==
    \A p \in Paths :
        rows[p] # None /\ disk[p] = None =>
            \/ p \in removed
            \/ pass.step \in {"deleted", "reaped"} /\ p = pass.path
            \/ pass.step = "commit" /\ p = pass.node.name

(* The push goes by the folder as it is.                                   *)
PushSeesDisk == pass.step \in PushSteps \ {"rescan"} => pass.local = disk

DoomedIsRemoved == pass.step \in Applying => pass.doomed \subseteq removed

RInv == GoneIsRemoved /\ PushSeesDisk /\ DoomedIsRemoved
=============================================================================
