------------------------------- MODULE Mirror -------------------------------
(***************************************************************************)
(* The sync engine of internal/mirror on one machine: the passes           *)
(* (SyncBoth, and RefreshDir for a directory being opened), the sync       *)
(* folder, the baseline database, and the Drive folder on the other side.  *)
(*                                                                         *)
(* The sync folder is one flat directory of materialized files; folders,   *)
(* stubs, ignored names and the deletion cliff, which needs ten deletions  *)
(* to fire, are outside this module.  Every step is one system call,       *)
(* one request to Drive or one statement of the database, so the user, the *)
(* other devices of the account and a crash come between any two of them.  *)
(*                                                                         *)
(* A content is a model value: it stands for the bytes, for their SHA1 and *)
(* for the (size, modification second) pair of the file holding them.  So  *)
(* two contents differ in size or modification second, and a file that is  *)
(* renamed or downloaded keeps the modification time of its bytes.         *)
(***************************************************************************)
EXTENDS Naturals, Sequences

CONSTANTS
    Files,        \* names the user and the other devices give to files
    Copies,       \* names ConflictName can produce
    Contents,     \* what a file may hold
    Links,        \* link ids Drive can assign
    Inodes,       \* inode numbers of the local filesystem
    None,         \* no file, no row, no link, no content
    Kinds,        \* the passes that run: a subset of PassKinds
    UserSteps,    \* the points of a pass at which the local user may act
    FreeRenames,  \* may the user rename a file during a pass, or both rename
                  \* it and write it in place between two pushes?
    Repeats,      \* may another device upload a content a second time?
    MaxFeed,      \* bound: the others stop while this many events are unread
    Faults,       \* what may fail: a subset of FaultKinds
    MaxFaults     \* bound: how many failures

Paths == Files \cup Copies

PullSteps == {"poll", "delete", "list", "apply", "preserve", "commit",
              "record", "reap", "deleted", "reaped", "cursor"}
PushSteps == {"rescan", "baseline", "move", "drop", "replace", "trash",
              "untrack", "push", "upload", "track"}
Steps == {"idle"} \cup PullSteps \cup PushSteps

(* SyncBoth; RefreshDir; Sync alone, for `sync --down-only`; FullMirror    *)
(* alone, for `sync --full`.                                               *)
PassKinds == {"sync", "refresh", "down", "full"}

FaultKinds == {"poll", "list", "download", "rename", "move", "trash", "upload",
               "crash"}

(* A file; a row of the baseline; a link of Drive; a node of a listing.    *)
File  == [c : Contents, ino : Inodes]
Row   == [id : Links, hash : Contents, stamp : Contents \cup {None},
          ino : Inodes]
Link  == [name : Paths, c : Contents, live : BOOLEAN]
Node  == [id : Links, name : Paths, c : Contents]
Event == [gone : BOOLEAN, id : Links]

ASSUME NamesAssumption == Files \cap Copies = {}
ASSUME NoneAssumption ==
    None \notin Paths \cup Contents \cup Links \cup Inodes
                 \cup File \cup Row \cup Link \cup Node
ASSUME BehaviourAssumption ==
    /\ Kinds \subseteq PassKinds
    /\ UserSteps \subseteq Steps
    /\ Faults \subseteq FaultKinds
    /\ FreeRenames \in BOOLEAN /\ Repeats \in BOOLEAN
    /\ MaxFeed \in Nat /\ MaxFaults \in Nat

VARIABLES
    disk,     \* the sync folder: path -> file or None
    scratch,  \* has ScratchDir been created inside the sync folder?
    trash,    \* contents held by the local trash
    rows,     \* the baseline table `nodes`: path -> row or None
    primed,   \* is an event cursor saved in the table `meta`?
    links,    \* Drive: link id -> link or None when not yet assigned
    vault,    \* every content Drive holds as a revision of some link
    feed,     \* the events after the saved cursor, in order
    visible,  \* how many of them Drive has published
    pass,     \* the running pass: its step and its Go locals
    work,     \* contents the local user wrote and has not replaced or deleted
    removed,  \* paths the local user deleted or renamed away
    written,  \* every content written so far, by anyone
    twice,    \* contents that more than one link of Drive has held
    faults    \* failures and crashes so far

machine == <<disk, scratch, trash, rows, primed>>
drive   == <<links, vault>>
events  == <<feed, visible>>
ghosts  == <<work, removed, written, twice>>
vars    == <<machine, drive, events, pass, ghosts, faults>>

(***************************************************************************)
(* A pass: `kind` is the function that runs (applyEvents and FullMirror    *)
(* are "events" and "walk"), `push` whether SyncBoth called it, `before`   *)
(* Mirror.localBefore, `kids` the listing, `todo` what is left of it or of *)
(* the upload list, `dels` and `doomed` the deletions left to apply,       *)
(* `node` and `staged` the child being applied, `path` the path being      *)
(* deleted or pushed, `local` the scan made after the pull, `base` the     *)
(* baseline read for the push, `read` the hashes detectMoves computed.     *)
(***************************************************************************)
NoPass ==
    [step |-> "idle", kind |-> "sync", push |-> FALSE, before |-> [p \in Paths |-> None],
     mark |-> 0, relist |-> FALSE, dels |-> {}, kids |-> {}, todo |-> {},
     node |-> None, staged |-> None, doomed |-> {}, path |-> None,
     local |-> [p \in Paths |-> None], base |-> [p \in Paths |-> None],
     read |-> [p \in Paths |-> None],
     moves |-> [p \in Paths |-> None], hash |-> None, id |-> None]

Pass ==
    [step : Steps, kind : PassKinds \cup {"events", "walk"}, push : BOOLEAN,
     before : [Paths -> Contents \cup {None}],
     mark : Nat, relist : BOOLEAN, dels : SUBSET Links,
     kids : SUBSET Node, todo : SUBSET (Node \cup Paths),
     node : Node \cup {None}, staged : Contents \cup {None},
     doomed : SUBSET Paths, path : Paths \cup {None},
     local : [Paths -> File \cup {None}], base : [Paths -> Row \cup {None}],
     read : [Paths -> Contents \cup {None}],
     moves : [Paths -> Paths \cup {None}],
     hash : Contents \cup {None}, id : Links \cup {None}]

TypeOK ==
    /\ disk \in [Paths -> File \cup {None}]
    /\ scratch \in BOOLEAN
    /\ trash \subseteq Contents
    /\ rows \in [Paths -> Row \cup {None}]
    /\ primed \in BOOLEAN
    /\ links \in [Links -> Link \cup {None}]
    /\ vault \subseteq Contents
    /\ feed \in Seq(Event)
    /\ visible \in Nat
    /\ pass \in Pass
    /\ work \subseteq Contents
    /\ removed \subseteq Paths
    /\ written \subseteq Contents
    /\ twice \subseteq Contents
    /\ faults \in Nat

(* Before the first run: an empty folder, an empty account, no baseline.   *)
Init ==
    /\ disk = [p \in Paths |-> None]
    /\ scratch = FALSE
    /\ trash = {}
    /\ rows = [p \in Paths |-> None]
    /\ primed = FALSE
    /\ links = [l \in Links |-> None]
    /\ vault = {}
    /\ feed = <<>>
    /\ visible = 0
    /\ pass = NoPass
    /\ work = {}
    /\ removed = {}
    /\ written = {}
    /\ twice = {}
    /\ faults = 0

-----------------------------------------------------------------------------
OnDisk == {disk[p].c : p \in {q \in Paths : disk[q] # None}}

HeldAt(p) == IF disk[p] = None THEN {} ELSE {disk[p].c}

LiveAs(p) == {l \in Links : links[l] # None /\ links[l].live
                                             /\ links[l].name = p}

(* Writing c to l: the content, if Drive has held it elsewhere.            *)
Repeated(l, c) ==
    {x \in vault \cap {c} :
        ~(links[l] # None /\ links[l].live /\ links[l].c = x)}

OneOf(S) == IF S = {} THEN {} ELSE {CHOOSE x \in S : TRUE}

(* Fresh names.  Which one is taken tells no two behaviours apart, so a    *)
(* fixed choice stands for all: a link id that nothing of this machine or  *)
(* of Drive mentions any more, a content nobody has written, an inode no   *)
(* file, row or scan of this machine names, a conflict name of a second in *)
(* which none was made.                                                    *)
NewLinks ==
    {l \in Links :
        /\ links[l] = None \/ ~links[l].live
        /\ \A p \in Paths : /\ rows[p] # None => rows[p].id # l
                            /\ pass.base[p] # None => pass.base[p].id # l
        /\ \A n \in pass.kids : n.id # l
        /\ pass.node # None => pass.node.id # l
        /\ l \notin pass.dels /\ l # pass.id
        /\ \A i \in 1..Len(feed) : feed[i].id # l}
NewContents == Contents \ written
Uploadable  == OneOf(NewContents) \cup (IF Repeats THEN vault ELSE {})
NewInodes   ==
    {i \in Inodes : \A p \in Paths :
        /\ disk[p] # None => disk[p].ino # i
        /\ rows[p] # None => rows[p].ino # i
        /\ pass.local[p] # None => pass.local[p].ino # i
        /\ pass.base[p] # None => pass.base[p].ino # i}
NewCopies   ==
    {k \in Copies : /\ disk[k] = None /\ rows[k] = None
                    /\ \A n \in pass.kids : n.name # k
                    /\ \A l \in Links : links[l] # None => links[l].name # k}

Changed(l) == Append(feed, [gone |-> FALSE, id |-> l])
Removed(l) == Append(feed, [gone |-> TRUE, id |-> l])

Goto(s) == pass' = [pass EXCEPT !.step = s]

Fault(kind) == kind \in Faults /\ faults < MaxFaults /\ faults' = faults + 1

-----------------------------------------------------------------------------
(* hashIfNeeded: the baseline's hash when size and modification second     *)
(* match the row, the hash of the bytes otherwise.                         *)
HashOf(p) ==
    IF rows[p] # None /\ rows[p].stamp = disk[p].c
    THEN rows[p].hash
    ELSE disk[p].c

(* checkRoot: an empty root is refused while the baseline tracks nodes.    *)
RootGuard ==
    (\E p \in Paths : rows[p] # None)
        => scratch \/ \E p \in Paths : disk[p] # None

(* The pass up to the pull: guard, scan, hash.  FullMirror on its own      *)
(* leaves out the guard, and neither it nor Sync scans the folder.         *)
Start(kind) ==
    /\ pass.step = "idle"
    /\ kind = "full" \/ RootGuard
    /\ pass' = [NoPass EXCEPT
          !.step = IF kind = "refresh" THEN "list" ELSE "poll",
          !.kind = kind,
          !.push = (kind = "sync"),
          !.before = [p \in Paths |->
                        IF disk[p] = None \/ kind \notin {"sync", "refresh"}
                        THEN None ELSE HashOf(p)]]
    /\ UNCHANGED <<machine, drive, events, ghosts, faults>>

(* The pass returns the guard's error and changes nothing.                 *)
StartRefused ==
    /\ pass.step = "idle"
    /\ ~RootGuard
    /\ UNCHANGED vars

(* Mutant: the pass answers for events Drive has not published yet.        *)
PollEventsAhead ==
    /\ pass.step = "poll"
    /\ primed
    /\ pass' = [pass EXCEPT !.step = "delete", !.kind = "events",
                            !.mark = Len(feed), !.relist = TRUE]
    /\ UNCHANGED <<machine, drive, events, ghosts, faults>>

(* applyEvents, up to the deletions: the batch after the cursor.           *)
PollEvents ==
    /\ pass.step = "poll"
    /\ primed /\ pass.kind # "full"
    /\ LET batch == {feed[i] : i \in 1..visible} IN
       pass' = [pass EXCEPT
          !.step = "delete", !.kind = "events", !.mark = visible,
          !.dels = {e.id : e \in {b \in batch : b.gone}},
          !.relist = \E e \in batch : ~e.gone]
    /\ UNCHANGED <<machine, drive, events, ghosts, faults>>

(* Mutant: the cursor is saved before the walk, not after it.              *)
StartWalkSaving ==
    /\ pass.step = "poll"
    /\ pass' = [pass EXCEPT !.step = "list", !.kind = "walk"]
    /\ primed' = TRUE
    /\ feed' = SubSeq(feed, visible + 1, Len(feed))
    /\ visible' = 0
    /\ UNCHANGED <<disk, scratch, trash, rows, drive, ghosts, faults>>

(* FullMirror, on the first run, when Drive asks for a refresh or when the *)
(* user does: the cursor is taken before the walk.                         *)
StartWalk ==
    /\ pass.step = "poll"
    /\ pass' = [pass EXCEPT !.step = "list", !.kind = "walk",
                            !.mark = visible]
    /\ UNCHANGED <<machine, drive, events, ghosts, faults>>

PollFails ==
    /\ pass.step = "poll"
    /\ Fault("poll")
    /\ pass' = NoPass
    /\ UNCHANGED <<machine, drive, events, ghosts>>

-----------------------------------------------------------------------------
(* deleteNode, first half: the file at p goes to the local trash.          *)
TrashLocal(p) ==
    /\ disk' = [disk EXCEPT ![p] = None]
    /\ trash' = IF disk[p] = None THEN trash ELSE trash \cup {disk[p].c}

(* deleteByNodeID for the next deletion of the batch.                      *)
DeleteByID(l) ==
    /\ pass.step = "delete"
    /\ l \in pass.dels
    /\ \/ /\ \A p \in Paths : rows[p] # None => rows[p].id # l
          /\ pass' = [pass EXCEPT !.dels = @ \ {l}]
          /\ UNCHANGED <<disk, trash>>
       \/ \E p \in Paths :
          /\ rows[p] # None /\ rows[p].id = l
          /\ TrashLocal(p)
          /\ pass' = [pass EXCEPT !.dels = @ \ {l}, !.path = p,
                                  !.step = "deleted"]
    /\ UNCHANGED <<scratch, rows, primed, drive, events, ghosts, faults>>

DeletesDone ==
    /\ pass.step = "delete"
    /\ pass.dels = {}
    /\ Goto(IF pass.relist THEN "list" ELSE "cursor")
    /\ UNCHANGED <<machine, drive, events, ghosts, faults>>

(* deleteNode, second half: the row goes.                                  *)
Forget ==
    /\ pass.step \in {"deleted", "reaped"}
    /\ rows' = [rows EXCEPT ![pass.path] = None]
    /\ pass' = [pass EXCEPT
          !.path = None,
          !.step = IF @ = "deleted" THEN "delete" ELSE "reap"]
    /\ UNCHANGED <<disk, scratch, trash, primed, drive, events, ghosts, faults>>

-----------------------------------------------------------------------------
(* ListDir for relistDir, Walk for FullMirror: what Drive holds right now. *)
List ==
    /\ pass.step = "list"
    /\ LET kids == {[id |-> l, name |-> links[l].name, c |-> links[l].c] :
                      l \in {x \in Links : links[x] # None /\ links[x].live}} IN
       pass' = [pass EXCEPT !.step = "apply", !.kids = kids, !.todo = kids]
    /\ UNCHANGED <<machine, drive, events, ghosts, faults>>

(* applyEvents turns a failed listing into a warning and goes on to save   *)
(* the cursor; a failed walk or refresh ends the pass.                     *)
ListFails ==
    /\ pass.step = "list"
    /\ Fault("list")
    /\ pass' = IF pass.kind = "events" THEN [pass EXCEPT !.step = "cursor"]
                                        ELSE NoPass
    /\ UNCHANGED <<machine, drive, events, ghosts>>

(* applyNode's two early returns: Drive still holds what the baseline      *)
(* agreed on, or the file on disk already matches size, mtime and digest.  *)
Settled(n) ==
    /\ rows[n.name] # None
    /\ \/ rows[n.name].hash = n.c
       \/ disk[n.name] # None /\ disk[n.name].c = n.c

ApplySkip(n) ==
    /\ pass.step = "apply"
    /\ n \in pass.todo
    /\ Settled(n)
    /\ pass' = [pass EXCEPT !.todo = @ \ {n}]
    /\ UNCHANGED <<machine, drive, events, ghosts, faults>>

(* applyNode, up to stageDownload: the link's revision of this moment.     *)
Download(n) ==
    /\ pass.step = "apply"
    /\ n \in pass.todo
    /\ ~Settled(n)
    /\ links[n.id].live
    /\ scratch' = TRUE
    /\ pass' = [pass EXCEPT !.todo = @ \ {n}, !.node = n,
                            !.staged = links[n.id].c, !.step = "preserve"]
    /\ UNCHANGED <<disk, trash, rows, primed, drive, events, ghosts, faults>>

(* A download error is a warning, and the next child follows: the link was *)
(* trashed since the listing, or the request failed.                       *)
DownloadError(n) ==
    /\ pass.step = "apply"
    /\ n \in pass.todo
    /\ ~Settled(n)
    /\ pass' = [pass EXCEPT !.todo = @ \ {n}]
    /\ UNCHANGED <<machine, drive, events, ghosts>>

DownloadGone(n)  == DownloadError(n) /\ ~links[n.id].live /\ UNCHANGED faults
DownloadFails(n) == DownloadError(n) /\ Fault("download")

(* Mutant: a file the baseline does not know is taken for unchanged.       *)
ConflictingIfTracked(p) ==
    /\ pass.before[p] # None /\ rows[p] # None
    /\ pass.before[p] \notin {rows[p].hash, pass.staged}

(* preserveLocalIfConflicting decides on the hash of the scan made before  *)
(* the pull and on the row as it is now.                                   *)
Conflicting(p) ==
    /\ pass.before[p] # None
    /\ ~(rows[p] # None /\ rows[p].hash = pass.before[p])
    /\ pass.before[p] # pass.staged

Preserve ==
    /\ pass.step = "preserve"
    /\ LET p == pass.node.name IN
       IF Conflicting(p) /\ disk[p] # None
       THEN \E k \in OneOf(NewCopies) :
              disk' = [disk EXCEPT ![k] = disk[p], ![p] = None]
       ELSE UNCHANGED disk
    /\ Goto("commit")
    /\ UNCHANGED <<scratch, trash, rows, primed, drive, events, ghosts, faults>>

(* commitStaged: the rename replaces whatever is at the path.              *)
Commit ==
    /\ pass.step = "commit"
    /\ \E i \in OneOf(NewInodes) :
          disk' = [disk EXCEPT ![pass.node.name] = [c |-> pass.staged, ino |-> i]]
    /\ removed' = removed \ {pass.node.name}
    /\ Goto("record")
    /\ UNCHANGED <<scratch, trash, rows, primed, drive, events, work, written,
                   twice, faults>>

CommitFails ==
    /\ pass.step = "commit"
    /\ Fault("rename")
    /\ pass' = [pass EXCEPT !.step = "apply", !.node = None, !.staged = None]
    /\ UNCHANGED <<machine, drive, events, ghosts>>

(* applyNode, the end: the row pairs the hash and size of what was staged  *)
(* with the modification time and inode stat finds at the path now.  If    *)
(* the user replaced the file meanwhile, the pair may or may not match it. *)
Record ==
    /\ pass.step = "record"
    /\ LET p == pass.node.name
           f == disk[p]
       IN  IF f = None
           THEN UNCHANGED rows
           ELSE \E s \in {f.c} \cup (IF f.c = pass.staged THEN {} ELSE {None}) :
                  rows' = [rows EXCEPT ![p] =
                             [id |-> pass.node.id, hash |-> pass.staged,
                              stamp |-> s, ino |-> f.ino]]
    /\ pass' = [pass EXCEPT !.step = "apply", !.node = None, !.staged = None]
    /\ UNCHANGED <<disk, scratch, trash, primed, drive, events, ghosts, faults>>

(* relistDir and reapUnseen, after the children: the baseline is read now  *)
(* and compared with the listing made before them.                         *)
FindStale ==
    /\ pass.step = "apply"
    /\ pass.todo = {}
    /\ LET seen == {n.name : n \in pass.kids} IN
       pass' = [pass EXCEPT
          !.step = "reap", !.kids = {},
          !.doomed = {p \in Paths : rows[p] # None /\ p \notin seen}]
    /\ UNCHANGED <<machine, drive, events, ghosts, faults>>

Reap(p) ==
    /\ pass.step = "reap"
    /\ p \in pass.doomed
    /\ TrashLocal(p)
    /\ pass' = [pass EXCEPT !.doomed = @ \ {p}, !.path = p, !.step = "reaped"]
    /\ UNCHANGED <<scratch, rows, primed, drive, events, ghosts, faults>>

(* RefreshDir ends here; the other passes save the cursor.                 *)
ReapDone ==
    /\ pass.step = "reap"
    /\ pass.doomed = {}
    /\ pass' = IF pass.kind = "refresh" THEN NoPass
                                         ELSE [pass EXCEPT !.step = "cursor"]
    /\ UNCHANGED <<machine, drive, events, ghosts, faults>>

(* Mutant: the cursor is taken once the pull is over.                      *)
SaveCursorLate ==
    /\ pass.step = "cursor"
    /\ primed' = TRUE
    /\ feed' = SubSeq(feed, visible + 1, Len(feed))
    /\ visible' = 0
    /\ pass' = [NoPass EXCEPT !.step = "rescan"]
    /\ UNCHANGED <<disk, scratch, trash, rows, drive, ghosts, faults>>

SaveCursor ==
    /\ pass.step = "cursor"
    /\ primed' = TRUE
    /\ feed' = SubSeq(feed, pass.mark + 1, Len(feed))
    /\ visible' = visible - pass.mark
    /\ pass' = [NoPass EXCEPT !.step = IF pass.push THEN "rescan" ELSE "idle"]
    /\ UNCHANGED <<disk, scratch, trash, rows, drive, ghosts, faults>>

-----------------------------------------------------------------------------
(* SyncBoth scans again before the push.                                   *)
Rescan ==
    /\ pass.step = "rescan"
    /\ pass' = [pass EXCEPT !.step = "baseline", !.local = disk]
    /\ UNCHANGED <<machine, drive, events, ghosts, faults>>

(* Mutant: a file an editor replaced is taken for gone.                    *)
MissingByInode(base) ==
    {p \in Paths : /\ base[p] # None
                   /\ pass.local[p] = None \/ pass.local[p].ino # base[p].ino}

(* findLocalDeletions and the candidates of detectMoves.                   *)
Missing(base)    == {p \in Paths : base[p] # None /\ pass.local[p] = None}
Candidates(base) == {p \in Paths : base[p] = None /\ pass.local[p] # None}

(* Mutant: the size alone makes a match.                                   *)
MatchesBySize(old, q) == TRUE

(* A candidate matches by the inode it had in the scan or, if its size in  *)
(* the scan is the row's, by the hash of what the file holds by now.       *)
SameBytes(old, q) == disk[q] # None /\ disk[q].c = old.hash
Matches(old, q)   == old.ino = pass.local[q].ino \/ SameBytes(old, q)

(* The sizes of different contents may be equal or not, so that only a     *)
(* file scanned as the row left it is sure to be compared.                 *)
SureMatch(old, q) ==
    \/ old.ino = pass.local[q].ino
    \/ /\ SameBytes(old, q)
       /\ pass.local[q].c = IF old.stamp = None THEN old.hash ELSE old.stamp

(* detectMoves gives each missing row the first unclaimed file that        *)
(* matches it, in the order of two Go maps: any maximal matching.          *)
Matchings(base) ==
    {m \in [Missing(base) -> Candidates(base) \cup {None}] :
        /\ \A p, q \in Missing(base) : m[p] = m[q] /\ m[p] # None => p = q
        /\ \A p \in Missing(base) : m[p] # None => Matches(base[p], m[p])
        /\ \A p \in Missing(base), q \in Candidates(base) :
              m[p] = None /\ (\A o \in Missing(base) : m[o] # q)
                 => ~SureMatch(base[p], q)}

(* The hash detectMoves leaves in the scan's entry of a candidate: that of *)
(* the bytes it read if the match took them, and maybe if another missing  *)
(* row, of a file of the same size, was tried first.                       *)
HashedBy(base, m, q) ==
    \E p \in Missing(base) : m[p] = q /\ base[p].ino # pass.local[q].ino
MaybeHashed(base, q) ==
    \E p \in Missing(base) : base[p].ino # pass.local[q].ino

ReadHashes(base, m) ==
    {r \in [Paths -> Contents \cup {None}] :
        \A q \in Paths : r[q] \in
            (IF q \in Candidates(base) /\ MaybeHashed(base, q)
             THEN HeldAt(q) ELSE {})
            \cup (IF HashedBy(base, m, q) THEN {} ELSE {None})}

(* push: read the baseline, find deletions and moves.                      *)
Baseline ==
    /\ pass.step = "baseline"
    /\ \E m \in Matchings(rows) : \E r \in ReadHashes(rows, m) :
          LET moved == {p \in DOMAIN m : m[p] # None} IN
          pass' = [pass EXCEPT
             !.step = "move", !.base = rows, !.read = r,
             !.moves = [p \in Paths |-> IF p \in moved THEN m[p] ELSE None],
             !.doomed = DOMAIN m \ moved,
             !.todo = {p \in Paths : pass.local[p] # None}
                         \ {m[p] : p \in moved}]
    /\ UNCHANGED <<machine, drive, events, ghosts, faults>>

(* applyMove, the request.                                                 *)
MoveRemote(p) ==
    /\ pass.step = "move"
    /\ pass.moves[p] # None
    /\ links[pass.base[p].id].live
    /\ LiveAs(pass.moves[p]) = {}
    /\ links' = [links EXCEPT ![pass.base[p].id].name = pass.moves[p]]
    /\ feed' = Changed(pass.base[p].id)
    /\ pass' = [pass EXCEPT !.step = "drop", !.path = p]
    /\ UNCHANGED <<machine, vault, visible, ghosts, faults>>

(* An error moves on to the next: Drive refuses to move a trashed link, or *)
(* to a name in use, or the request failed.                                *)
MoveError(p) ==
    /\ pass.step = "move"
    /\ pass.moves[p] # None
    /\ pass' = [pass EXCEPT !.moves[p] = None]
    /\ UNCHANGED <<machine, drive, events, ghosts>>

MoveRefused(p) ==
    /\ MoveError(p)
    /\ ~links[pass.base[p].id].live \/ LiveAs(pass.moves[p]) # {}
    /\ UNCHANGED faults

MoveFails(p) == MoveError(p) /\ Fault("move")

DropRow ==
    /\ pass.step = "drop"
    /\ rows' = [rows EXCEPT ![pass.path] = None]
    /\ Goto("replace")
    /\ UNCHANGED <<disk, scratch, trash, primed, drive, events, ghosts, faults>>

(* applyMove, the end: size, mtime and inode of the scan, beside the hash  *)
(* detectMoves read after it, or the old row's if the inode was enough.    *)
ReplaceRow ==
    /\ pass.step = "replace"
    /\ LET old == pass.base[pass.path]
           to  == pass.moves[pass.path]
       IN  rows' = [rows EXCEPT ![to] =
                      [id |-> old.id,
                       hash |-> IF pass.read[to] = None THEN old.hash
                                                        ELSE pass.read[to],
                       stamp |-> pass.local[to].c, ino |-> pass.local[to].ino]]
    /\ pass' = [pass EXCEPT !.step = "move", !.moves[pass.path] = None,
                            !.path = None]
    /\ UNCHANGED <<disk, scratch, trash, primed, drive, events, ghosts, faults>>

MovesDone ==
    /\ pass.step = "move"
    /\ \A p \in Paths : pass.moves[p] = None
    /\ Goto("trash")
    /\ UNCHANGED <<machine, drive, events, ghosts, faults>>

-----------------------------------------------------------------------------
(* trashRemote, the request; on a link already in Drive's trash it does    *)
(* nothing.                                                                *)
TrashRemote(p) ==
    /\ pass.step = "trash"
    /\ p \in pass.doomed
    /\ LET l == pass.base[p].id IN
          /\ links' = [links EXCEPT ![l].live = FALSE]
          /\ feed' = IF links[l].live THEN Removed(l) ELSE feed
    /\ pass' = [pass EXCEPT !.doomed = @ \ {p}, !.path = p, !.step = "untrack"]
    /\ UNCHANGED <<machine, vault, visible, ghosts, faults>>

TrashFails(p) ==
    /\ pass.step = "trash"
    /\ p \in pass.doomed
    /\ Fault("trash")
    /\ pass' = [pass EXCEPT !.doomed = @ \ {p}]
    /\ UNCHANGED <<machine, drive, events, ghosts>>

Untrack ==
    /\ pass.step = "untrack"
    /\ rows' = [rows EXCEPT ![pass.path] = None]
    /\ pass' = [pass EXCEPT !.step = "trash", !.path = None]
    /\ UNCHANGED <<disk, scratch, trash, primed, drive, events, ghosts, faults>>

TrashDone ==
    /\ pass.step = "trash"
    /\ pass.doomed = {}
    /\ Goto("push")
    /\ UNCHANGED <<machine, drive, events, ghosts, faults>>

-----------------------------------------------------------------------------
(* Mutant: a tracked file is taken for unchanged.                          *)
PushSkipTracked(p) ==
    /\ pass.step = "push"
    /\ p \in pass.todo
    /\ disk[p] # None => pass.base[p] # None
    /\ pass' = [pass EXCEPT !.todo = @ \ {p}]
    /\ UNCHANGED <<machine, drive, events, ghosts, faults>>

(* pushNode up to the upload: the hash detectMoves left, or that of the    *)
(* file as it is now, against the baseline read before the push.           *)
HashToPush(p) ==
    IF pass.read[p] # None \/ disk[p] = None THEN pass.read[p] ELSE disk[p].c

PushSkip(p) ==
    /\ pass.step = "push"
    /\ p \in pass.todo
    /\ HashToPush(p) # None =>
          pass.base[p] # None /\ pass.base[p].hash = HashToPush(p)
    /\ pass' = [pass EXCEPT !.todo = @ \ {p}]
    /\ UNCHANGED <<machine, drive, events, ghosts, faults>>

PushHash(p) ==
    /\ pass.step = "push"
    /\ p \in pass.todo
    /\ HashToPush(p) # None
    /\ pass.base[p] # None => pass.base[p].hash # HashToPush(p)
    /\ pass' = [pass EXCEPT !.todo = @ \ {p}, !.path = p,
                            !.hash = HashToPush(p), !.step = "upload"]
    /\ UNCHANGED <<machine, drive, events, ghosts, faults>>

(* Upload reads the file again: a new revision of the live link of that    *)
(* name, whatever it holds by now, or a new link.                          *)
Upload ==
    /\ pass.step = "upload"
    /\ disk[pass.path] # None
    /\ LET c == disk[pass.path].c IN
       /\ \E l \in (IF LiveAs(pass.path) # {} THEN LiveAs(pass.path)
                                              ELSE OneOf(NewLinks)) :
             /\ links' = [links EXCEPT ![l] =
                            [name |-> pass.path, c |-> c, live |-> TRUE]]
             /\ feed' = Changed(l)
             /\ pass' = [pass EXCEPT !.step = "track", !.id = l]
             /\ twice' = twice \cup Repeated(l, c)
       /\ vault' = vault \cup {c}
    /\ UNCHANGED <<machine, visible, work, removed, written, faults>>

UploadError ==
    /\ pass.step = "upload"
    /\ pass' = [pass EXCEPT !.step = "push", !.path = None, !.hash = None]
    /\ UNCHANGED <<machine, drive, events, ghosts>>

UploadGone  == UploadError /\ disk[pass.path] = None /\ UNCHANGED faults
UploadFails == UploadError /\ Fault("upload")

(* pushNode, the end: the hash of the push with the size, mtime and inode  *)
(* of the scan before it.                                                  *)
Track ==
    /\ pass.step = "track"
    /\ rows' = [rows EXCEPT ![pass.path] =
                   [id |-> pass.id, hash |-> pass.hash,
                    stamp |-> pass.local[pass.path].c,
                    ino |-> pass.local[pass.path].ino]]
    /\ pass' = [pass EXCEPT !.step = "push", !.path = None, !.hash = None,
                            !.id = None]
    /\ UNCHANGED <<disk, scratch, trash, primed, drive, events, ghosts, faults>>

PushDone ==
    /\ pass.step = "push"
    /\ pass.todo = {}
    /\ pass' = NoPass
    /\ UNCHANGED <<machine, drive, events, ghosts, faults>>

(* The daemon is killed: everything but the folder and the database goes.  *)
Crash ==
    /\ pass.step # "idle"
    /\ Fault("crash")
    /\ pass' = NoPass
    /\ UNCHANGED <<machine, drive, events, ghosts>>

-----------------------------------------------------------------------------
(* The local user.                                                         *)
UserMayAct == pass.step \in UserSteps /\ Len(feed) < MaxFeed

(* The file at p still has the inode of the row of another path.           *)
Renamed(p) ==
    \E q \in Paths \ {p} : rows[q] # None /\ rows[q].ino = disk[p].ino

(* A file is created, written in place, or replaced by an editor's rename. *)
UserWrites(p, c) ==
    /\ UserMayAct
    /\ p \in Files
    /\ \/ \E i \in OneOf(NewInodes) :
            disk' = [disk EXCEPT ![p] = [c |-> c, ino |-> i]]
       \/ /\ disk[p] # None
          /\ FreeRenames \/ ~Renamed(p)
          /\ disk' = [disk EXCEPT ![p].c = c]
    /\ work' = (work \ HeldAt(p)) \cup {c}
    /\ removed' = removed \ {p}
    /\ written' = written \cup {c}
    /\ UNCHANGED <<scratch, trash, rows, primed, drive, events, pass, twice,
                   faults>>

UserDeletes(p) ==
    /\ UserMayAct
    /\ p \in Files
    /\ disk[p] # None
    /\ disk' = [disk EXCEPT ![p] = None]
    /\ work' = work \ HeldAt(p)
    /\ removed' = removed \cup {p}
    /\ UNCHANGED <<scratch, trash, rows, primed, drive, events, pass,
                   written, twice, faults>>

UserRenames(p, q) ==
    /\ UserMayAct
    /\ {p, q} \subseteq Files
    /\ disk[p] # None /\ disk[q] = None
    /\ FreeRenames \/ pass.step = "idle"
    /\ FreeRenames \/ \A r \in Paths : rows[r] # None /\ rows[r].ino = disk[p].ino
                                     => rows[r].hash = disk[p].c
    /\ disk' = [disk EXCEPT ![q] = disk[p], ![p] = None]
    /\ removed' = (removed \ {q}) \cup {p}
    /\ UNCHANGED <<scratch, trash, rows, primed, drive, events, pass, work,
                   written, twice, faults>>

(* The other devices of the account, and Drive publishing their events a   *)
(* few seconds later.                                                      *)
DeviceMayAct == Len(feed) < MaxFeed

DeviceWrites(p, c) ==
    /\ DeviceMayAct
    /\ p \in Files
    /\ \E l \in (IF LiveAs(p) # {} THEN LiveAs(p) ELSE OneOf(NewLinks)) :
          /\ links' = [links EXCEPT ![l] =
                         [name |-> p, c |-> c, live |-> TRUE]]
          /\ feed' = Changed(l)
          /\ twice' = twice \cup Repeated(l, c)
    /\ vault' = vault \cup {c}
    /\ written' = written \cup {c}
    /\ UNCHANGED <<machine, visible, pass, work, removed, faults>>

DeviceTrashes(l) ==
    /\ DeviceMayAct
    /\ links[l] # None /\ links[l].live
    /\ links' = [links EXCEPT ![l].live = FALSE]
    /\ feed' = Removed(l)
    /\ UNCHANGED <<machine, vault, visible, pass, ghosts, faults>>

DeviceRenames(l, p) ==
    /\ DeviceMayAct
    /\ p \in Files
    /\ links[l] # None /\ links[l].live /\ links[l].name \in Files
    /\ LiveAs(p) = {}
    /\ links' = [links EXCEPT ![l].name = p]
    /\ feed' = Changed(l)
    /\ UNCHANGED <<machine, vault, visible, pass, ghosts, faults>>

Publish ==
    /\ visible < Len(feed)
    /\ visible' = visible + 1
    /\ UNCHANGED <<machine, drive, feed, pass, ghosts, faults>>

-----------------------------------------------------------------------------
Pull ==
    \/ PollEvents \/ StartWalk \/ DeletesDone \/ Forget \/ List
    \/ \E l \in Links : DeleteByID(l)
    \/ \E n \in pass.todo : ApplySkip(n) \/ Download(n) \/ DownloadGone(n)
    \/ Preserve \/ Commit \/ Record \/ FindStale
    \/ \E p \in Paths : Reap(p)
    \/ ReapDone \/ SaveCursor

Push ==
    \/ Rescan \/ Baseline
    \/ \E p \in Paths : MoveRemote(p) \/ MoveRefused(p)
    \/ DropRow \/ ReplaceRow \/ MovesDone
    \/ \E p \in Paths : TrashRemote(p)
    \/ Untrack \/ TrashDone
    \/ \E p \in Paths : PushSkip(p) \/ PushHash(p)
    \/ Upload \/ UploadGone \/ Track \/ PushDone

Failure ==
    \/ PollFails \/ ListFails
    \/ \E n \in pass.todo : DownloadFails(n)
    \/ CommitFails
    \/ \E p \in Paths : MoveFails(p) \/ TrashFails(p)
    \/ UploadFails \/ Crash

User ==
    \E p \in Files :
        \/ \E c \in OneOf(NewContents) : UserWrites(p, c)
        \/ UserDeletes(p)
        \/ \E q \in Files : UserRenames(p, q)

Device ==
    \/ \E p \in Files, c \in Uploadable : DeviceWrites(p, c)
    \/ \E l \in Links : DeviceTrashes(l) \/ \E p \in Files : DeviceRenames(l, p)

Next ==
    \/ \E kind \in Kinds : Start(kind)
    \/ StartRefused
    \/ Pull \/ Push \/ Failure \/ User \/ Device \/ Publish

Spec == Init /\ [][Next]_vars

-----------------------------------------------------------------------------
(* Nothing is ever discarded (conflict.go, preserveLocalIfConflicting):    *)
(* what the local user wrote, and has neither replaced nor deleted, is in  *)
(* the sync folder, in the local trash or in Drive.                        *)
NothingDiscarded == work \subseteq OnDisk \cup trash \cup vault

(* A content is safe when losing the file that holds it loses no work.     *)
Safe(c) == c \in work => c \in vault \cup trash

(* What the baseline vouches for, by hash or by size and modification      *)
(* time, is safe: preserveLocalIfConflicting and hashIfNeeded both treat a *)
(* file that agrees with its row as one nothing is lost by overwriting.    *)
BaselineVouchesForSafe ==
    \A p \in Paths : rows[p] # None =>
        Safe(rows[p].hash) /\ (rows[p].stamp # None => Safe(rows[p].stamp))

(* A saved cursor means applied: between passes, a live link none of whose *)
(* events is still to be read has the row of its name and revision         *)
(* (FullMirror takes the cursor before the walk so that no change is       *)
(* dropped).  A revision that two links have held is excepted: applyNode   *)
(* compares digests only, and leaves the row to the other link             *)
(* (mirror.go:449; README, section 5).                                     *)
Unread(l) == \E i \in 1..Len(feed) : feed[i].id = l

Tracked(l) ==
    /\ rows[links[l].name] # None
    /\ rows[links[l].name].id = l
    /\ rows[links[l].name].hash = links[l].c

CursorMeansApplied ==
    pass.step = "idle" /\ primed =>
        \A l \in Links :
            links[l] # None /\ links[l].live =>
                Unread(l) \/ Tracked(l) \/ links[l].c \in twice

(* A pass trashes a link in Drive only for a file the local user deleted   *)
(* or renamed away: never because the engine itself lost sight of it.      *)
TrashesOnlyRemoved ==
    [][\A l \in Links :
          links[l] # None /\ links[l].live /\ ~links'[l].live /\ pass' # pass
              => pass'.path \in removed]_vars

-----------------------------------------------------------------------------
(* The daemon keeps polling whatever listings are refreshed in between,    *)
(* Drive keeps publishing, and a pass that has begun goes on.              *)
Fairness ==
    SF_vars(Start("sync")) /\ WF_vars(Pull) /\ WF_vars(Push) /\ WF_vars(Publish)

FairSpec == Spec /\ Fairness

InSync ==
    \A p \in Paths :
        IF disk[p] = None THEN LiveAs(p) = {}
        ELSE \E l \in LiveAs(p) : links[l].c = disk[p].c

(* Once the user, the other devices and the failures stop, folder and      *)
(* Drive come to agree and stay so, unless the empty-root guard holds the  *)
(* passes back.                                                            *)
Converges ==
    <>[][~(User \/ Device \/ Failure)]_vars => <>[](InSync \/ ~RootGuard)
=============================================================================
