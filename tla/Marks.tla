------------------------------- MODULE Marks -------------------------------
(***************************************************************************)
(* The marks of pdrive-gate (internal/gate): which directories of the sync *)
(* folder the kernel intercepts, against the map in which Fanotify keeps   *)
(* their paths, while daemons connect and go and the user rearranges the   *)
(* folder.                                                                 *)
(*                                                                         *)
(* The folder is the root and one level of directories below it.  A mark   *)
(* is on an inode: it follows a rename and goes when the directory does.   *)
(* The walk of MarkTree and the loop of UnmarkAll visit one path at a      *)
(* time, and the user acts in between.                                     *)
(***************************************************************************)
EXTENDS Naturals, FiniteSets, TLAPS

CONSTANTS
    Root,      \* the path of the sync folder
    Subdirs,   \* paths of directories below it
    Inodes,    \* inode numbers
    None,      \* no directory, no daemon
    Daemons,   \* connections of pdrived
    UserOps    \* what the user does: subset of {"mkdir", "rmdir", "rename"}

Dirs == {Root} \cup Subdirs

ASSUME RootAssumption == Root \notin Subdirs
ASSUME NoneAssumption == None \notin Inodes \cup Daemons
ASSUME OpsAssumption == UserOps \subseteq {"mkdir", "rmdir", "rename"}

VARIABLES
    tree,     \* path -> the inode of the directory there, or None
    kernel,   \* the inodes that carry a mark
    marked,   \* Fanotify.marked: the paths taken for marked
    client,   \* Server.client: the registered daemon or None
    phase,    \* where handleClient is for each connection
    walk,     \* the paths MarkTree or UnmarkAll has still to visit
    settled,  \* has the folder stayed as it was since the last walk began?
    moved     \* the inodes whose directory was renamed since it was made

server == <<client, phase, walk>>
vars   == <<tree, kernel, marked, server, settled, moved>>

Phases == {"closed", "marking", "serving", "unmarking"}

TypeOK ==
    /\ tree \in [Dirs -> Inodes \cup {None}]
    /\ kernel \subseteq Inodes
    /\ marked \subseteq Dirs
    /\ client \in Daemons \cup {None}
    /\ phase \in [Daemons -> Phases]
    /\ walk \subseteq Dirs
    /\ settled \in BOOLEAN
    /\ moved \subseteq Inodes

Present == {p \in Dirs : tree[p] # None}

Init ==
    /\ tree \in {[p \in Dirs |-> IF p = Root THEN i ELSE None] : i \in Inodes}
    /\ kernel = {} /\ marked = {}
    /\ client = None
    /\ phase = [d \in Daemons |-> "closed"]
    /\ walk = {}
    /\ settled = FALSE
    /\ moved = {}

-----------------------------------------------------------------------------
(* MarkTree: Walk reads the names below the root, then visits them.        *)
StartWalk(d) ==
    /\ phase' = [phase EXCEPT ![d] = "marking"]
    /\ walk' = Present
    /\ settled' = TRUE

(* Mutant: a new connection takes over from the one that is registered.    *)
RegisterOver(d) ==
    /\ phase[d] = "closed"
    /\ client' = d
    /\ phase' = [phase EXCEPT ![d] = "marking"]
    /\ walk' = Present
    /\ settled' = TRUE
    /\ UNCHANGED <<tree, kernel, marked, moved>>

(* handleClient up to the first MarkTree.                                  *)
Register(d) ==
    /\ phase[d] = "closed"
    /\ client = None
    /\ client' = d
    /\ StartWalk(d)
    /\ UNCHANGED <<tree, kernel, marked, moved>>

(* TypeRescan: the daemon created directories, or saw new ones.            *)
Rescan(d) ==
    /\ phase[d] = "serving"
    /\ StartWalk(d)
    /\ UNCHANGED <<tree, kernel, marked, client, moved>>

(* Mutant: the mark is set and the path is not written down.               *)
MarkUnrecorded(p) ==
    /\ kernel' = IF tree[p] = None THEN kernel ELSE kernel \cup {tree[p]}
    /\ UNCHANGED marked

(* Mark: nothing to do for a path the map holds; an error for one that is  *)
(* gone by now.                                                            *)
Mark(p) ==
    IF p \in marked \/ tree[p] = None
    THEN UNCHANGED <<kernel, marked>>
    ELSE /\ kernel' = kernel \cup {tree[p]}
         /\ marked' = marked \cup {p}

MarkNext(d, p) ==
    /\ phase[d] = "marking"
    /\ p \in walk
    /\ walk' = walk \ {p}
    /\ Mark(p)
    /\ UNCHANGED <<tree, client, phase, settled, moved>>

MarkDone(d) ==
    /\ phase[d] = "marking"
    /\ walk = {}
    /\ phase' = [phase EXCEPT ![d] = "serving"]
    /\ UNCHANGED <<tree, kernel, marked, client, walk, settled, moved>>

(* The connection ends, and UnmarkAll takes the paths the map holds.  An   *)
(* end that comes during a walk is read after it.                          *)
Disconnect(d) ==
    /\ phase[d] = "serving"
    /\ phase' = [phase EXCEPT ![d] = "unmarking"]
    /\ walk' = marked
    /\ settled' = FALSE
    /\ UNCHANGED <<tree, kernel, marked, client, moved>>

(* Unmark: the kernel forgets the directory that is at the path now.       *)
UnmarkNext(d, p) ==
    /\ phase[d] = "unmarking"
    /\ p \in walk
    /\ walk' = walk \ {p}
    /\ kernel' = kernel \ {tree[p]}
    /\ marked' = marked \ {p}
    /\ UNCHANGED <<tree, client, phase, settled, moved>>

(* Mutant: the client is gone before its marks are.                        *)
ReleaseAtOnce(d) ==
    /\ phase[d] = "unmarking"
    /\ client' = None
    /\ phase' = [phase EXCEPT ![d] = "closed"]
    /\ walk' = {}
    /\ UNCHANGED <<tree, kernel, marked, settled, moved>>

Release(d) ==
    /\ phase[d] = "unmarking"
    /\ walk = {}
    /\ client' = None
    /\ phase' = [phase EXCEPT ![d] = "closed"]
    /\ UNCHANGED <<tree, kernel, marked, walk, settled, moved>>

(* The gate stops or is killed: the kernel drops its marks with the        *)
(* descriptor, and a new process starts with an empty map.                 *)
GateStops ==
    /\ kernel' = {} /\ marked' = {}
    /\ client' = None
    /\ phase' = [d \in Daemons |-> "closed"]
    /\ walk' = {}
    /\ settled' = FALSE
    /\ UNCHANGED <<tree, moved>>

-----------------------------------------------------------------------------
(* The user, the daemon's own downloads included.                          *)
MakeDir(p, i) ==
    /\ "mkdir" \in UserOps
    /\ p \in Subdirs /\ tree[p] = None
    /\ i \in Inodes \ kernel /\ \A q \in Dirs : tree[q] # i
    /\ tree' = [tree EXCEPT ![p] = i]
    /\ settled' = FALSE
    /\ moved' = moved \ {i}
    /\ UNCHANGED <<kernel, marked, server>>

RemoveDir(p) ==
    /\ "rmdir" \in UserOps
    /\ p \in Subdirs /\ tree[p] # None
    /\ tree' = [tree EXCEPT ![p] = None]
    /\ kernel' = kernel \ {tree[p]}
    /\ settled' = FALSE
    /\ UNCHANGED <<marked, server, moved>>

RenameDir(p, q) ==
    /\ "rename" \in UserOps
    /\ {p, q} \subseteq Subdirs /\ tree[p] # None /\ tree[q] = None
    /\ tree' = [tree EXCEPT ![q] = tree[p], ![p] = None]
    /\ settled' = FALSE
    /\ moved' = moved \cup {tree[p]}
    /\ UNCHANGED <<kernel, marked, server>>

User ==
    \E p \in Subdirs :
        \/ \E i \in Inodes : MakeDir(p, i)
        \/ RemoveDir(p)
        \/ \E q \in Subdirs : RenameDir(p, q)

Next ==
    \/ \E d \in Daemons :
          \/ Register(d) \/ Rescan(d) \/ MarkDone(d) \/ Disconnect(d) \/ Release(d)
          \/ \E p \in Dirs : MarkNext(d, p) \/ UnmarkNext(d, p)
    \/ GateStops \/ User

Spec == Init /\ [][Next]_vars

-----------------------------------------------------------------------------
(* One connection at a time: the marks are set and taken only for the      *)
(* registered daemon, whoever connects while it is being served            *)
(* (handleClient refuses a second one).                                    *)
OnlyClientWalks == \A d \in Daemons : phase[d] # "closed" => client = d

(* With the daemon gone every mark is dropped and the filesystem behaves   *)
(* as if no gate existed (handleClient, UnmarkAll), but for the marks of   *)
(* directories that were renamed, which UnmarkAll looks for in vain.       *)
LeftoversWereRenamed == client = None => kernel \subseteq moved /\ marked = {}

(* "MarkTree marks a directory and everything beneath it" (fanotify.go:99):*)
(* once a walk is over, and while the folder stays as it was, every        *)
(* listing is held.  Refuted (README, section 5) by a directory that is    *)
(* removed and made again under its name.                                  *)
EverythingIsMarked ==
    \A d \in Daemons :
        phase[d] = "serving" /\ settled => {tree[p] : p \in Present} \subseteq kernel

(* UnmarkAll can find each mark: its directory is at a path of the map,    *)
(* unless it was renamed.                                                  *)
MarksAreFound == \A p \in Present : tree[p] \in kernel \ moved => p \in marked

-----------------------------------------------------------------------------
(***************************************************************************)
(* What the marks promise whatever the user does to the folder, for any    *)
(* number of directories, inodes and connections.                          *)
(***************************************************************************)
(* A directory is at one path only.                                        *)
OnePath == \A p, q \in Present : tree[p] = tree[q] => p = q

(* A mark goes with its directory.                                         *)
MarksArePresent == \A i \in kernel : \E p \in Present : tree[p] = i

(* UnmarkAll has every path of the map still before it.                    *)
UnmarkingCovers == \A d \in Daemons : phase[d] = "unmarking" => marked \subseteq walk

(* Nothing is marked for nobody.                                           *)
NobodyNothing == client = None => marked = {}

IInv ==
    /\ TypeOK
    /\ OnlyClientWalks
    /\ OnePath
    /\ MarksArePresent
    /\ MarksAreFound
    /\ UnmarkingCovers
    /\ NobodyNothing

-----------------------------------------------------------------------------
LEMMA Initially == Init => IInv
  BY RootAssumption, NoneAssumption
  DEF Init, IInv, TypeOK, OnlyClientWalks, OnePath, MarksArePresent, MarksAreFound,
      UnmarkingCovers, NobodyNothing, Present, Dirs, Phases

(* What handleClient and the walks do leaves the folder alone.             *)
LEMMA ServerSteps ==
  ASSUME IInv, NEW d \in Daemons,
         \/ Register(d) \/ Rescan(d) \/ MarkDone(d) \/ Disconnect(d) \/ Release(d)
  PROVE  IInv'
<1> USE RootAssumption, NoneAssumption DEF IInv, Dirs
<1>1. UNCHANGED <<tree, kernel, moved>>
  BY DEF Register, Rescan, StartWalk, MarkDone, Disconnect, Release
<1>2. OnePath' /\ MarksArePresent' /\ marked' = marked
  BY <1>1 DEF Register, Rescan, StartWalk, MarkDone, Disconnect, Release, OnePath,
              MarksArePresent, Present
<1>3. MarksAreFound'
  BY <1>1, <1>2 DEF MarksAreFound, Present
<1>4. TypeOK'
  BY <1>1, <1>2
  DEF Register, Rescan, StartWalk, MarkDone, Disconnect, Release, TypeOK, Phases, Present
<1>5. OnlyClientWalks'
  BY DEF Register, Rescan, StartWalk, MarkDone, Disconnect, Release, TypeOK, OnlyClientWalks
<1>6. UnmarkingCovers'
  BY <1>2
  DEF Register, Rescan, StartWalk, MarkDone, Disconnect, Release, TypeOK, UnmarkingCovers,
      OnlyClientWalks
<1>7. NobodyNothing'
  <2>1. CASE Release(d)
    BY <1>2, <2>1 DEF Release, UnmarkingCovers, NobodyNothing
  <2>2. CASE Register(d) \/ Rescan(d) \/ MarkDone(d) \/ Disconnect(d)
    BY <1>2, <2>2
    DEF Register, Rescan, StartWalk, MarkDone, Disconnect, NobodyNothing
  <2> QED
    BY <2>1, <2>2
<1> QED
  BY <1>2, <1>3, <1>4, <1>5, <1>6, <1>7

(* One path of MarkTree.                                                   *)
LEMMA MarkStep ==
  ASSUME IInv, NEW d \in Daemons, NEW p \in Dirs, MarkNext(d, p)
  PROVE  IInv'
<1> USE RootAssumption, NoneAssumption DEF IInv
<1>1. UNCHANGED <<tree, client, phase, moved>> /\ phase[d] = "marking" /\ client = d
  BY DEF MarkNext, OnlyClientWalks
<1>2. client # None
  BY <1>1
<1>3. OnePath' /\ OnlyClientWalks' /\ NobodyNothing'
  BY <1>1, <1>2 DEF OnePath, OnlyClientWalks, NobodyNothing, Present
<1>4. \A e \in Daemons : phase[e] # "unmarking"
  BY <1>1 DEF OnlyClientWalks
<1>5. UnmarkingCovers'
  BY <1>1, <1>4 DEF UnmarkingCovers
<1>6. \/ UNCHANGED <<kernel, marked>>
      \/ p \in Present /\ kernel' = kernel \cup {tree[p]} /\ marked' = marked \cup {p}
  BY DEF MarkNext, Mark, Present
<1>7. MarksArePresent' /\ MarksAreFound' /\ TypeOK'
  BY <1>1, <1>6
  DEF MarkNext, MarksArePresent, MarksAreFound, OnePath, Present, TypeOK
<1> QED
  BY <1>3, <1>5, <1>7

(* One path of UnmarkAll.                                                  *)
LEMMA UnmarkStep ==
  ASSUME IInv, NEW d \in Daemons, NEW p \in Dirs, UnmarkNext(d, p)
  PROVE  IInv'
<1> USE RootAssumption, NoneAssumption DEF IInv
<1>1. UNCHANGED <<tree, client, phase, moved>>
  BY DEF UnmarkNext
<1>2. OnePath' /\ OnlyClientWalks'
  BY <1>1 DEF OnePath, OnlyClientWalks, Present
<1>3. UnmarkingCovers' /\ NobodyNothing' /\ TypeOK'
  BY <1>1 DEF UnmarkNext, UnmarkingCovers, NobodyNothing, TypeOK
<1>4. MarksArePresent' /\ MarksAreFound'
  BY <1>1 DEF UnmarkNext, MarksArePresent, MarksAreFound, Present
<1> QED
  BY <1>2, <1>3, <1>4

(* A gate that stops leaves nothing behind.                                *)
LEMMA StopStep ==
  ASSUME IInv, GateStops
  PROVE  IInv'
  BY RootAssumption, NoneAssumption
  DEF GateStops, IInv, TypeOK, OnlyClientWalks, OnePath, MarksArePresent, MarksAreFound,
      UnmarkingCovers, NobodyNothing, Present, Phases

(* The user's changes leave the server alone.                              *)
LEMMA UserStep ==
  ASSUME IInv, User
  PROVE  IInv'
<1> USE RootAssumption, NoneAssumption DEF IInv
<1>1. UNCHANGED <<marked, client, phase, walk>>
  BY DEF User, MakeDir, RemoveDir, RenameDir, server
<1>2. OnlyClientWalks' /\ UnmarkingCovers' /\ NobodyNothing'
  BY <1>1 DEF OnlyClientWalks, UnmarkingCovers, NobodyNothing
<1>3. OnePath' /\ MarksArePresent' /\ MarksAreFound' /\ TypeOK'
  <2>1. CASE \E p \in Subdirs, i \in Inodes : MakeDir(p, i)
    <3>1. PICK p \in Subdirs, i \in Inodes : MakeDir(p, i)
      BY <2>1
    <3>2. TypeOK'
      BY <1>1, <3>1 DEF MakeDir, TypeOK, Dirs
    <3>3. OnePath'
      BY <1>1, <3>1 DEF MakeDir, OnePath, TypeOK, Present, Dirs
    <3>4. MarksArePresent'
      BY <1>1, <3>1 DEF MakeDir, MarksArePresent, TypeOK, Present, Dirs
    <3>5. MarksAreFound'
      BY <1>1, <3>1 DEF MakeDir, MarksAreFound, MarksArePresent, OnePath, TypeOK, Present, Dirs
    <3> QED
      BY <3>2, <3>3, <3>4, <3>5
  <2>2. CASE \E p \in Subdirs : RemoveDir(p)
    <3>1. PICK p \in Subdirs : RemoveDir(p)
      BY <2>2
    <3>2. TypeOK'
      BY <1>1, <3>1 DEF RemoveDir, TypeOK, Dirs
    <3>3. OnePath'
      BY <1>1, <3>1 DEF RemoveDir, OnePath, TypeOK, Present, Dirs
    <3>4. MarksArePresent'
      BY <1>1, <3>1 DEF RemoveDir, MarksArePresent, TypeOK, Present, Dirs
    <3>5. MarksAreFound'
      BY <1>1, <3>1 DEF RemoveDir, MarksAreFound, MarksArePresent, OnePath, TypeOK, Present, Dirs
    <3> QED
      BY <3>2, <3>3, <3>4, <3>5
  <2>3. CASE \E p, q \in Subdirs : RenameDir(p, q)
    <3>1. PICK p \in Subdirs, q \in Subdirs : RenameDir(p, q)
      BY <2>3
    <3>2. TypeOK'
      BY <1>1, <3>1 DEF RenameDir, TypeOK, Dirs
    <3>3. OnePath'
      BY <1>1, <3>1 DEF RenameDir, OnePath, TypeOK, Present, Dirs
    <3>4. MarksArePresent'
      BY <1>1, <3>1 DEF RenameDir, MarksArePresent, TypeOK, Present, Dirs
    <3>5. MarksAreFound'
      BY <1>1, <3>1 DEF RenameDir, MarksAreFound, MarksArePresent, OnePath, TypeOK, Present, Dirs
    <3> QED
      BY <3>2, <3>3, <3>4, <3>5
  <2> QED
    BY <2>1, <2>2, <2>3 DEF User
<1> QED
  BY <1>2, <1>3

LEMMA Inductive == IInv /\ [Next]_vars => IInv'
<1> SUFFICES ASSUME IInv, [Next]_vars
             PROVE  IInv'
  OBVIOUS
<1>1. CASE UNCHANGED vars
  BY <1>1
  DEF vars, server, IInv, TypeOK, OnlyClientWalks, OnePath, MarksArePresent, MarksAreFound,
      UnmarkingCovers, NobodyNothing, Present
<1>2. CASE Next
  BY <1>2, ServerSteps, MarkStep, UnmarkStep, StopStep, UserStep DEF Next
<1> QED
  BY <1>1, <1>2

LEMMA Implied == IInv => TypeOK /\ OnlyClientWalks /\ LeftoversWereRenamed /\ MarksAreFound
  BY DEF IInv, NobodyNothing, MarksArePresent, MarksAreFound, LeftoversWereRenamed

-----------------------------------------------------------------------------
(* Only the registered connection sets and takes marks, however many       *)
(* daemons connect and whenever (handleClient's check of Server.client).   *)
THEOREM OneClient == Spec => [](TypeOK /\ OnlyClientWalks)
  BY Initially, Inductive, Implied, PTL DEF Spec

(* Whatever the user does while a daemon comes and goes, a directory that  *)
(* is still intercepted after the daemon has left is one that was renamed  *)
(* (UnmarkAll goes by the paths of the map).                               *)
THEOREM OnlyRenamesAreLeft == Spec => []LeftoversWereRenamed
  BY Initially, Inductive, Implied, PTL DEF Spec

(* UnmarkAll finds every mark on a directory that was never renamed.       *)
THEOREM MarksStayFound == Spec => []MarksAreFound
  BY Initially, Inductive, Implied, PTL DEF Spec
=============================================================================
