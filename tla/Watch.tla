------------------------------- MODULE Watch -------------------------------
(***************************************************************************)
(* The inotify watcher of pdrived (daemon/watcher.go).  A watch belongs to *)
(* a directory itself, not to its path, so the watcher keeps the path each *)
(* watch had, walks every directory that appears, and forgets the watches  *)
(* of directories that go.  The kernel queues events in order; one         *)
(* goroutine reads and handles them (readLoop, handle, addTree), another   *)
(* takes what it sends (Run), coalesces changes behind a timer and asks    *)
(* for passes.  Users make, move and remove directories meanwhile.         *)
(*                                                                         *)
(* Files are not named: a Write is any change of one in a directory, and   *)
(* a pass sees the whole folder at one moment, when it scans it.           *)
(***************************************************************************)
EXTENDS Integers, Sequences, FiniteSets, SequencesExt

CONSTANTS
    Root,      \* the sync folder
    Dirs,      \* the other directories, each made once
    Names,     \* their names
    Ignored,   \* the names that mirror.Ignored rejects
    Outside,   \* anywhere else on the disk
    Nowhere,   \* where a directory is that is not made yet
    Removed,   \* where it is when it is gone
    None,
    MaxChan,   \* room in the events channel (256 in the code)
    MaxQueue,  \* room in the kernel's queue
    MaxSteps   \* bound: steps of users

ASSUME PlacesAssumption ==
    /\ IsFiniteSet(Dirs)
    /\ Root \notin Dirs \cup {Outside, Nowhere, Removed}
    /\ Outside \notin Dirs \cup {Nowhere, Removed}
    /\ Nowhere \notin Dirs \cup {Removed} /\ Removed \notin Dirs
ASSUME NamesAssumption == Ignored \subseteq Names /\ Ignored # Names
ASSUME RoomAssumption == {MaxChan, MaxQueue, MaxSteps} \subseteq Nat \ {0}

VARIABLES
    parent,    \* where each directory is
    name,      \* and how it is called there
    watched,   \* the kernel's watches, by directory (a watch descriptor)
    queue,     \* events of the kernel, oldest first
    overflowed,\* has the kernel's queue ever been full?
    paths,     \* Watcher.paths: watch descriptor -> path, or None
    todo,      \* addTree: paths it has yet to visit
    reading,   \* addTree: the directory whose names it has just read, or None
    owed,      \* is there a change to send when addTree returns?
    raced,     \* directories that appeared in between read and watch
    refused,   \* directories it could not read or watch when it last tried
    chan,      \* events: what readLoop has sent and Run not taken
    timer,     \* changeTimer is running
    wake,      \* a pass is asked for
    unseen,    \* a change under a watch that no pass has seen
    flooded,   \* a change was dropped with only listings in the channel
    steps      \* of users

tree    == <<parent, name>>
kernel  == <<watched, queue, overflowed>>
walk    == <<todo, reading, owed, raced, refused>>
loop    == <<chan, timer, wake>>
history == <<unseen, flooded>>
vars    == <<tree, kernel, paths, walk, loop, history, steps>>

Watchable == Dirs \cup {Root}
Place     == Watchable \cup {Outside, Nowhere, Removed}
Path      == Seq(Names)
Read      == [path : Path, names : SUBSET Names]

Event == [wd : Watchable, kind : {"made"}, name : Names]
         \cup [wd : Watchable, kind : {"gone", "change", "open"},
               name : Names \cup {None}]
         \cup [wd : {None}, kind : {"overflow"}, name : {None}]

ASSUME NoneAssumption == None \notin Names \cup Read

TypeOK ==
    /\ parent \in [Dirs -> Place] /\ name \in [Dirs -> Names]
    /\ watched \subseteq Watchable
    /\ queue \in Seq(Event)
    /\ overflowed \in BOOLEAN
    /\ paths \in [Watchable -> Path \cup {None}]
    /\ todo \subseteq Path
    /\ reading \in Read \cup {None}
    /\ owed \in BOOLEAN /\ raced \subseteq Dirs /\ refused \subseteq Watchable
    /\ chan \in Seq({"listing", "change"})
    /\ {timer, wake, unseen, flooded} \subseteq BOOLEAN
    /\ steps \in 0 .. MaxSteps

(* The directories above d, d among them, as far as they go.               *)
Above(d) ==
    {x \in Watchable : \A S \in SUBSET Watchable :
        /\ d \in S
        /\ \A y \in S \cap Dirs : parent[y] \in Watchable => parent[y] \in S
        => x \in S}

InTree(d) == Root \in Above(d)

Children(p) == {d \in Dirs : parent[d] = p}

(* The directories from the sync folder down to where a path leads.        *)
Descent(path, d) ==
    {down \in [0 .. Len(path) -> Watchable] :
        /\ down[0] = Root /\ down[Len(path)] = d
        /\ \A i \in 1 .. Len(path) :
              /\ down[i] \in Dirs /\ parent[down[i]] = down[i-1]
              /\ name[down[i]] = path[i]}

(* The directories that a path leads to: one or none.                      *)
At(path) == {d \in Watchable : Descent(path, d) # {}}

Init ==
    /\ parent = [d \in Dirs |-> Nowhere]
    /\ name = [d \in Dirs |-> CHOOSE n \in Names : n \notin Ignored]
    /\ watched = {} /\ queue = <<>> /\ overflowed = FALSE
    /\ paths = [d \in Watchable |-> None]
    /\ todo = {<<>>} /\ reading = None /\ owed = FALSE
    /\ raced = {} /\ refused = {}
    /\ chan = <<>> /\ timer = FALSE /\ wake = FALSE
    /\ unseen = FALSE /\ flooded = FALSE
    /\ steps = 0

-----------------------------------------------------------------------------
(* The kernel: what a step reports, to the watches there are; a full queue *)
(* takes one more event, which says so.                                    *)
Ev(wd, kind, n) == [wd |-> wd, kind |-> kind, name |-> n]

Told(e) == IF e.wd \in watched THEN <<e>> ELSE <<>>

Report(told) ==
    IF Len(queue) + Len(told) <= MaxQueue
    THEN queue' = queue \o told /\ UNCHANGED overflowed
    ELSE /\ queue' = IF overflowed /\ queue # <<>> /\ Last(queue).kind = "overflow"
                     THEN queue
                     ELSE Append(queue, Ev(None, "overflow", None))
         /\ overflowed' = TRUE

UserStep == steps < MaxSteps /\ steps' = steps + 1

Free(p, n) == \A d \in Children(p) : name[d] # n

Mkdir(d, p, n) ==
    /\ UserStep
    /\ parent[d] = Nowhere /\ parent' = [parent EXCEPT ![d] = p]
    /\ p = Outside \/ InTree(p)
    /\ Free(p, n) /\ name' = [name EXCEPT ![d] = n]
    /\ Report(Told(Ev(p, "made", n)))
    /\ UNCHANGED <<watched, paths, walk, loop, history>>

(* Moved within the folder, into it or out of it.                          *)
Rename(d, p, n) ==
    /\ UserStep
    /\ parent[d] \notin {Nowhere, Removed} /\ <<parent[d], name[d]>> # <<p, n>>
    /\ p = Outside \/ (InTree(p) /\ d \notin Above(p))
    /\ Free(p, n)
    /\ parent' = [parent EXCEPT ![d] = p] /\ name' = [name EXCEPT ![d] = n]
    /\ Report(Told(Ev(parent[d], "change", name[d])) \o Told(Ev(p, "made", n))
                \o Told(Ev(d, "gone", None)))
    /\ UNCHANGED <<watched, paths, walk, loop, history>>

Rmdir(d) ==
    /\ UserStep
    /\ InTree(d) /\ Children(d) = {}
    /\ parent' = [parent EXCEPT ![d] = Removed]
    /\ Report(Told(Ev(d, "gone", None)) \o Told(Ev(parent[d], "change", name[d])))
    /\ watched' = watched \ {d}
    /\ UNCHANGED <<name, paths, walk, loop, history>>

Write(d) ==
    /\ UserStep
    /\ InTree(d)
    /\ unseen' = (unseen \/ d \in watched)
    /\ Report(Told(Ev(d, "change", None)))
    /\ UNCHANGED <<tree, watched, paths, walk, loop, flooded>>

List(d) ==
    /\ UserStep
    /\ InTree(d)
    /\ Report(Told(Ev(d, "open", None)))
    /\ UNCHANGED <<tree, watched, paths, walk, loop, history>>

-----------------------------------------------------------------------------
(* readLoop, handle and addTree: one goroutine.                            *)

Send(ev) ==
    IF Len(chan) < MaxChan THEN chan' = Append(chan, ev) ELSE UNCHANGED chan

(* Dropped, with nothing on its way that would start the timer.            *)
Floods == Len(chan) >= MaxChan /\ ~timer /\ "change" \notin ToSet(chan)

SendChange == Send("change") /\ flooded' = (flooded \/ Floods)

Reading == todo # {} \/ reading # None \/ owed

(* filepath.Walk: the names of a directory first ...                       *)
WalkRead(path) ==
    /\ path \in todo /\ reading = None
    /\ todo' = todo \ {path}
    /\ reading' = IF At(path) = {} THEN None
                  ELSE [path |-> path,
                        names |-> {name[c] : c \in UNION {Children(d) : d \in At(path)}}]
    /\ UNCHANGED <<tree, kernel, paths, owed, raced, refused, loop, history,
                   steps>>

(* ... or not: an unreadable subtree is skipped.                           *)
WalkUnread(path) ==
    /\ path \in todo /\ reading = None
    /\ todo' = todo \ {path}
    /\ refused' = refused \cup At(path)
    /\ UNCHANGED <<tree, kernel, paths, reading, owed, raced, loop, history,
                   steps>>

(* ... then addOne, then what it has read.                                 *)
WalkAdd ==
    /\ reading # None
    /\ LET ds == At(reading.path) IN
       /\ watched' = watched \cup ds
       /\ paths' = [d \in Watchable |-> IF d \in ds THEN reading.path ELSE paths[d]]
       /\ raced' = raced \cup {c \in UNION {Children(d) : d \in ds \ watched} :
                               name[c] \notin reading.names}
       /\ refused' = refused \ ds
    /\ todo' = todo \cup {Append(reading.path, n) : n \in reading.names \ Ignored}
    /\ reading' = None
    /\ UNCHANGED <<tree, queue, overflowed, owed, loop, history, steps>>

(* The kernel refuses the watch (there are as many as the user may have,   *)
(* or the directory may not be read): a debug line, and the walk goes on.  *)
WalkAddFails ==
    /\ reading # None
    /\ refused' = refused \cup At(reading.path)
    /\ todo' = todo \cup {Append(reading.path, n) : n \in reading.names \ Ignored}
    /\ reading' = None
    /\ UNCHANGED <<tree, kernel, paths, owed, raced, loop, history, steps>>

WalkEnds ==
    /\ owed /\ todo = {} /\ reading = None
    /\ owed' = FALSE
    /\ SendChange
    /\ UNCHANGED <<tree, kernel, paths, todo, reading, raced, refused, timer,
                   wake, unseen, steps>>

Dequeue == queue # <<>> /\ ~Reading /\ queue' = Tail(queue)

HandleOpen ==
    /\ Dequeue /\ Head(queue).kind = "open"
    /\ Send("listing")
    /\ UNCHANGED <<tree, watched, overflowed, paths, walk, timer, wake,
                   history, steps>>

HandleGone ==
    /\ Dequeue /\ Head(queue).kind = "gone"
    /\ paths' = [paths EXCEPT ![Head(queue).wd] = None]
    /\ UNCHANGED <<tree, watched, overflowed, walk, loop, history, steps>>

HandleIgnored ==
    /\ Dequeue /\ Head(queue).kind \in {"made", "change"}
    /\ Head(queue).name \in Ignored
    /\ UNCHANGED <<tree, watched, overflowed, paths, walk, loop, history, steps>>

(* Mutant: the watch of a new directory itself, and none beneath it.       *)
HandleMadeFlat ==
    /\ Dequeue /\ Head(queue).kind = "made"
    /\ Head(queue).name \notin Ignored
    /\ LET path == paths[Head(queue).wd]
           ds == IF path = None THEN {} ELSE At(Append(path, Head(queue).name)) IN
       /\ watched' = watched \cup ds
       /\ paths' = [d \in Watchable |-> IF d \in ds
                                      THEN Append(path, Head(queue).name)
                                      ELSE paths[d]]
    /\ SendChange
    /\ UNCHANGED <<tree, overflowed, walk, timer, wake, unseen, steps>>

HandleMade ==
    /\ Dequeue /\ Head(queue).kind = "made"
    /\ Head(queue).name \notin Ignored
    /\ LET path == paths[Head(queue).wd] IN
       todo' = IF path = None THEN {} ELSE {Append(path, Head(queue).name)}
    /\ owed' = TRUE
    /\ UNCHANGED <<tree, watched, overflowed, paths, reading, raced, refused,
                   loop, history, steps>>

(* A file, a directory that left, or an overflow, which has no name.       *)
HandleChange ==
    /\ Dequeue /\ Head(queue).kind \in {"change", "overflow"}
    /\ Head(queue).name \notin Ignored
    /\ SendChange
    /\ UNCHANGED <<tree, watched, overflowed, paths, walk, timer, wake,
                   unseen, steps>>

-----------------------------------------------------------------------------
(* Run.                                                                    *)

(* onListing, unless it was called less than a second ago.                 *)
TakeListing ==
    /\ chan # <<>> /\ Head(chan) = "listing"
    /\ chan' = Tail(chan)
    /\ wake' \in {wake, TRUE}
    /\ UNCHANGED <<tree, kernel, paths, walk, timer, history, steps>>

(* Mutant: a timer that runs is stopped and not started again.             *)
TakeChangeStops ==
    /\ chan # <<>> /\ Head(chan) = "change"
    /\ chan' = Tail(chan)
    /\ timer' = ~timer
    /\ UNCHANGED <<tree, kernel, paths, walk, wake, history, steps>>

TakeChange ==
    /\ chan # <<>> /\ Head(chan) = "change"
    /\ chan' = Tail(chan)
    /\ timer' = TRUE
    /\ UNCHANGED <<tree, kernel, paths, walk, wake, history, steps>>

TimerFires ==
    /\ timer
    /\ timer' = FALSE /\ wake' = TRUE
    /\ UNCHANGED <<tree, kernel, paths, walk, chan, history, steps>>

(* The pass that was asked for reads every directory of the folder.        *)
Pass ==
    /\ wake /\ wake' = FALSE
    /\ unseen' = FALSE
    /\ Report(SetToSeq({Ev(d, "open", None) : d \in {x \in watched : InTree(x)}}))
    /\ UNCHANGED <<tree, watched, paths, walk, chan, timer, flooded, steps>>

-----------------------------------------------------------------------------
Users ==
    \/ \E d \in Dirs, n \in Names, p \in Watchable \cup {Outside} :
          Mkdir(d, p, n) \/ Rename(d, p, n)
    \/ \E d \in Dirs : Rmdir(d)
    \/ \E d \in Watchable : Write(d) \/ List(d)

Walk ==
    \/ \E path \in todo : WalkRead(path) \/ WalkUnread(path)
    \/ WalkAdd \/ WalkAddFails \/ WalkEnds

Handle ==
    HandleOpen \/ HandleGone \/ HandleIgnored \/ HandleMade \/ HandleChange

Run == TakeListing \/ TakeChange

Next == Users \/ Walk \/ Handle \/ Run \/ TimerFires \/ Pass

Spec == Init /\ [][Next]_vars

-----------------------------------------------------------------------------
Settled == queue = <<>> /\ ~Reading

(* A watch whose path the watcher does not have, or no longer has right.   *)
Lost(d) == d \in watched /\ (paths[d] = None \/ d \notin At(paths[d]))

NamedIgnored(d) == \E x \in Above(d) \cap Dirs : name[x] \in Ignored

(* A directory that addTree could not read or watch, one that appeared     *)
(* between its reading of the parent and the parent's watch, or one in a   *)
(* directory whose path the watcher forgot when it, or one above it, moved.*)
BlindSpot(x) ==
    \/ x \in refused
    \/ x \in Dirs /\ (x \in raced \/ Lost(parent[x]))

(* "Anything already created inside it before the watch landed needs       *)
(* picking up" (watcher.go:232-233).  It mostly is: when every event has   *)
(* been handled, a directory goes unwatched only if it, or one above it,   *)
(* is such a spot.                                                         *)
KnownBlindSpots ==
    Settled /\ ~overflowed =>
        \A d \in Dirs : InTree(d) /\ d \notin watched /\ ~NamedIgnored(d) =>
            \E x \in Above(d) : BlindSpot(x)

(* "The debounce will fire regardless; dropping is harmless"               *)
(* (watcher.go:242): while a change that a watch reported waits for a      *)
(* pass, something is on its way that leads to one: the event itself or a  *)
(* later one, an overflow, the timer, the trigger; unless the channel was  *)
(* full of listings when the change came, which the comment leaves out.    *)
ChangesOnTheirWay ==
    unseen /\ ~flooded =>
        \/ wake \/ timer \/ owed
        \/ "change" \in ToSet(chan)
        \/ \E e \in ToSet(queue) :
              e.kind \in {"made", "change", "overflow"} /\ e.name \notin Ignored
=============================================================================
