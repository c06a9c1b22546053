---------------------------- MODULE MirrorProofs ----------------------------
(***************************************************************************)
(* What internal/mirror promises, for every choice of the constants.       *)
(*                                                                         *)
(*   1. Types and locals: whatever the user does and whatever fails, the   *)
(*      engine never follows a row, a move or a node that is not there,    *)
(*      nor moves its cursor past the events Drive has published.          *)
(*   2. Reconcile: edits survive, the sides are equal.                     *)
(*   3. No pass discards the local user's work (IInv of MirrorInv).        *)
(*   4. No pass trashes in Drive what the user has not removed (RInv).     *)
(*   5. A saved cursor means applied (CInv).                               *)
(***************************************************************************)
EXTENDS MirrorInv, Reconcile, TLAPS

-----------------------------------------------------------------------------
(* 1. Types and locals.                                                    *)

(* The fixed choice among fresh names is one of them.                      *)
LEMMA OneOfIn == \A S : \A x \in OneOf(S) : x \in S
  BY DEF OneOf

(* The locals of no pass at all are typed.                                 *)
LEMMA NoPassTyped == NoPass \in Pass
  BY DEF NoPass, Pass, PassKinds, Steps

(* An event more leaves the feed a sequence of events.                     *)
LEMMA FeedTyped ==
    ASSUME TypeOK, NEW l \in Links
    PROVE  Changed(l) \in Seq(Event) /\ Removed(l) \in Seq(Event)
  BY DEF TypeOK, Changed, Removed, Event

(* A link that is written over stays known, and so do the others.          *)
LEMMA LinkStays ==
    ASSUME TypeOK, NEW l \in Links, NEW r \in Link,
           links' = [links EXCEPT ![l] = r]
    PROVE  links'[l] # None /\ \A k \in Links : links[k] # None => links'[k] # None
  BY NoneAssumption DEF TypeOK

(* A step that touches neither the rows nor the ids a pass holds keeps     *)
(* them known as long as Drive forgets no link.                            *)
LEMMA KnownKept ==
    ASSUME TypeOK, KnownLinks, rows' = rows,
           \A l \in Links : links[l] # None => links'[l] # None,
           pass'.base = pass.base, pass'.kids = pass.kids, pass'.id = pass.id
    PROVE  KnownLinks'
  BY NoneAssumption DEF TypeOK, KnownLinks, Pass, Row, Node

-----------------------------------------------------------------------------
(* The names of the steps.                                                *)
LEMMA StepNames ==
    /\ "idle" \in Steps /\ "poll" \in Steps /\ "delete" \in Steps
    /\ "list" \in Steps /\ "apply" \in Steps /\ "preserve" \in Steps
    /\ "commit" \in Steps /\ "record" \in Steps /\ "reap" \in Steps
    /\ "deleted" \in Steps /\ "reaped" \in Steps /\ "cursor" \in Steps
    /\ "rescan" \in Steps /\ "baseline" \in Steps /\ "move" \in Steps
    /\ "drop" \in Steps /\ "replace" \in Steps /\ "trash" \in Steps
    /\ "untrack" \in Steps /\ "push" \in Steps /\ "upload" \in Steps
    /\ "track" \in Steps
  BY DEF Steps, PullSteps, PushSteps

(* Every step leaves the locals of the pass typed.                         *)
LEMMA PassTyped ==
    ASSUME TypeOK, Locals, Next
    PROVE  pass' \in Pass
<1>1. ASSUME NEW kind \in Kinds, Start(kind)
      PROVE  pass' \in Pass
  <2> DEFINE step == IF kind = "refresh" THEN "list" ELSE "poll"
         push == (kind = "sync")
         before == [p \in Paths |->
                      IF disk[p] = None \/ kind \notin {"sync", "refresh"}
                      THEN None ELSE HashOf(p)]
  <2>1. \A p \in Paths : disk[p] # None => HashOf(p) \in Contents
    BY NoneAssumption DEF TypeOK, HashOf, File, Row
  <2>2. before \in [Paths -> Contents \cup {None}]
    BY <2>1
  <2>3. step \in Steps /\ kind \in PassKinds /\ push \in BOOLEAN
    BY StepNames, BehaviourAssumption
  <2> HIDE DEF step, push, before
  <2>4. pass' = [NoPass EXCEPT !.step = step, !.kind = kind, !.push = push,
                               !.before = before]
    BY <1>1 DEF Start, step, push, before
  <2> QED  BY <2>2, <2>3, <2>4, NoPassTyped DEF Pass
<1>2. CASE StartRefused
  BY <1>2 DEF TypeOK, StartRefused, vars
<1>3. CASE Pull
  <2>1. CASE PollEvents
    <3> DEFINE batch == {feed[i] : i \in 1..visible}
           dels == {e.id : e \in {b \in batch : b.gone}}
           relist == \E e \in batch : ~e.gone
    <3>1. \A e \in batch : e \in Event
      BY DEF TypeOK, Locals, CursorInFeed
    <3>2. dels \in SUBSET Links
      BY <3>1 DEF Event
    <3>3. relist \in BOOLEAN
      OBVIOUS
    <3> HIDE DEF dels, relist
    <3>4. pass' = [pass EXCEPT !.step = "delete", !.kind = "events", !.mark =
         visible, !.dels = dels, !.relist = relist]
      BY <2>1 DEF PollEvents, dels, relist
    <3> QED  BY StepNames, <3>2, <3>3, <3>4 DEF TypeOK, Pass
  <2>2. CASE StartWalk
    BY StepNames, <2>2, NoPassTyped DEF TypeOK, StartWalk, Pass
  <2>3. CASE DeletesDone
    <3>1. (IF pass.relist THEN "list" ELSE "cursor") \in Steps
      BY StepNames
    <3> QED  BY <2>3, <3>1, ZenonT(60) DEF TypeOK, DeletesDone, Goto, Pass
  <2>4. CASE Forget
    <3>1. (IF pass.step = "deleted" THEN "delete" ELSE "reap") \in Steps
      BY StepNames
    <3> QED  BY <2>4, <3>1, ZenonT(60) DEF TypeOK, Forget, Pass
  <2>5. CASE List
    <3> DEFINE kids == {[id |-> l, name |-> links[l].name, c |-> links[l].c] :
         l \in {x \in Links : links[x] # None /\ links[x].live}}
    <3>1. kids \in SUBSET Node
      BY DEF TypeOK, Link, Node
    <3> HIDE DEF kids
    <3>2. pass' = [pass EXCEPT !.step = "apply", !.kids = kids, !.todo = kids]
      BY <2>5 DEF List, kids
    <3> QED  BY StepNames, <3>1, <3>2 DEF TypeOK, Pass
  <2>6. ASSUME NEW l \in Links, DeleteByID(l)
        PROVE  pass' \in Pass
    <3>1. CASE pass' = [pass EXCEPT !.dels = @ \ {l}]
      BY <3>1 DEF TypeOK, Pass
    <3>2. ASSUME NEW p \in Paths, pass' = [pass EXCEPT !.dels = @ \ {l}, !.path
         = p, !.step = "deleted"]
          PROVE  pass' \in Pass
      BY StepNames, <3>2 DEF TypeOK, Pass
    <3> QED  BY <2>6, <3>1, <3>2 DEF DeleteByID
  <2>7. ASSUME NEW n \in pass.todo, ApplySkip(n)
        PROVE  pass' \in Pass
    BY StepNames, <2>7, NoPassTyped DEF TypeOK, ApplySkip, Pass
  <2>8. ASSUME NEW n \in pass.todo, Download(n)
        PROVE  pass' \in Pass
    <3>1. n \in Node /\ links[n.id] # None
      BY <2>8 DEF TypeOK, Download, Locals, ApplyLocals, KnownLinks, Pass
    <3>2. links[n.id].c \in Contents
      BY <3>1 DEF TypeOK, Node, Link
    <3> QED  BY StepNames, <2>8, <3>1, <3>2 DEF TypeOK, Download, Pass
  <2>9. ASSUME NEW n \in pass.todo, DownloadGone(n)
        PROVE  pass' \in Pass
    BY StepNames, <2>9, NoPassTyped DEF TypeOK, DownloadGone, DownloadError,
         Pass
  <2>10. CASE Preserve
    BY StepNames, <2>10, NoPassTyped DEF TypeOK, Preserve, Goto, Pass
  <2>11. CASE Commit
    BY StepNames, <2>11, NoPassTyped DEF TypeOK, Commit, Goto, Pass
  <2>12. CASE Record
    BY StepNames, <2>12, NoPassTyped DEF TypeOK, Record, Pass
  <2>13. CASE FindStale
    BY StepNames, <2>13, NoPassTyped DEF TypeOK, FindStale, Pass
  <2>14. ASSUME NEW p \in Paths, Reap(p)
         PROVE  pass' \in Pass
    BY StepNames, <2>14, NoPassTyped DEF TypeOK, Reap, Pass
  <2>15. CASE ReapDone
    <3>1. CASE pass.kind = "refresh"
      BY <2>15, <3>1, NoPassTyped DEF ReapDone
    <3>2. CASE pass.kind # "refresh"
      BY StepNames, <2>15, <3>2 DEF TypeOK, ReapDone, Pass
    <3> QED  BY <3>1, <3>2
  <2>16. CASE SaveCursor
    BY StepNames, <2>16, NoPassTyped DEF SaveCursor, Pass
  <2> QED  BY <1>3, <2>1, <2>2, <2>3, <2>4, <2>5, <2>6, <2>7, <2>8, <2>9,
       <2>10, <2>11, <2>12, <2>13, <2>14, <2>15, <2>16 DEF Pull
<1>4. CASE Push
  <2>1. CASE Rescan
    BY StepNames, <2>1, NoPassTyped DEF TypeOK, Rescan, Pass
  <2>2. CASE Baseline
    <3>1. PICK m \in Matchings(rows), r \in [Paths -> Contents \cup {None}] :
            /\ r \in ReadHashes(rows, m)
            /\ pass' = [pass EXCEPT !.step = "move", !.base = rows, !.read = r,
                          !.moves = [p \in Paths |-> IF p \in {q \in DOMAIN m :
                               m[q] # None} THEN m[p] ELSE None],
                          !.doomed = DOMAIN m \ {q \in DOMAIN m : m[q] # None},
                          !.todo = {p \in Paths : pass.local[p] # None} \ {m[p] :
                               p \in {q \in DOMAIN m : m[q] # None}}]
      BY <2>2 DEF Baseline, ReadHashes
    <3>2. m \in [Missing(rows) -> Candidates(rows) \cup {None}]
      BY <3>1 DEF Matchings
    <3>3. DOMAIN m \subseteq Paths /\ \A p \in DOMAIN m : m[p] \in Paths \cup
         {None}
      BY <3>2 DEF Missing, Candidates
    <3>4. r \in [Paths -> Contents \cup {None}]
      BY DEF ReadHashes
    <3> QED  BY StepNames, <3>1, <3>3, <3>4 DEF TypeOK, Pass
  <2>3. ASSUME NEW p \in Paths, MoveRemote(p)
        PROVE  pass' \in Pass
    BY StepNames, <2>3, NoPassTyped DEF TypeOK, MoveRemote, Pass
  <2>4. ASSUME NEW p \in Paths, MoveRefused(p)
        PROVE  pass' \in Pass
    BY StepNames, <2>4, NoPassTyped DEF TypeOK, MoveRefused, MoveError, Pass
  <2>5. CASE DropRow
    BY StepNames, <2>5, NoPassTyped DEF TypeOK, DropRow, Goto, Pass
  <2>6. CASE ReplaceRow
    <3>1. pass' = [pass EXCEPT !.step = "move", !.moves[pass.path] = None,
         !.path = None]
      BY <2>6 DEF ReplaceRow
    <3>2. [pass.moves EXCEPT ![pass.path] = None] \in [Paths -> Paths \cup
         {None}]
      BY DEF TypeOK, Pass
    <3>3. "move" \in Steps
      BY DEF Steps, PushSteps
    <3> QED  BY <3>1, <3>2, <3>3, ZenonT(60) DEF TypeOK, Pass
  <2>7. CASE MovesDone
    BY StepNames, <2>7, NoPassTyped DEF TypeOK, MovesDone, Goto, Pass
  <2>8. ASSUME NEW p \in Paths, TrashRemote(p)
        PROVE  pass' \in Pass
    BY StepNames, <2>8, NoPassTyped DEF TypeOK, TrashRemote, Pass
  <2>9. CASE Untrack
    BY StepNames, <2>9, NoPassTyped DEF TypeOK, Untrack, Pass
  <2>10. CASE TrashDone
    BY StepNames, <2>10, NoPassTyped DEF TypeOK, TrashDone, Goto, Pass
  <2>11. ASSUME NEW p \in Paths, PushSkip(p)
         PROVE  pass' \in Pass
    BY StepNames, <2>11, NoPassTyped DEF TypeOK, PushSkip, Pass
  <2>12. ASSUME NEW p \in Paths, PushHash(p)
         PROVE  pass' \in Pass
    <3>1. HashToPush(p) \in Contents
      BY <2>12 DEF TypeOK, Pass, PushHash, HashToPush, File
    <3> QED  BY StepNames, <2>12, <3>1 DEF TypeOK, PushHash, Pass
  <2>13. CASE Upload
    <3>1. PICK l \in Links : pass' = [pass EXCEPT !.step = "track", !.id = l]
      BY <2>13, OneOfIn DEF Upload, LiveAs, NewLinks
    <3> QED  BY StepNames, <3>1 DEF TypeOK, Pass
  <2>14. CASE UploadGone
    <3>1. pass' = [pass EXCEPT !.step = "push", !.path = None, !.hash = None]
      BY <2>14 DEF UploadError, UploadGone
    <3> QED  BY StepNames, <3>1 DEF TypeOK, Pass
  <2>15. CASE Track
    BY StepNames, <2>15, NoPassTyped DEF TypeOK, Track, Pass
  <2>16. CASE PushDone
    BY StepNames, <2>16, NoPassTyped DEF TypeOK, PushDone, Pass
  <2> QED  BY <1>4, <2>1, <2>2, <2>3, <2>4, <2>5, <2>6, <2>7, <2>8, <2>9,
       <2>10, <2>11, <2>12, <2>13, <2>14, <2>15, <2>16 DEF Push
<1>5. CASE Failure
  <2>1. CASE PollFails
    BY StepNames, <2>1, NoPassTyped DEF TypeOK, PollFails, Fault, Pass
  <2>2. CASE ListFails
    <3>1. CASE pass' = [pass EXCEPT !.step = "cursor"]
      BY StepNames, <3>1 DEF TypeOK, Pass
    <3> QED  BY <2>2, <3>1, NoPassTyped DEF ListFails
  <2>3. ASSUME NEW n \in pass.todo, DownloadFails(n)
        PROVE  pass' \in Pass
    BY StepNames, <2>3, NoPassTyped DEF TypeOK, DownloadFails, DownloadError,
         Fault, Pass
  <2>4. CASE CommitFails
    BY StepNames, <2>4, NoPassTyped DEF TypeOK, CommitFails, Fault, Pass
  <2>5. ASSUME NEW p \in Paths, MoveFails(p)
        PROVE  pass' \in Pass
    BY StepNames, <2>5, NoPassTyped DEF TypeOK, MoveFails, MoveError, Fault,
         Pass
  <2>6. ASSUME NEW p \in Paths, TrashFails(p)
        PROVE  pass' \in Pass
    BY StepNames, <2>6, NoPassTyped DEF TypeOK, TrashFails, Fault, Pass
  <2>7. CASE UploadFails
    <3>1. pass' = [pass EXCEPT !.step = "push", !.path = None, !.hash = None]
      BY <2>7 DEF UploadError, UploadFails
    <3> QED  BY StepNames, <3>1 DEF TypeOK, Pass
  <2>8. CASE Crash
    BY StepNames, <2>8, NoPassTyped DEF TypeOK, Crash, Fault, Pass
  <2> QED  BY <1>5, <2>1, <2>2, <2>3, <2>4, <2>5, <2>6, <2>7, <2>8 DEF Failure
<1>6. CASE User
  <2>1. ASSUME NEW p \in Files, NEW c \in OneOf(NewContents), UserWrites(p, c)
        PROVE  pass' \in Pass
    BY <2>1 DEF TypeOK, UserWrites
  <2>2. ASSUME NEW p \in Files, UserDeletes(p)
        PROVE  pass' \in Pass
    BY <2>2 DEF TypeOK, UserDeletes
  <2>3. ASSUME NEW p \in Files, NEW q \in Files, UserRenames(p, q)
        PROVE  pass' \in Pass
    BY <2>3 DEF TypeOK, UserRenames
  <2> QED  BY <1>6, <2>1, <2>2, <2>3 DEF User
<1>7. CASE Device
  <2>1. ASSUME NEW p \in Files, NEW c \in Uploadable, DeviceWrites(p,
       c)
        PROVE  pass' \in Pass
    BY <2>1 DEF TypeOK, DeviceWrites
  <2>2. ASSUME NEW l \in Links, DeviceTrashes(l)
        PROVE  pass' \in Pass
    BY <2>2 DEF TypeOK, DeviceTrashes
  <2>3. ASSUME NEW l \in Links, NEW p \in Files, DeviceRenames(l, p)
        PROVE  pass' \in Pass
    BY <2>3 DEF TypeOK, DeviceRenames
  <2> QED  BY <1>7, <2>1, <2>2, <2>3 DEF Device
<1>8. CASE Publish
  BY <1>8 DEF TypeOK, Publish
<1> QED  BY <1>1, <1>2, <1>3, <1>4, <1>5, <1>6, <1>7, <1>8 DEF Next

(* Every step leaves the folder, the baseline, Drive and the feed typed.   *)
LEMMA StateTyped ==
    ASSUME TypeOK, Locals, pass' \in Pass, Next
    PROVE  TypeOK'
<1>1. ASSUME NEW kind \in Kinds, Start(kind)
      PROVE  TypeOK'
  BY <1>1 DEF TypeOK, Start, machine, drive, events, ghosts
<1>2. CASE StartRefused
  BY <1>2 DEF StartRefused, vars, TypeOK, machine, drive, events, ghosts
<1>3. CASE Pull
  <2>1. CASE PollEvents
    BY <2>1 DEF TypeOK, PollEvents, machine, drive, events, ghosts
  <2>2. CASE StartWalk
    BY <2>2 DEF TypeOK, StartWalk, machine, drive, events, ghosts
  <2>3. CASE DeletesDone
    BY <2>3 DEF TypeOK, DeletesDone, Goto, machine, drive, events, ghosts
  <2>4. CASE Forget
    BY <2>4 DEF TypeOK, Forget, machine, drive, events, ghosts
  <2>5. CASE List
    BY <2>5 DEF TypeOK, List, machine, drive, events, ghosts
  <2>6. ASSUME NEW l \in Links, DeleteByID(l)
        PROVE  TypeOK'
    BY <2>6 DEF TypeOK, DeleteByID, TrashLocal, File, drive, events, ghosts
  <2>7. ASSUME NEW n \in pass.todo, ApplySkip(n)
        PROVE  TypeOK'
    BY <2>7 DEF TypeOK, ApplySkip, machine, drive, events, ghosts
  <2>8. ASSUME NEW n \in pass.todo, Download(n)
        PROVE  TypeOK'
    BY <2>8 DEF TypeOK, Download, machine, drive, events, ghosts
  <2>9. ASSUME NEW n \in pass.todo, DownloadGone(n)
        PROVE  TypeOK'
    BY <2>9 DEF TypeOK, DownloadGone, DownloadError, machine, drive, events,
         ghosts
  <2>10. CASE Preserve
    <3>1. pass.node.name \in Paths
      BY <2>10 DEF TypeOK, Preserve, Locals, ApplyLocals, Pass, Node
    <3>2. \A k \in OneOf(NewCopies) : k \in Paths
      BY OneOfIn DEF NewCopies, Paths
    <3>3. disk' \in [Paths -> File \cup {None}]
      BY <2>10, <3>1, <3>2 DEF TypeOK, Preserve
    <3> QED  BY <2>10, <3>3 DEF TypeOK, Preserve, drive, events, ghosts
  <2>11. CASE Commit
    <3>1. pass.node.name \in Paths /\ pass.staged \in Contents
      BY <2>11 DEF TypeOK, Commit, Locals, ApplyLocals, Pass, Node
    <3>2. \A i \in OneOf(NewInodes) : [c |-> pass.staged, ino |-> i] \in File
      BY <3>1, OneOfIn DEF NewInodes, File
    <3>3. disk' \in [Paths -> File \cup {None}]
      BY <2>11, <3>1, <3>2 DEF TypeOK, Commit
    <3> QED  BY <2>11, <3>3 DEF TypeOK, Commit, drive, events
  <2>12. CASE Record
    <3> DEFINE p == pass.node.name
    <3>1. p \in Paths /\ pass.node.id \in Links /\ pass.staged \in Contents
      BY <2>12 DEF TypeOK, Record, Locals, ApplyLocals, Pass, Node
    <3>2. disk[p] \in File \cup {None}
      BY <3>1 DEF TypeOK
    <3>3. rows' \in [Paths -> Row \cup {None}]
      <4>1. CASE disk[p] = None
        BY <2>12, <4>1 DEF TypeOK, Record
      <4>2. CASE disk[p] # None
        <5>1. PICK s \in {disk[p].c} \cup {None} : rows' = [rows EXCEPT ![p] =
             [id |-> pass.node.id, hash |-> pass.staged, stamp |-> s, ino |->
             disk[p].ino]]
          BY <2>12, <4>2 DEF Record
        <5>2. s \in Contents \cup {None} /\ disk[p].ino \in Inodes
          BY <3>2, <4>2 DEF File
        <5>3. [id |-> pass.node.id, hash |-> pass.staged, stamp |-> s, ino |->
             disk[p].ino] \in Row
          BY <3>1, <5>2 DEF Row
        <5> QED  BY <3>1, <5>1, <5>3 DEF TypeOK
      <4> QED  BY <4>1, <4>2
    <3> QED  BY <2>12, <3>3 DEF TypeOK, Record, drive, events, ghosts
  <2>13. CASE FindStale
    BY <2>13 DEF TypeOK, FindStale, machine, drive, events, ghosts
  <2>14. ASSUME NEW p \in Paths, Reap(p)
         PROVE  TypeOK'
    BY <2>14 DEF TypeOK, Reap, TrashLocal, File, drive, events, ghosts
  <2>15. CASE ReapDone
    BY <2>15 DEF TypeOK, ReapDone, machine, drive, events, ghosts
  <2>16. CASE SaveCursor
    <3>1. pass.mark \in Nat
      BY DEF TypeOK, Pass
    <3>2. visible - pass.mark \in Nat
      BY <3>1 DEF TypeOK, Locals, CursorInFeed
    <3>3. SubSeq(feed, pass.mark + 1, Len(feed)) \in Seq(Event)
      BY <3>1 DEF TypeOK
    <3> QED  BY <2>16, <3>2, <3>3 DEF TypeOK, SaveCursor, drive, ghosts
  <2> QED  BY <1>3, <2>1, <2>2, <2>3, <2>4, <2>5, <2>6, <2>7, <2>8, <2>9,
       <2>10, <2>11, <2>12, <2>13, <2>14, <2>15, <2>16 DEF Pull
<1>4. CASE Push
  <2>1. CASE Rescan
    BY <2>1 DEF TypeOK, Rescan, machine, drive, events, ghosts
  <2>2. CASE Baseline
    BY <2>2 DEF TypeOK, Baseline, machine, drive, events, ghosts
  <2>3. ASSUME NEW p \in Paths, MoveRemote(p)
        PROVE  TypeOK'
    <3>1. pass.base[p].id \in Links /\ links[pass.base[p].id] \in Link /\
         pass.moves[p] \in Paths
      BY <2>3 DEF TypeOK, MoveRemote, Pass, Row, Locals, KnownLinks,
           PushLocals, Applying, PushSteps
    <3>2. [links[pass.base[p].id] EXCEPT !.name = pass.moves[p]] \in Link
      BY <3>1 DEF Link
    <3>3. links' \in [Links -> Link \cup {None}]
      BY <2>3, <3>1, <3>2 DEF TypeOK, MoveRemote
    <3>4. feed' \in Seq(Event)
      BY <2>3, <3>1, FeedTyped DEF MoveRemote
    <3> QED  BY <2>3, <3>3, <3>4 DEF TypeOK, MoveRemote, machine, ghosts
  <2>4. ASSUME NEW p \in Paths, MoveRefused(p)
        PROVE  TypeOK'
    BY <2>4 DEF TypeOK, MoveRefused, MoveError, machine, drive, events, ghosts
  <2>5. CASE DropRow
    BY <2>5 DEF TypeOK, DropRow, Goto, machine, drive, events, ghosts
  <2>6. CASE ReplaceRow
    <3> DEFINE old == pass.base[pass.path]
           to == pass.moves[pass.path]
    <3>1. old \in Row /\ to \in Paths /\ pass.local[to] \in File
      BY <2>6 DEF TypeOK, ReplaceRow, Pass, Locals, PushLocals, PathLocals,
           Applying, PushSteps
    <3>2. PICK h \in Contents : rows' = [rows EXCEPT ![to]
         = [id |-> old.id, hash |-> h, stamp |-> pass.local[to].c, ino |->
         pass.local[to].ino]]
      <4>1. old.hash \in Contents /\ pass.read[to] \in Contents \cup {None}
        BY <3>1 DEF TypeOK, Pass, Row
      <4> QED  BY <2>6, <4>1 DEF ReplaceRow
    <3>3. [id |-> old.id, hash |-> h, stamp |-> pass.local[to].c, ino |->
         pass.local[to].ino] \in Row
      BY <3>1 DEF Row, File
    <3> QED  BY <2>6, <3>1, <3>2, <3>3 DEF TypeOK, ReplaceRow, drive, events,
         ghosts
  <2>7. CASE MovesDone
    BY <2>7 DEF TypeOK, MovesDone, Goto, machine, drive, events, ghosts
  <2>8. ASSUME NEW p \in Paths, TrashRemote(p)
        PROVE  TypeOK'
    <3> DEFINE l == pass.base[p].id
    <3>1. l \in Links /\ links[l] \in Link
      BY <2>8 DEF TypeOK, TrashRemote, Pass, Row, Locals, KnownLinks,
           PushLocals, Applying, PushSteps
    <3>2. [links[l] EXCEPT !.live = FALSE] \in Link
      BY <3>1 DEF Link
    <3>3. links' \in [Links -> Link \cup {None}]
      BY <2>8, <3>1, <3>2 DEF TypeOK, TrashRemote
    <3>4. feed' \in Seq(Event)
      BY <2>8, <3>1, FeedTyped DEF TypeOK, TrashRemote
    <3> QED  BY <2>8, <3>3, <3>4 DEF TypeOK, TrashRemote, machine, ghosts
  <2>9. CASE Untrack
    BY <2>9 DEF TypeOK, Untrack, machine, drive, events, ghosts
  <2>10. CASE TrashDone
    BY <2>10 DEF TypeOK, TrashDone, Goto, machine, drive, events, ghosts
  <2>11. ASSUME NEW p \in Paths, PushSkip(p)
         PROVE  TypeOK'
    BY <2>11 DEF TypeOK, PushSkip, machine, drive, events, ghosts
  <2>12. ASSUME NEW p \in Paths, PushHash(p)
         PROVE  TypeOK'
    BY <2>12 DEF TypeOK, PushHash, machine, drive, events, ghosts
  <2>13. CASE Upload
    <3>1. twice' \subseteq Contents
      BY <2>13 DEF TypeOK, Upload, Repeated
    <3> QED
      BY <2>13, <3>1, OneOfIn, NoneAssumption DEF TypeOK, Upload, Link, Row,
         File, Changed, Removed, Event, machine, LiveAs, Paths, NewLinks,
         NewContents, Locals, KnownLinks, PushLocals, PathLocals, Pass
  <2>14. CASE UploadGone
    BY <2>14 DEF TypeOK, UploadGone, UploadError, machine, drive, events,
         ghosts
  <2>15. CASE Track
    BY <2>15, NoneAssumption DEF TypeOK, Track, Row, File, Pass, Locals,
         PushLocals, PathLocals, drive, events, ghosts
  <2>16. CASE PushDone
    BY <2>16 DEF TypeOK, PushDone, machine, drive, events, ghosts
  <2> QED  BY <1>4, <2>1, <2>2, <2>3, <2>4, <2>5, <2>6, <2>7, <2>8, <2>9,
       <2>10, <2>11, <2>12, <2>13, <2>14, <2>15, <2>16 DEF Push
<1>5. CASE Failure
  <2>1. CASE PollFails
    BY <2>1 DEF TypeOK, PollFails, Fault, machine, drive, events, ghosts
  <2>2. CASE ListFails
    BY <2>2 DEF TypeOK, ListFails, Fault, machine, drive, events, ghosts
  <2>3. ASSUME NEW n \in pass.todo, DownloadFails(n)
        PROVE  TypeOK'
    BY <2>3 DEF TypeOK, DownloadFails, DownloadError, Fault, machine, drive,
         events, ghosts
  <2>4. CASE CommitFails
    BY <2>4 DEF TypeOK, CommitFails, Fault, machine, drive, events, ghosts
  <2>5. ASSUME NEW p \in Paths, MoveFails(p)
        PROVE  TypeOK'
    BY <2>5 DEF TypeOK, MoveFails, MoveError, Fault, machine, drive, events,
         ghosts
  <2>6. ASSUME NEW p \in Paths, TrashFails(p)
        PROVE  TypeOK'
    BY <2>6 DEF TypeOK, TrashFails, Fault, machine, drive, events, ghosts
  <2>7. CASE UploadFails
    BY <2>7 DEF TypeOK, UploadFails, UploadError, Fault, machine, drive,
         events, ghosts
  <2>8. CASE Crash
    BY <2>8 DEF TypeOK, Crash, Fault, machine, drive, events, ghosts
  <2> QED  BY <1>5, <2>1, <2>2, <2>3, <2>4, <2>5, <2>6, <2>7, <2>8 DEF Failure
<1>6. CASE User
  <2>1. ASSUME NEW p \in Files, NEW c \in OneOf(NewContents), UserWrites(p, c)
        PROVE  TypeOK'
    <3>1. c \in Contents /\ p \in Paths
      BY OneOfIn DEF NewContents, Paths
    <3>2. \A i \in OneOf(NewInodes) : [c |-> c, ino |-> i] \in File
      BY <3>1, OneOfIn DEF NewInodes, File
    <3>3. disk[p] # None => [disk[p] EXCEPT !.c = c] \in File
      BY <3>1 DEF TypeOK, File
    <3>4. disk' \in [Paths -> File \cup {None}]
      BY <2>1, <3>1, <3>2, <3>3 DEF TypeOK, UserWrites
    <3> QED  BY <2>1, <3>1, <3>4 DEF TypeOK, UserWrites, drive, events
  <2>2. ASSUME NEW p \in Files, UserDeletes(p)
        PROVE  TypeOK'
    BY <2>2, OneOfIn, NoneAssumption DEF TypeOK, UserDeletes, File, Paths,
         HeldAt, NewContents, NewInodes, drive, events
  <2>3. ASSUME NEW p \in Files, NEW q \in Files, UserRenames(p, q)
        PROVE  TypeOK'
    BY <2>3, OneOfIn, NoneAssumption DEF TypeOK, UserRenames, File, Paths,
         HeldAt, NewContents, NewInodes, drive, events
  <2> QED  BY <1>6, <2>1, <2>2, <2>3 DEF User
<1>7. CASE Device
  <2>1. ASSUME NEW p \in Files, NEW c \in Uploadable, DeviceWrites(p,
       c)
        PROVE  TypeOK'
    <3>1. twice' \subseteq Contents
      BY <2>1 DEF TypeOK, DeviceWrites, Repeated
    <3> QED
      BY <2>1, <3>1, OneOfIn, NoneAssumption DEF TypeOK, DeviceWrites, Link, Row,
         File, Changed, Removed, Event, machine, LiveAs, Paths, NewLinks,
         NewContents, Uploadable, Locals, KnownLinks, PushLocals, PathLocals,
         Pass
  <2>2. ASSUME NEW l \in Links, DeviceTrashes(l)
        PROVE  TypeOK'
    <3>1. [links[l] EXCEPT !.live = FALSE] \in Link
      BY <2>2, ZenonT(60) DEF TypeOK, DeviceTrashes, Link
    <3>2. feed' \in Seq(Event)
      BY <2>2, FeedTyped DEF DeviceTrashes
    <3> QED  BY <2>2, <3>1, <3>2 DEF TypeOK, DeviceTrashes, machine, ghosts
  <2>3. ASSUME NEW l \in Links, NEW p \in Files, DeviceRenames(l, p)
        PROVE  TypeOK'
    <3>1. [links[l] EXCEPT !.name = p] \in Link
      BY <2>3 DEF TypeOK, DeviceRenames, Link, Paths
    <3>2. feed' \in Seq(Event)
      BY <2>3, FeedTyped DEF DeviceRenames
    <3> QED  BY <2>3, <3>1, <3>2 DEF TypeOK, DeviceRenames, machine, ghosts
  <2> QED  BY <1>7, <2>1, <2>2, <2>3 DEF Device
<1>8. CASE Publish
  BY <1>8 DEF TypeOK, Publish, machine, drive, events, ghosts
<1> QED  BY <1>1, <1>2, <1>3, <1>4, <1>5, <1>6, <1>7, <1>8 DEF Next

(* Every step leaves to the next one the locals it relies on.              *)
LEMMA LocalsKept ==
    ASSUME TypeOK, Locals, TypeOK', Next
    PROVE  Locals'
<1>1. ASSUME NEW kind \in Kinds, Start(kind)
      PROVE  Locals'
  <2>1. /\ pass'.step \in {"poll", "list"} /\ pass'.mark = 0
        /\ pass'.kids = {} /\ pass'.id = None
        /\ pass'.base = [p \in Paths |-> None]
    BY <1>1 DEF Start, NoPass
  <2>2. visible \in Nat /\ Len(feed) \in Nat /\ UNCHANGED <<rows, links,
       visible, feed>>
    BY <1>1 DEF TypeOK, Start, machine, drive, events
  <2> QED  BY <2>1, <2>2 DEF Locals, KnownLinks, CursorInFeed, ApplyLocals,
       PathLocals, PushLocals, Applying, PushSteps
<1>2. CASE StartRefused
  BY <1>2 DEF StartRefused, vars, machine, drive, events, Locals, KnownLinks,
       CursorInFeed, ApplyLocals, PathLocals, PushLocals, Applying, PushSteps
<1>3. CASE Pull
  <2>1. CASE PollEvents
    <3>1. /\ pass'.step = "delete" /\ pass'.mark = visible
          /\ pass'.base = pass.base
          /\ pass'.kids = pass.kids
          /\ pass'.id = pass.id
      BY <2>1, ZenonT(60) DEF TypeOK, PollEvents, Pass
    <3>2. visible \in Nat /\ Len(feed) \in Nat /\ UNCHANGED <<rows, links,
         visible, feed>>
      BY <2>1 DEF TypeOK, PollEvents, machine, drive, events
    <3> QED  BY <3>1, <3>2 DEF Locals, KnownLinks, CursorInFeed, ApplyLocals,
         PathLocals, PushLocals, Applying, PushSteps
  <2>2. CASE StartWalk
    BY <2>2 DEF TypeOK, Pass, StartWalk, machine, drive, events, Locals,
         KnownLinks, CursorInFeed, ApplyLocals, PathLocals, PushLocals,
         Applying, PushSteps
  <2>3. CASE DeletesDone
    BY <2>3 DEF TypeOK, Pass, DeletesDone, Goto, machine, drive, events,
         Locals, KnownLinks, CursorInFeed, ApplyLocals, PathLocals, PushLocals,
         Applying, PushSteps
  <2>4. CASE Forget
    BY <2>4 DEF TypeOK, Pass, Forget, machine, drive, events, Locals,
         KnownLinks, CursorInFeed, ApplyLocals, PathLocals, PushLocals,
         Applying, PushSteps
  <2>5. CASE List
    <3> DEFINE kids == {[id |-> l, name |-> links[l].name, c |-> links[l].c] :
         l \in {x \in Links : links[x] # None /\ links[x].live}}
    <3>1. \A n \in kids : links[n.id] # None
      OBVIOUS
    <3> HIDE DEF kids
    <3>2. pass' = [pass EXCEPT !.step = "apply", !.kids = kids, !.todo = kids]
      BY <2>5 DEF List, kids
    <3>3. /\ pass'.step = "apply"
          /\ pass'.todo = kids
          /\ pass'.kids = kids
          /\ pass'.mark = pass.mark
          /\ pass'.base = pass.base
          /\ pass'.id = pass.id
      BY <3>2 DEF TypeOK, Pass
    <3>4. UNCHANGED <<rows, links, visible, feed>>
      BY <2>5 DEF List, machine, drive, events
    <3> QED  BY <3>1, <3>3, <3>4 DEF Locals, KnownLinks, CursorInFeed,
         ApplyLocals, PathLocals, PushLocals, Applying, PushSteps
  <2>6. ASSUME NEW l \in Links, DeleteByID(l)
        PROVE  Locals'
    <3>1. /\ pass'.step \in {"delete", "deleted"}
          /\ pass'.step = "deleted" => pass'.path \in Paths
          /\ pass'.mark = pass.mark
          /\ pass'.base = pass.base
          /\ pass'.kids = pass.kids
          /\ pass'.id = pass.id
      BY <2>6, ZenonT(60) DEF TypeOK, DeleteByID, Pass
    <3>2. UNCHANGED <<rows, links, visible, feed>>
      BY <2>6 DEF DeleteByID, drive, events
    <3> QED  BY <3>1, <3>2, NoneAssumption DEF Locals, KnownLinks,
         CursorInFeed, ApplyLocals, PathLocals, PushLocals, Applying, PushSteps
  <2>7. ASSUME NEW n \in pass.todo, ApplySkip(n)
        PROVE  Locals'
    BY <2>7 DEF TypeOK, Pass, ApplySkip, machine, drive, events, Locals,
         KnownLinks, CursorInFeed, ApplyLocals, PathLocals, PushLocals,
         Applying, PushSteps
  <2>8. ASSUME NEW n \in pass.todo, Download(n)
        PROVE  Locals'
    <3>1. n \in Node /\ links[n.id] # None /\ links[n.id].c \in Contents
      BY <2>8 DEF TypeOK, Download, Locals, ApplyLocals, KnownLinks, Pass,
           Node, Link
    <3>2. /\ pass'.step = "preserve" /\ pass'.todo \subseteq pass'.kids
          /\ pass'.node = n /\ pass'.staged = links[n.id].c
          /\ pass'.mark = pass.mark
          /\ pass'.base = pass.base
          /\ pass'.kids = pass.kids
          /\ pass'.id = pass.id
      BY <2>8 DEF TypeOK, Download, Pass, Locals, ApplyLocals
    <3>3. UNCHANGED <<rows, links, visible, feed>>
      BY <2>8 DEF Download, drive, events
    <3> QED  BY <3>1, <3>2, <3>3, NoneAssumption DEF Locals, KnownLinks,
         CursorInFeed, ApplyLocals, PathLocals, PushLocals, Applying, PushSteps
  <2>9. ASSUME NEW n \in pass.todo, DownloadGone(n)
        PROVE  Locals'
    BY <2>9 DEF TypeOK, Pass, DownloadGone, DownloadError, machine, drive,
         events, Locals, KnownLinks, CursorInFeed, ApplyLocals, PathLocals,
         PushLocals, Applying, PushSteps
  <2>10. CASE Preserve
    BY <2>10 DEF TypeOK, Pass, Preserve, Goto, machine, drive, events, Locals,
         KnownLinks, CursorInFeed, ApplyLocals, PathLocals, PushLocals,
         Applying, PushSteps
  <2>11. CASE Commit
    BY <2>11 DEF TypeOK, Pass, Commit, Goto, machine, drive, events, Locals,
         KnownLinks, CursorInFeed, ApplyLocals, PathLocals, PushLocals,
         Applying, PushSteps
  <2>12. CASE Record
    <3>1. /\ pass'.step = "apply" /\ pass'.todo \subseteq pass'.kids
          /\ pass'.mark = pass.mark
          /\ pass'.base = pass.base
          /\ pass'.kids = pass.kids
          /\ pass'.id = pass.id
      BY <2>12 DEF TypeOK, Record, Pass, Locals, ApplyLocals
    <3>2. UNCHANGED <<links, visible, feed>>
      BY <2>12 DEF Record, drive, events
    <3>3. links[pass.node.id] # None /\ pass.node.name \in Paths
      BY <2>12 DEF TypeOK, Record, Pass, Locals, ApplyLocals, Node
    <3>4. \A p \in Paths : rows'[p] = rows[p] \/ rows'[p].id = pass.node.id
      <4>1. CASE disk[pass.node.name] = None
        BY <2>12, <4>1 DEF Record
      <4>2. CASE disk[pass.node.name] # None
        <5>1. PICK s \in {disk[pass.node.name].c} \cup {None} : rows' = [rows
             EXCEPT ![pass.node.name] = [id |-> pass.node.id, hash |->
             pass.staged, stamp |-> s, ino |-> disk[pass.node.name].ino]]
          BY <2>12, <4>2 DEF Record
        <5> QED  BY <3>3, <5>1 DEF TypeOK
      <4> QED  BY <4>1, <4>2
    <3> QED  BY <3>1, <3>2, <3>3, <3>4 DEF Locals, KnownLinks, CursorInFeed,
         ApplyLocals, PathLocals, PushLocals, Applying, PushSteps
  <2>13. CASE FindStale
    <3>1. /\ pass'.step = "reap"
          /\ pass'.kids = {}
          /\ pass'.mark = pass.mark
          /\ pass'.base = pass.base
          /\ pass'.id = pass.id
      BY <2>13, ZenonT(60) DEF TypeOK, FindStale, Pass
    <3>2. UNCHANGED <<rows, links, visible, feed>>
      BY <2>13 DEF FindStale, machine, drive, events
    <3> QED  BY <3>1, <3>2 DEF Locals, KnownLinks, CursorInFeed, ApplyLocals,
         PathLocals, PushLocals, Applying, PushSteps
  <2>14. ASSUME NEW p \in Paths, Reap(p)
         PROVE  Locals'
    <3>1. /\ pass'.step = "reaped" /\ pass'.path = p
          /\ pass'.mark = pass.mark
          /\ pass'.base = pass.base
          /\ pass'.kids = pass.kids
          /\ pass'.id = pass.id
      BY <2>14 DEF TypeOK, Reap, Pass
    <3>2. UNCHANGED <<rows, links, visible, feed>>
      BY <2>14 DEF Reap, drive, events
    <3> QED  BY <3>1, <3>2, NoneAssumption DEF Locals, KnownLinks,
         CursorInFeed, ApplyLocals, PathLocals, PushLocals, Applying, PushSteps
  <2>15. CASE ReapDone
    BY <2>15, NoneAssumption DEF TypeOK, Pass, ReapDone, NoPass, machine,
         drive, events, Locals, KnownLinks, CursorInFeed, ApplyLocals,
         PathLocals, PushLocals, Applying, PushSteps
  <2>16. CASE SaveCursor
    BY <2>16, NoneAssumption DEF TypeOK, Pass, SaveCursor, NoPass, machine,
         drive, events, Locals, KnownLinks, CursorInFeed, ApplyLocals,
         PathLocals, PushLocals, Applying, PushSteps
  <2> QED  BY <1>3, <2>1, <2>2, <2>3, <2>4, <2>5, <2>6, <2>7, <2>8, <2>9,
       <2>10, <2>11, <2>12, <2>13, <2>14, <2>15, <2>16 DEF Pull
<1>4. CASE Push
  <2>1. CASE Rescan
    BY <2>1 DEF TypeOK, Pass, Rescan, machine, drive, events, Locals,
         KnownLinks, CursorInFeed, ApplyLocals, PathLocals, PushLocals,
         Applying, PushSteps
  <2>2. CASE Baseline
    <3>1. PICK m \in Matchings(rows), r \in [Paths -> Contents \cup {None}] :
            /\ r \in ReadHashes(rows, m)
            /\ pass' = [pass EXCEPT !.step = "move", !.base = rows, !.read = r,
                          !.moves = [p \in Paths |-> IF p \in {q \in DOMAIN m :
                               m[q] # None} THEN m[p] ELSE None],
                          !.doomed = DOMAIN m \ {q \in DOMAIN m : m[q] # None},
                          !.todo = {p \in Paths : pass.local[p] # None} \ {m[p] :
                               p \in {q \in DOMAIN m : m[q] # None}}]
      BY <2>2 DEF Baseline, ReadHashes
    <3>2. m \in [Missing(rows) -> Candidates(rows) \cup {None}]
      BY <3>1 DEF Matchings
    <3>3. /\ pass'.step = "move"
          /\ pass'.base = rows
          /\ pass'.local = pass.local
          /\ pass'.todo \subseteq {p \in Paths : pass.local[p] # None}
          /\ pass'.doomed \subseteq DOMAIN m
          /\ pass'.mark = pass.mark
          /\ pass'.kids = pass.kids
          /\ pass'.id = pass.id
      BY <3>1 DEF TypeOK, Pass
    <3>4. pass'.moves = [p \in Paths |-> IF p \in {q \in DOMAIN m : m[q] #
         None} THEN m[p] ELSE None]
      BY <3>1 DEF TypeOK, Pass
    <3>5. \A p \in Paths : pass'.moves[p] # None => rows[p] # None /\
         pass.local[pass'.moves[p]] # None
      BY <3>2, <3>4 DEF Missing, Candidates
    <3>6. \A p \in pass'.doomed : rows[p] # None
      BY <3>2, <3>3 DEF Missing
    <3>7. UNCHANGED <<rows, links, visible, feed>>
      BY <2>2 DEF Baseline, machine, drive, events
    <3> QED  BY <3>3, <3>5, <3>6, <3>7 DEF Locals, KnownLinks, CursorInFeed,
         ApplyLocals, PathLocals, PushLocals, Applying, PushSteps
  <2>3. ASSUME NEW p \in Paths, MoveRemote(p)
        PROVE  Locals'
    <3>1. /\ pass'.step = "drop" /\ pass'.path = p /\ pass'.mark = pass.mark
          /\ pass'.local = pass.local /\ pass'.moves = pass.moves
          /\ pass'.todo = pass.todo /\ pass'.doomed = pass.doomed
          /\ pass'.base = pass.base
          /\ pass'.kids = pass.kids
          /\ pass'.id = pass.id
      BY <2>3 DEF TypeOK, MoveRemote, Pass
    <3>2. UNCHANGED <<rows, visible>> /\ feed' = Changed(pass.base[p].id) /\
         pass.moves[p] # None
      BY <2>3 DEF MoveRemote, machine
    <3>3. \A l \in Links : links[l] # None => links'[l] # None
      <4>1. pass.base[p].id \in Links /\ links[pass.base[p].id] \in Link /\
           pass.moves[p] \in Paths
        BY <2>3 DEF TypeOK, MoveRemote, Pass, Row, Locals, KnownLinks,
             PushLocals, Applying, PushSteps
      <4>2. [links[pass.base[p].id] EXCEPT !.name = pass.moves[p]] \in Link
        BY <4>1 DEF Link
      <4> QED  BY <2>3, <4>1, <4>2, LinkStays DEF MoveRemote
    <3>4. KnownLinks'
      BY <3>1, <3>2, <3>3, KnownKept DEF Locals
    <3>5. CursorInFeed'
      BY <3>1, <3>2 DEF TypeOK, Locals, CursorInFeed, Changed
    <3>6. ApplyLocals' /\ PathLocals' /\ PushLocals'
      BY <2>3, <3>1, <3>2, NoneAssumption DEF MoveRemote, Locals, ApplyLocals,
           PathLocals, PushLocals, Applying, PushSteps
    <3> QED  BY <3>4, <3>5, <3>6 DEF Locals
  <2>4. ASSUME NEW p \in Paths, MoveRefused(p)
        PROVE  Locals'
    BY <2>4 DEF TypeOK, Pass, MoveRefused, MoveError, machine, drive, events,
         Locals, KnownLinks, CursorInFeed, ApplyLocals, PathLocals, PushLocals,
         Applying, PushSteps
  <2>5. CASE DropRow
    BY <2>5 DEF TypeOK, Pass, DropRow, Goto, machine, drive, events, Locals,
         KnownLinks, CursorInFeed, ApplyLocals, PathLocals, PushLocals,
         Applying, PushSteps
  <2>6. CASE ReplaceRow
    <3> DEFINE to == pass.moves[pass.path]
    <3>1. /\ pass'.step = "move" /\ pass'.mark = pass.mark
          /\ pass'.local = pass.local
          /\ pass'.moves = [pass.moves EXCEPT ![pass.path] = None]
          /\ pass'.todo = pass.todo /\ pass'.doomed = pass.doomed
          /\ pass'.base = pass.base
          /\ pass'.kids = pass.kids
          /\ pass'.id = pass.id
      BY <2>6 DEF TypeOK, ReplaceRow, Pass
    <3>2. UNCHANGED <<links, visible, feed>>
      BY <2>6 DEF ReplaceRow, drive, events
    <3>3. pass.path \in Paths /\ to \in Paths /\ links[pass.base[pass.path].id]
         # None
      BY <2>6 DEF TypeOK, ReplaceRow, Pass, Locals, KnownLinks, PathLocals,
           PushLocals, Applying, PushSteps
    <3>4. \A p \in Paths : rows'[p] = rows[p] \/ rows'[p].id =
         pass.base[pass.path].id
      BY <2>6, <3>3 DEF TypeOK, ReplaceRow
    <3>5. KnownLinks'
      <4>1. \A p \in Paths : rows'[p] # None => links'[rows'[p].id] # None
        BY <3>2, <3>3, <3>4 DEF Locals, KnownLinks
      <4> QED  BY <3>1, <3>2, <4>1 DEF Locals, KnownLinks
    <3>6. PushLocals'
      <4>1. \A p \in Paths : pass'.moves[p] # None => pass.moves[p] # None /\
           pass'.moves[p] = pass.moves[p]
        BY <3>1, <3>3 DEF TypeOK, Pass
      <4>2. pass.step = "replace"
        BY <2>6 DEF ReplaceRow
      <4> QED  BY <3>1, <4>1, <4>2 DEF Locals, PushLocals, Applying, PushSteps
    <3> QED  BY <3>1, <3>2, <3>5, <3>6 DEF Locals, CursorInFeed, ApplyLocals,
         PathLocals
  <2>7. CASE MovesDone
    BY <2>7 DEF TypeOK, Pass, MovesDone, Goto, machine, drive, events, Locals,
         KnownLinks, CursorInFeed, ApplyLocals, PathLocals, PushLocals,
         Applying, PushSteps
  <2>8. ASSUME NEW p \in Paths, TrashRemote(p)
        PROVE  Locals'
    <3>1. /\ pass'.step = "untrack" /\ pass'.path = p /\ pass'.mark = pass.mark
          /\ pass'.local = pass.local /\ pass'.moves = pass.moves
          /\ pass'.todo = pass.todo /\ pass'.doomed \subseteq pass.doomed
          /\ pass'.base = pass.base
          /\ pass'.kids = pass.kids
          /\ pass'.id = pass.id
      BY <2>8 DEF TypeOK, TrashRemote, Pass
    <3>2. UNCHANGED <<rows, visible>> /\ feed' \in {feed,
         Removed(pass.base[p].id)}
      BY <2>8 DEF TrashRemote, machine
    <3>3. \A l \in Links : links[l] # None => links'[l] # None
      <4>1. pass.base[p].id \in Links /\ links[pass.base[p].id] \in Link
        BY <2>8 DEF TypeOK, TrashRemote, Pass, Row, Locals, KnownLinks,
             PushLocals, Applying, PushSteps
      <4>2. [links[pass.base[p].id] EXCEPT !.live = FALSE] \in Link
        BY <4>1 DEF Link
      <4> QED  BY <2>8, <4>1, <4>2, LinkStays DEF TrashRemote
    <3>4. KnownLinks'
      BY <3>1, <3>2, <3>3, KnownKept DEF Locals
    <3>5. CursorInFeed'
      BY <3>1, <3>2 DEF TypeOK, Locals, CursorInFeed, Removed
    <3>6. ApplyLocals' /\ PathLocals' /\ PushLocals'
      BY <2>8, <3>1, NoneAssumption DEF TrashRemote, Locals, ApplyLocals,
           PathLocals, PushLocals, Applying, PushSteps
    <3> QED  BY <3>4, <3>5, <3>6 DEF Locals
  <2>9. CASE Untrack
    BY <2>9 DEF TypeOK, Pass, Untrack, machine, drive, events, Locals,
         KnownLinks, CursorInFeed, ApplyLocals, PathLocals, PushLocals,
         Applying, PushSteps
  <2>10. CASE TrashDone
    BY <2>10 DEF TypeOK, Pass, TrashDone, Goto, machine, drive, events, Locals,
         KnownLinks, CursorInFeed, ApplyLocals, PathLocals, PushLocals,
         Applying, PushSteps
  <2>11. ASSUME NEW p \in Paths, PushSkip(p)
         PROVE  Locals'
    BY <2>11 DEF TypeOK, Pass, PushSkip, machine, drive, events, Locals,
         KnownLinks, CursorInFeed, ApplyLocals, PathLocals, PushLocals,
         Applying, PushSteps
  <2>12. ASSUME NEW p \in Paths, PushHash(p)
         PROVE  Locals'
    <3>1. /\ pass'.step = "upload" /\ pass'.path = p
          /\ pass'.hash = HashToPush(p)
          /\ pass'.mark = pass.mark
          /\ pass'.local = pass.local
          /\ pass'.moves = pass.moves
          /\ pass'.todo \subseteq pass.todo /\ pass'.doomed = pass.doomed
          /\ pass'.base = pass.base
          /\ pass'.kids = pass.kids
          /\ pass'.id = pass.id
      BY <2>12 DEF TypeOK, PushHash, Pass
    <3>2. UNCHANGED <<rows, links, visible, feed>>
      BY <2>12 DEF PushHash, machine, drive, events
    <3>3. HashToPush(p) # None /\ pass.local[p] # None
      BY <2>12 DEF TypeOK, PushHash, Locals, PushLocals,
           Applying, PushSteps
    <3> QED  BY <2>12, <3>1, <3>2, <3>3, NoneAssumption DEF PushHash, Locals,
         KnownLinks, CursorInFeed, ApplyLocals, PathLocals, PushLocals,
         Applying, PushSteps
  <2>13. CASE Upload
    <3>1. PICK l \in Links :
            /\ links' = [links EXCEPT ![l] = [name |-> pass.path, c |->
                 disk[pass.path].c, live |-> TRUE]]
            /\ feed' = Changed(l)
            /\ pass' = [pass EXCEPT !.step = "track", !.id = l]
      BY <2>13, OneOfIn DEF Upload, LiveAs, NewLinks
    <3>2. /\ pass'.step = "track"
          /\ pass'.path = pass.path
          /\ pass'.hash = pass.hash
          /\ pass'.mark = pass.mark
          /\ pass'.local = pass.local
          /\ pass'.moves = pass.moves
          /\ pass'.todo = pass.todo /\ pass'.doomed = pass.doomed
          /\ pass'.base = pass.base /\ pass'.kids = pass.kids /\ pass'.id = l
      BY <3>1 DEF TypeOK, Pass
    <3>3. UNCHANGED <<rows, visible>>
      BY <2>13 DEF Upload, machine
    <3>4. links'[l] # None /\ \A k \in Links : links[k] # None => links'[k] #
         None
      <4>1. [name |-> pass.path, c |-> disk[pass.path].c, live |-> TRUE] \in
           Link
        BY <2>13 DEF TypeOK, Upload, Pass, Locals, PathLocals, File, Link
      <4> QED  BY <3>1, <4>1, LinkStays
    <3>5. KnownLinks'
      BY <3>2, <3>3, <3>4, NoneAssumption DEF TypeOK, Locals, KnownLinks, Pass,
           Row, Node
    <3>6. CursorInFeed'
      BY <3>1, <3>2, <3>3 DEF TypeOK, Locals, CursorInFeed, Changed
    <3>7. ApplyLocals' /\ PathLocals' /\ PushLocals'
      BY <2>13, <3>2, NoneAssumption DEF Upload, Locals, ApplyLocals,
           PathLocals, PushLocals, Applying, PushSteps
    <3> QED  BY <3>5, <3>6, <3>7 DEF Locals
  <2>14. CASE UploadGone
    BY <2>14 DEF TypeOK, Pass, UploadGone, UploadError, machine, drive, events,
         Locals, KnownLinks, CursorInFeed, ApplyLocals, PathLocals, PushLocals,
         Applying, PushSteps
  <2>15. CASE Track
    BY <2>15 DEF TypeOK, Pass, Track, machine, drive, events, Locals,
         KnownLinks, CursorInFeed, ApplyLocals, PathLocals, PushLocals,
         Applying, PushSteps
  <2>16. CASE PushDone
    BY <2>16, NoneAssumption DEF TypeOK, Pass, PushDone, NoPass, machine,
         drive, events, Locals, KnownLinks, CursorInFeed, ApplyLocals,
         PathLocals, PushLocals, Applying, PushSteps
  <2> QED  BY <1>4, <2>1, <2>2, <2>3, <2>4, <2>5, <2>6, <2>7, <2>8, <2>9,
       <2>10, <2>11, <2>12, <2>13, <2>14, <2>15, <2>16 DEF Push
<1>5. CASE Failure
  <2>1. CASE PollFails
    BY <2>1, NoneAssumption DEF TypeOK, Pass, PollFails, Fault, NoPass,
         machine, drive, events, Locals, KnownLinks, CursorInFeed, ApplyLocals,
         PathLocals, PushLocals, Applying, PushSteps
  <2>2. CASE ListFails
    BY <2>2, NoneAssumption DEF TypeOK, Pass, ListFails, Fault, NoPass,
         machine, drive, events, Locals, KnownLinks, CursorInFeed, ApplyLocals,
         PathLocals, PushLocals, Applying, PushSteps
  <2>3. ASSUME NEW n \in pass.todo, DownloadFails(n)
        PROVE  Locals'
    BY <2>3 DEF TypeOK, Pass, DownloadFails, DownloadError, Fault, machine,
         drive, events, Locals, KnownLinks, CursorInFeed, ApplyLocals,
         PathLocals, PushLocals, Applying, PushSteps
  <2>4. CASE CommitFails
    BY <2>4 DEF TypeOK, Pass, CommitFails, Fault, machine, drive, events,
         Locals, KnownLinks, CursorInFeed, ApplyLocals, PathLocals, PushLocals,
         Applying, PushSteps
  <2>5. ASSUME NEW p \in Paths, MoveFails(p)
        PROVE  Locals'
    BY <2>5 DEF TypeOK, Pass, MoveFails, MoveError, Fault, machine, drive,
         events, Locals, KnownLinks, CursorInFeed, ApplyLocals, PathLocals,
         PushLocals, Applying, PushSteps
  <2>6. ASSUME NEW p \in Paths, TrashFails(p)
        PROVE  Locals'
    BY <2>6 DEF TypeOK, Pass, TrashFails, Fault, machine, drive, events,
         Locals, KnownLinks, CursorInFeed, ApplyLocals, PathLocals, PushLocals,
         Applying, PushSteps
  <2>7. CASE UploadFails
    BY <2>7 DEF TypeOK, Pass, UploadFails, UploadError, Fault, machine, drive,
         events, Locals, KnownLinks, CursorInFeed, ApplyLocals, PathLocals,
         PushLocals, Applying, PushSteps
  <2>8. CASE Crash
    BY <2>8, NoneAssumption DEF TypeOK, Pass, Crash, Fault, NoPass, machine,
         drive, events, Locals, KnownLinks, CursorInFeed, ApplyLocals,
         PathLocals, PushLocals, Applying, PushSteps
  <2> QED  BY <1>5, <2>1, <2>2, <2>3, <2>4, <2>5, <2>6, <2>7, <2>8 DEF Failure
<1>6. CASE User
  <2>1. ASSUME NEW p \in Files, NEW c \in OneOf(NewContents), UserWrites(p, c)
        PROVE  Locals'
    BY <2>1 DEF TypeOK, Pass, UserWrites, machine, drive, events, Locals,
         KnownLinks, CursorInFeed, ApplyLocals, PathLocals, PushLocals,
         Applying, PushSteps
  <2>2. ASSUME NEW p \in Files, UserDeletes(p)
        PROVE  Locals'
    BY <2>2 DEF TypeOK, Pass, UserDeletes, machine, drive, events, Locals,
         KnownLinks, CursorInFeed, ApplyLocals, PathLocals, PushLocals,
         Applying, PushSteps
  <2>3. ASSUME NEW p \in Files, NEW q \in Files, UserRenames(p, q)
        PROVE  Locals'
    BY <2>3 DEF TypeOK, Pass, UserRenames, machine, drive, events, Locals,
         KnownLinks, CursorInFeed, ApplyLocals, PathLocals, PushLocals,
         Applying, PushSteps
  <2> QED  BY <1>6, <2>1, <2>2, <2>3 DEF User
<1>7. CASE Device
  <2>1. ASSUME NEW p \in Files, NEW c \in Uploadable, DeviceWrites(p,
       c)
        PROVE  Locals'
    <3>0. \E l \in Links :
            links' = [links EXCEPT ![l] = [name |-> p, c |-> c, live |-> TRUE]]
                 /\ feed' = Changed(l)
      BY <2>1, OneOfIn DEF DeviceWrites, LiveAs, NewLinks
    <3>1. \A k \in Links : links[k] # None => links'[k] # None
      <4>1. [name |-> p, c |-> c, live |-> TRUE] \in Link
        BY OneOfIn DEF TypeOK, NewContents, Uploadable, Link, Paths
      <4> QED  BY <3>0, <4>1, LinkStays
    <3>2. KnownLinks'
      BY <2>1, <3>1, KnownKept DEF DeviceWrites, Locals, machine
    <3>3. CursorInFeed'
      BY <2>1, <3>0 DEF TypeOK, DeviceWrites, Locals, CursorInFeed, Changed,
           Removed
    <3>4. ApplyLocals' /\ PathLocals' /\ PushLocals'
      BY <2>1, <3>1 DEF TypeOK, Pass, Node, DeviceWrites, Locals, ApplyLocals,
           PathLocals, PushLocals, Applying, PushSteps
    <3> QED  BY <3>2, <3>3, <3>4 DEF Locals
  <2>2. ASSUME NEW l \in Links, DeviceTrashes(l)
        PROVE  Locals'
    <3>1. \A k \in Links : links[k] # None => links'[k] # None
      <4>1. [links[l] EXCEPT !.live = FALSE] \in Link
        BY <2>2, ZenonT(60) DEF TypeOK, DeviceTrashes, Link
      <4> QED  BY <2>2, <4>1, LinkStays DEF DeviceTrashes
    <3>2. KnownLinks'
      BY <2>2, <3>1, KnownKept DEF DeviceTrashes, Locals, machine
    <3>3. CursorInFeed'
      BY <2>2 DEF TypeOK, DeviceTrashes, Locals, CursorInFeed, Changed, Removed
    <3>4. ApplyLocals' /\ PathLocals' /\ PushLocals'
      BY <2>2, <3>1 DEF TypeOK, Pass, Node, DeviceTrashes, Locals, ApplyLocals,
           PathLocals, PushLocals, Applying, PushSteps
    <3> QED  BY <3>2, <3>3, <3>4 DEF Locals
  <2>3. ASSUME NEW l \in Links, NEW p \in Files, DeviceRenames(l, p)
        PROVE  Locals'
    <3>1. \A k \in Links : links[k] # None => links'[k] # None
      <4>1. [links[l] EXCEPT !.name = p] \in Link
        BY <2>3 DEF TypeOK, DeviceRenames, Link, Paths
      <4> QED  BY <2>3, <4>1, LinkStays DEF DeviceRenames
    <3>2. KnownLinks'
      BY <2>3, <3>1, KnownKept DEF DeviceRenames, Locals, machine
    <3>3. CursorInFeed'
      BY <2>3 DEF TypeOK, DeviceRenames, Locals, CursorInFeed, Changed, Removed
    <3>4. ApplyLocals' /\ PathLocals' /\ PushLocals'
      BY <2>3, <3>1 DEF TypeOK, Pass, Node, DeviceRenames, Locals, ApplyLocals,
           PathLocals, PushLocals, Applying, PushSteps
    <3> QED  BY <3>2, <3>3, <3>4 DEF Locals
  <2> QED  BY <1>7, <2>1, <2>2, <2>3 DEF Device
<1>8. CASE Publish
  BY <1>8 DEF TypeOK, Pass, Publish, machine, drive, events, Locals,
       KnownLinks, CursorInFeed, ApplyLocals, PathLocals, PushLocals, Applying,
       PushSteps
<1> QED  BY <1>1, <1>2, <1>3, <1>4, <1>5, <1>6, <1>7, <1>8 DEF Next

-----------------------------------------------------------------------------
(* An empty folder, an empty account and no pass.                          *)
LEMMA TypingInit == Init => TypeOK /\ Locals
  <1> SUFFICES ASSUME Init PROVE TypeOK /\ Locals
    OBVIOUS
  <1>1. TypeOK
    <2>1. pass \in Pass /\ feed \in Seq(Event)
      BY NoPassTyped DEF Init
    <2> QED  BY <2>1 DEF Init, TypeOK
  <1>2. Locals
    BY DEF Init, NoPass, Locals, KnownLinks, CursorInFeed, ApplyLocals,
         PathLocals, PushLocals, Applying, PushSteps
  <1> QED  BY <1>1, <1>2

(* TypeOK and Locals together are inductive.                               *)
LEMMA TypingStep == TypeOK /\ Locals /\ [Next]_vars => TypeOK' /\ Locals'
  <1> SUFFICES ASSUME TypeOK, Locals, [Next]_vars PROVE TypeOK' /\ Locals'
    OBVIOUS
  <1>1. CASE Next
    BY <1>1, PassTyped, StateTyped, LocalsKept
  <1>2. CASE UNCHANGED vars
    BY <1>2 DEF vars, machine, drive, events, ghosts, TypeOK, Locals,
         KnownLinks, CursorInFeed, ApplyLocals, PathLocals, PushLocals
  <1> QED  BY <1>1, <1>2

(* Type correctness of the engine (TypeOK).                                *)
THEOREM TypeCorrect == Spec => []TypeOK
  <1>1. Spec => [](TypeOK /\ Locals)
    BY TypingInit, TypingStep, PTL DEF Spec
  <1> QED  BY <1>1, PTL

(* What every step of a pass finds in its locals (Locals).                 *)
THEOREM LocalsCorrect == Spec => [](TypeOK /\ Locals)
  BY TypingInit, TypingStep, PTL DEF Spec

-----------------------------------------------------------------------------
(* 2. The three-way decision.                                              *)

(* What is decided is always Reconcile of the facts.                       *)
LEMMA Decides == DecideSpec => [](facts \in Facts /\ action = Reconcile(facts))
<1> DEFINE Inv == facts \in Facts /\ action = Reconcile(facts)
<1>1. DecideInit => Inv
  BY DEF DecideInit
<1>2. Inv /\ [DecideNext]_<<facts, action>> => Inv'
  BY DEF DecideNext
<1> QED BY <1>1, <1>2, PTL DEF DecideSpec

(* For every set of hashes, no edited file is trashed on either side.      *)
THEOREM EditsSurviveDeletion == DecideSpec => []DeletionNeverBeatsAnEditedFile
<1>1. facts \in Facts /\ action = Reconcile(facts)
         => DeletionNeverBeatsAnEditedFile
  BY SidesAssumption DEF Facts, Sides, Reconcile, LocalOnly, RemoteOnly,
     BothSides, SideChanged, EditBeatsDeletion, SameContent, DeletionNeverBeatsAnEditedFile, Edited
<1> QED BY <1>1, Decides, PTL

(* For every set of hashes, no transfer replaces an edit.                  *)
THEOREM EditsSurviveTransfer == DecideSpec => []ConflictKeepsBoth
<1>1. facts \in Facts /\ action = Reconcile(facts) => ConflictKeepsBoth
  BY SidesAssumption DEF Facts, Sides, Reconcile, LocalOnly, RemoteOnly,
     BothSides, SideChanged, EditBeatsDeletion, SameContent, ConflictKeepsBoth, Edited
<1> QED BY <1>1, Decides, PTL

(* The decision does not depend on which side is the local one.            *)
THEOREM SidesAreEqual == DecideSpec => []Mirrored
<1>1. ASSUME facts \in Facts, action = Reconcile(facts) PROVE Mirrored
  <2>1. /\ Swapped(facts).base = facts.base
        /\ Swapped(facts).local = facts.remote
        /\ Swapped(facts).remote = facts.local
    BY DEF Swapped
  <2> QED BY <1>1, <2>1, SidesAssumption DEF Facts, Sides, Reconcile, LocalOnly,
             RemoteOnly, BothSides, EditBeatsDeletion, SameContent, Mirrored, SwappedAction
<1> QED BY <1>1, Decides, PTL

(* Agreement is left alone, a known difference is acted on.                *)
THEOREM DifferencesAreSettled == DecideSpec => []ActsOnDifferencesOnly
<1>1. facts \in Facts /\ action = Reconcile(facts) => ActsOnDifferencesOnly
  BY SidesAssumption DEF Facts, Sides, Reconcile, LocalOnly, RemoteOnly,
     BothSides, SideChanged, EditBeatsDeletion, SameContent, ActsOnDifferencesOnly
<1> QED BY <1>1, Decides, PTL

-----------------------------------------------------------------------------
(* 3. No pass of the engine discards the local user's work: IInv is        *)
(* preserved by every step, under the Precautions.                         *)

(* A failure writes only the pass.                                         *)
LEMMA FailureFrame ==
    ASSUME Failure
    PROVE  UNCHANGED <<disk, trash, rows, links, vault, work, written>>
  BY DEF Failure, PollFails, ListFails, DownloadFails, DownloadError, CommitFails,
     MoveFails, MoveError, TrashFails, UploadFails, UploadError, Crash,
     machine, drive, events, ghosts

(* The other devices write only Drive; nothing leaves the vault.           *)
LEMMA DeviceFrame ==
    ASSUME Device
    PROVE  /\ UNCHANGED <<disk, trash, rows, pass, work>>
           /\ vault \subseteq vault' /\ written \subseteq written'
  BY DEF Device, DeviceWrites, DeviceTrashes, DeviceRenames, 
     machine, drive, events, ghosts

(* The user writes only the folder, and nothing old becomes work again.    *)
LEMMA UserFrame ==
    ASSUME User
    PROVE  /\ UNCHANGED <<trash, rows, links, vault, pass>> /\ written \subseteq written'
           /\ \A x \in written : x \in work' => x \in work
  BY OneOfIn DEF User, UserWrites, UserDeletes, UserRenames, NewContents, drive, events,
     ghosts

(* What a step that only advances the pass cannot disturb.                 *)
LEMMA SameMachine ==
    ASSUME TypeOK, IInv, UNCHANGED <<disk, trash, rows, links, vault, work, written>>,
           pass.step \notin {"commit", "record"}
    PROVE  /\ NothingDiscarded' /\ BaselineVouchesForSafe' /\ ServedIsKept'
           /\ UniqueInodes' /\ RenamedIsSafe'
  BY DEF IInv, NothingDiscarded, BaselineVouchesForSafe, ServedIsKept, UniqueInodes,
     RenamedIsSafe, Safe, OnDisk

(* The invariant speaks of nothing else.                                   *)
LEMMA SameAll ==
    ASSUME IInv, UNCHANGED <<disk, trash, rows, links, vault, work, written, pass>>
    PROVE  IInv'
  BY DEF IInv, NothingDiscarded, OnDisk, BaselineVouchesForSafe, UniqueInodes,
     RenamedIsSafe, Safe, ServedIsKept, MentionedIsWritten, ScanIsCurrent, Awaiting,
     ReplacedIsSafe, PushScanIsCurrent, MovedIsSafe, UploadedIsSafe

(* A step that at most removes rows, renames or trashes links and shrinks  *)
(* the locals of the pass.                                                 *)
LEMMA Narrows ==
    ASSUME TypeOK, IInv, UNCHANGED <<disk, trash, vault, work, written>>,
           \A p \in Paths : rows'[p] \in {rows[p], None},
           \A l \in Links : links'[l] # None =>
                               links[l] # None /\ links'[l].c = links[l].c,
           pass.step \notin {"commit", "record"},
           pass'.step \notin {"baseline", "upload", "track", "preserve",
                             "commit", "record"},
           pass'.step \in PushSteps => pass.step \in PushSteps,
           pass'.step \in Applying => pass.step \in Applying,
           pass'.read = pass.read,
           pass'.local = pass.local, pass'.base = pass.base,
           pass'.staged = pass.staged, pass'.before = pass.before,
           pass'.hash \in {pass.hash, None},
           \A p \in Paths : pass'.moves[p] \in {pass.moves[p], None},
           Awaiting' \subseteq Awaiting
    PROVE  IInv'
<1>1. /\ NothingDiscarded' /\ BaselineVouchesForSafe' /\ ServedIsKept' /\ UniqueInodes'
      /\ RenamedIsSafe'
  BY DEF IInv, NothingDiscarded, BaselineVouchesForSafe, ServedIsKept, UniqueInodes,
     RenamedIsSafe, Safe, OnDisk
<1>2. MentionedIsWritten'
  BY DEF IInv, MentionedIsWritten
<1>3. ScanIsCurrent' /\ ReplacedIsSafe' /\ UploadedIsSafe'
  BY DEF IInv, ScanIsCurrent, Safe, ReplacedIsSafe, UploadedIsSafe
<1>4. PushScanIsCurrent' /\ MovedIsSafe'
  BY DEF IInv, PushScanIsCurrent, MovedIsSafe, Safe
<1> QED BY <1>1, <1>2, <1>3, <1>4 DEF IInv

(* The same for a step that changes nothing but the pass.                  *)
LEMMA PassNarrows ==
    ASSUME TypeOK, IInv,
           UNCHANGED <<disk, trash, rows, links, vault, work, written>>,
           pass.step \notin {"commit", "record"},
           pass'.step \notin {"baseline", "upload", "track", "preserve",
                             "commit", "record"},
           pass'.step \in PushSteps => pass.step \in PushSteps,
           pass'.step \in Applying => pass.step \in Applying,
           pass'.read = pass.read,
           pass'.local = pass.local, pass'.base = pass.base,
           pass'.staged = pass.staged, pass'.before = pass.before,
           pass'.hash \in {pass.hash, None},
           \A p \in Paths : pass'.moves[p] \in {pass.moves[p], None},
           Awaiting' \subseteq Awaiting
    PROVE  IInv'
<1>1. /\ \A p \in Paths : rows'[p] \in {rows[p], None}
      /\ \A l \in Links : links'[l] # None =>
                           links[l] # None /\ links'[l].c = links[l].c
  OBVIOUS
<1> QED BY <1>1, Narrows

(* A pass that ends, or that forgets everything before its push.           *)
LEMMA Resets ==
    ASSUME TypeOK, IInv, UNCHANGED <<disk, trash, rows, links, vault, work, written>>,
           pass' = NoPass \/ pass' = [NoPass EXCEPT !.step = "rescan"],
           pass.step \notin {"commit", "record"}
    PROVE  IInv'
<1>1. /\ pass'.step \in {"idle", "rescan"} /\ pass'.hash = None /\ pass'.staged = None
      /\ \A p \in Paths : /\ pass'.local[p] = None /\ pass'.base[p] = None
                           /\ pass'.read[p] = None
  BY DEF NoPass
<1>2. /\ NothingDiscarded' /\ BaselineVouchesForSafe' /\ ServedIsKept' /\ UniqueInodes'
      /\ RenamedIsSafe'
  BY SameMachine
<1>3. MentionedIsWritten'
  BY <1>1 DEF IInv, MentionedIsWritten
<1>4. ScanIsCurrent' /\ ReplacedIsSafe' /\ UploadedIsSafe'
  BY <1>1 DEF ScanIsCurrent, Awaiting, ReplacedIsSafe, UploadedIsSafe
<1>5. PushScanIsCurrent'
  BY <1>1 DEF PushScanIsCurrent
<1>6. MovedIsSafe'
  BY <1>1 DEF MovedIsSafe, Applying, PushSteps
<1> QED BY <1>2, <1>3, <1>4, <1>5, <1>6 DEF IInv

-----------------------------------------------------------------------------
(* The user, between passes or during a push but for the moment its moves  *)
(* are detected (UserWrites, UserDeletes, UserRenames).                    *)
LEMMA UserStep ==
    ASSUME TypeOK, Locals, IInv, Precautions, User
    PROVE  IInv'
<1>1. /\ pass' = pass /\ pass.step \in {"idle"} \cup (PushSteps \ {"baseline"})
      /\ written \subseteq written'
  BY UserFrame DEF User, UserWrites, UserDeletes, UserRenames, UserMayAct, Precautions
<1>2. UNCHANGED <<trash, rows, links, vault>>
  BY UserFrame
<1>3. \A x \in written : x \in work' => x \in work
  BY UserFrame
<1>4. ServedIsKept' /\ ScanIsCurrent' /\ ReplacedIsSafe'
  BY <1>1, <1>2 DEF IInv, ServedIsKept, ScanIsCurrent, ReplacedIsSafe, Awaiting, PushSteps
<1>5. BaselineVouchesForSafe'
  BY <1>2, <1>3 DEF IInv, BaselineVouchesForSafe, MentionedIsWritten, Safe
<1>6. MovedIsSafe'
  BY <1>1, <1>2, <1>3, NoneAssumption DEF TypeOK, Pass, Locals, PushLocals, IInv,
     MovedIsSafe, MentionedIsWritten, Safe, Applying
<1>7. SUFFICES /\ NothingDiscarded' /\ MentionedIsWritten' /\ UniqueInodes'
               /\ RenamedIsSafe' /\ PushScanIsCurrent' /\ UploadedIsSafe'
  BY <1>4, <1>5, <1>6 DEF IInv
<1>8. ASSUME NEW p \in Files, NEW c \in OneOf(NewContents), UserWrites(p, c)
      PROVE  /\ NothingDiscarded' /\ MentionedIsWritten' /\ UniqueInodes'
             /\ RenamedIsSafe' /\ PushScanIsCurrent' /\ UploadedIsSafe'
  <2>1. p \in Paths /\ c \in Contents /\ c \notin written
    BY <1>8, OneOfIn DEF NewContents, Paths
  <2>2. PICK f \in File :
          /\ disk' = [disk EXCEPT ![p] = f]
          /\ f.c = c
          /\ \/ f.ino \in NewInodes
             \/ disk[p] # None /\ f.ino = disk[p].ino /\ ~Renamed(p)
    <3>1. CASE \E i \in OneOf(NewInodes) : disk' = [disk EXCEPT ![p] = [c |-> c, ino |-> i]]
      <4>1. PICK i \in OneOf(NewInodes) : disk' = [disk EXCEPT ![p] = [c |-> c, ino |-> i]]
        BY <3>1
      <4>2. i \in NewInodes /\ i \in Inodes
        BY OneOfIn DEF NewInodes
      <4>3. [c |-> c, ino |-> i] \in File
        BY <2>1, <4>2 DEF File
      <4> QED  BY <4>1, <4>2, <4>3
    <3>2. CASE disk[p] # None /\ ~Renamed(p) /\ disk' = [disk EXCEPT ![p].c = c]
      <4>1. disk[p] \in File
        BY <2>1, <3>2 DEF TypeOK
      <4>2. [disk[p] EXCEPT !.c = c] \in File
        BY <2>1, <4>1 DEF File
      <4>3. [disk[p] EXCEPT !.c = c].c = c /\ [disk[p] EXCEPT !.c = c].ino = disk[p].ino
        BY <4>1 DEF File
      <4> QED  BY <3>2, <4>2, <4>3
    <3> QED BY <1>8, <3>1, <3>2 DEF UserWrites, Precautions
  <2>3. /\ disk'[p] = f /\ f # None /\ \A q \in Paths : q # p => disk'[q] = disk[q]
    <3>1. f # None
      BY NoneAssumption
    <3>2. disk' = [disk EXCEPT ![p] = f] /\ disk \in [Paths -> File \cup {None}]
      BY <2>2 DEF TypeOK
    <3> QED  BY <2>1, <3>1, <3>2
  <2>4. work' = (work \ HeldAt(p)) \cup {c} /\ written' = written \cup {c}
    BY <1>8 DEF UserWrites
  <2>5. NothingDiscarded'
    <3>1. c \in OnDisk'
      BY <2>1, <2>2, <2>3 DEF OnDisk
    <3>2. ASSUME NEW x \in work \ HeldAt(p), x \in OnDisk PROVE x \in OnDisk'
      BY <2>3, <3>2 DEF OnDisk, HeldAt
    <3> QED  BY <1>2, <2>4, <3>1, <3>2 DEF IInv, NothingDiscarded
  <2>6. MentionedIsWritten'
    <3>1. \A q \in Paths : disk'[q] # None => disk'[q].c \in written'
      BY <2>2, <2>3, <2>4 DEF IInv, MentionedIsWritten
    <3> QED  BY <1>1, <1>2, <3>1 DEF IInv, MentionedIsWritten
  <2>7. UniqueInodes'
    BY <2>1, <2>2, <2>3 DEF IInv, UniqueInodes, NewInodes
  <2>8. RenamedIsSafe'
    BY <1>1, <1>2, <1>3, <2>1, <2>2, <2>3 DEF IInv, RenamedIsSafe, NewInodes, Renamed,
       MentionedIsWritten, Safe, PushSteps
  <2>9. PushScanIsCurrent'
    BY <1>1, <1>2, <1>3, <2>1, <2>2, <2>3, <2>4 DEF IInv, PushScanIsCurrent, NewInodes,
       MentionedIsWritten, Safe, HeldAt
  <2>10. UploadedIsSafe'
    BY <1>1, <1>2, <1>3, <2>1, <2>2, <2>3, <2>4 DEF TypeOK, Locals, PathLocals,
       PushLocals, IInv, UploadedIsSafe, MentionedIsWritten, Safe, HeldAt, Pass
  <2> QED BY <2>5, <2>6, <2>7, <2>8, <2>9, <2>10
<1>9. ASSUME NEW p \in Files, UserDeletes(p)
      PROVE  /\ NothingDiscarded' /\ MentionedIsWritten' /\ UniqueInodes'
             /\ RenamedIsSafe' /\ PushScanIsCurrent' /\ UploadedIsSafe'
  <2>1. p \in Paths /\ disk'[p] = None /\ \A q \in Paths : q # p => disk'[q] = disk[q]
    BY <1>9 DEF TypeOK, UserDeletes, Paths
  <2>2. work' = work \ {disk[p].c} /\ written' = written /\ disk[p] # None
    BY <1>9 DEF UserDeletes, HeldAt
  <2>3. NothingDiscarded'
    BY <1>2, <2>1, <2>2 DEF IInv, NothingDiscarded, OnDisk
  <2>4. MentionedIsWritten'
    BY <1>1, <1>2, <2>1, <2>2 DEF IInv, MentionedIsWritten
  <2>5. UniqueInodes'
    BY <2>1 DEF IInv, UniqueInodes
  <2>6. RenamedIsSafe'
    BY <1>1, <1>2, <2>1, <2>2 DEF IInv, RenamedIsSafe, Safe
  <2>7. PushScanIsCurrent'
    BY <1>1, <1>2, <2>1, <2>2 DEF IInv, PushScanIsCurrent, Safe
  <2>8. UploadedIsSafe'
    BY <1>1, <1>2, <2>1, <2>2 DEF TypeOK, Locals, PathLocals, PushLocals, IInv,
       UploadedIsSafe, Safe, Pass
  <2> QED BY <2>3, <2>4, <2>5, <2>6, <2>7, <2>8
<1>10. ASSUME NEW p \in Files, NEW q \in Files, UserRenames(p, q)
      PROVE  /\ NothingDiscarded' /\ MentionedIsWritten' /\ UniqueInodes'
             /\ RenamedIsSafe' /\ PushScanIsCurrent' /\ UploadedIsSafe'
  <2>1. /\ p \in Paths /\ q \in Paths /\ disk'[p] = None /\ disk'[q] = disk[p]
        /\ p # q /\ disk[q] = None /\ disk[p] # None
        /\ \A r \in Paths : r \notin {p, q} => disk'[r] = disk[r]
    BY <1>10 DEF TypeOK, UserRenames, Paths
  <2>2. work' = work /\ written' = written /\ pass.step = "idle"
    BY <1>10 DEF UserRenames, Precautions
  <2>3. \A r \in Paths : rows[r] # None /\ rows[r].ino = disk[p].ino
                            => rows[r].hash = disk[p].c
    BY <1>10 DEF UserRenames, Precautions
  <2>4. NothingDiscarded'
    BY <1>2, <2>1, <2>2 DEF IInv, NothingDiscarded, OnDisk
  <2>5. MentionedIsWritten'
    BY <1>1, <1>2, <2>1, <2>2 DEF IInv, MentionedIsWritten
  <2>6. UniqueInodes'
    BY <2>1 DEF IInv, UniqueInodes
  <2>7. RenamedIsSafe'
    BY <1>1, <1>2, <2>1, <2>2, <2>3 DEF IInv, RenamedIsSafe, BaselineVouchesForSafe, Safe
  <2>8. PushScanIsCurrent' /\ UploadedIsSafe'
    BY <1>1, <2>2 DEF PushScanIsCurrent, UploadedIsSafe, Applying,
       PushSteps
  <2> QED BY <2>4, <2>5, <2>6, <2>7, <2>8
<1> QED  BY <1>8, <1>9, <1>10 DEF User

(* One link takes a revision that Drive keeps.                             *)
LEMMA LinkWritten ==
    ASSUME TypeOK, IInv, NEW l \in Links, NEW r, links' = [links EXCEPT ![l] = r],
           r.c \in vault' /\ r.c \in written',
           vault \subseteq vault', written \subseteq written'
    PROVE  /\ ServedIsKept'
           /\ \A k \in Links : links'[k] # None => links'[k].c \in written'
  BY DEF TypeOK, IInv, ServedIsKept, MentionedIsWritten

(* The other devices (DeviceWrites, DeviceTrashes, DeviceRenames).         *)
LEMMA DeviceStep ==
    ASSUME TypeOK, IInv, Device
    PROVE  IInv'
<1>1. /\ UNCHANGED <<disk, trash, rows, pass, work>>
      /\ vault \subseteq vault' /\ written \subseteq written'
  BY DeviceFrame
<1>2. ServedIsKept' /\ \A k \in Links : links'[k] # None => links'[k].c \in written'
  <2>1. ASSUME NEW p \in Files, NEW c \in Uploadable, DeviceWrites(p, c)
        PROVE  /\ ServedIsKept'
               /\ \A k \in Links : links'[k] # None => links'[k].c \in written'
    <3>1. PICK l \in Links :
             links' = [links EXCEPT ![l] = [name |-> p, c |-> c, live |-> TRUE]]
      BY <2>1, OneOfIn DEF DeviceWrites, LiveAs, NewLinks
    <3>2. c \in vault' /\ c \in written'
      BY <2>1 DEF DeviceWrites
    <3>3. [name |-> p, c |-> c, live |-> TRUE].c = c
      OBVIOUS
    <3> QED BY <1>1, <3>1, <3>2, <3>3, LinkWritten
  <2>2. ASSUME NEW l \in Links, DeviceTrashes(l)
        PROVE  /\ ServedIsKept'
               /\ \A k \in Links : links'[k] # None => links'[k].c \in written'
    <3>1. links' = [links EXCEPT ![l] = [links[l] EXCEPT !.live = FALSE]] /\ links[l] # None
      BY <2>2 DEF DeviceTrashes
    <3>2. [links[l] EXCEPT !.live = FALSE].c = links[l].c
      BY <3>1 DEF TypeOK, Link
    <3>3. links[l].c \in vault' /\ links[l].c \in written'
      BY <1>1, <3>1 DEF IInv, ServedIsKept, MentionedIsWritten
    <3> QED BY <1>1, <3>1, <3>2, <3>3, LinkWritten
  <2>3. ASSUME NEW l \in Links, NEW p \in Files, DeviceRenames(l, p)
        PROVE  /\ ServedIsKept'
               /\ \A k \in Links : links'[k] # None => links'[k].c \in written'
    <3>1. links' = [links EXCEPT ![l] = [links[l] EXCEPT !.name = p]] /\ links[l] # None
      BY <2>3 DEF DeviceRenames
    <3>2. [links[l] EXCEPT !.name = p].c = links[l].c
      BY <3>1 DEF TypeOK, Link
    <3>3. links[l].c \in vault' /\ links[l].c \in written'
      BY <1>1, <3>1 DEF IInv, ServedIsKept, MentionedIsWritten
    <3> QED BY <1>1, <3>1, <3>2, <3>3, LinkWritten
  <2> QED BY <2>1, <2>2, <2>3 DEF Device
<1>3. NothingDiscarded' /\ BaselineVouchesForSafe' /\ UniqueInodes' /\ RenamedIsSafe'
  BY <1>1 DEF IInv, NothingDiscarded, OnDisk, BaselineVouchesForSafe, UniqueInodes,
     RenamedIsSafe, Safe
<1>4. MentionedIsWritten'
  BY <1>1, <1>2 DEF IInv, MentionedIsWritten
<1>5. ScanIsCurrent' /\ ReplacedIsSafe'
  BY <1>1 DEF IInv, ScanIsCurrent, Awaiting, ReplacedIsSafe, Safe
<1>6. PushScanIsCurrent' /\ MovedIsSafe' /\ UploadedIsSafe'
  BY <1>1 DEF IInv, PushScanIsCurrent, MovedIsSafe, UploadedIsSafe, Safe
<1> QED BY <1>2, <1>3, <1>4, <1>5, <1>6 DEF IInv

(* The scan a pass starts with is exact, or wrong about a safe file only   *)
(* (Start).                                                                *)
LEMMA StartStep ==
    ASSUME TypeOK, IInv, Precautions, NEW kind \in Kinds, Start(kind)
    PROVE  IInv'
<1>1. /\ pass'.step \in {"poll", "list"} /\ pass'.hash = None /\ pass'.staged = None
      /\ pass'.local = [p \in Paths |-> None] /\ pass'.base = [p \in Paths |-> None]
      /\ pass'.read = [p \in Paths |-> None]
      /\ pass'.before = [p \in Paths |-> IF disk[p] = None THEN None ELSE HashOf(p)]
  BY DEF Start, NoPass, Precautions
<1>2. pass.step = "idle" /\ UNCHANGED <<disk, trash, rows, links, vault, work, written>>
  BY DEF Start, machine, drive, ghosts
<1>3. /\ NothingDiscarded' /\ BaselineVouchesForSafe' /\ ServedIsKept' /\ UniqueInodes'
      /\ RenamedIsSafe'
  BY <1>2, SameMachine
<1>4. MentionedIsWritten'
  BY <1>1, <1>2 DEF IInv, MentionedIsWritten
<1>5. ScanIsCurrent'
  <2>1. SUFFICES ASSUME NEW p \in Paths, disk[p] # None
                 PROVE  Safe(disk[p].c) \/ HashOf(p) = disk[p].c
    BY <1>1, <1>2 DEF ScanIsCurrent, Awaiting, Safe
  <2> QED BY <2>1, NoneAssumption DEF TypeOK, File, HashOf, IInv, BaselineVouchesForSafe
<1>6. ReplacedIsSafe' /\ PushScanIsCurrent' /\ MovedIsSafe' /\ UploadedIsSafe'
  BY <1>1 DEF ReplacedIsSafe, PushScanIsCurrent, MovedIsSafe, UploadedIsSafe, PushSteps,
     Applying
<1> QED BY <1>3, <1>4, <1>5, <1>6 DEF IInv

-----------------------------------------------------------------------------
LEMMA PollEventsStep ==
    ASSUME TypeOK, Locals, IInv, PollEvents
    PROVE  IInv'
<1>1. /\ pass.step = "poll" /\ pass'.step = "delete"
      /\ pass'.read = pass.read
      /\ pass'.local = pass.local /\ pass'.base = pass.base /\ pass'.staged = pass.staged
      /\ pass'.before = pass.before /\ pass'.hash = pass.hash /\ pass'.moves = pass.moves
  BY DEF PollEvents, Goto, TypeOK, Pass
<1>2. UNCHANGED <<disk, trash, rows, links, vault, work, written>>
  BY DEF PollEvents, Goto, machine, drive, ghosts
<1>3. /\ \A q \in Paths : pass'.moves[q] \in {pass.moves[q], None}
      /\ pass'.hash \in {pass.hash, None} /\ Awaiting' \subseteq Awaiting
  BY <1>1 DEF TypeOK, Pass, Awaiting
<1>4. /\ pass'.step \in PushSteps => pass.step \in PushSteps
      /\ pass'.step \in Applying => pass.step \in Applying
      /\ pass.step \notin {"commit", "record"}
      /\ pass'.step \notin {"baseline", "upload", "track", "preserve",
                            "commit", "record"}
  BY <1>1 DEF Applying, PushSteps
<1> QED BY <1>1, <1>2, <1>3, <1>4, PassNarrows

LEMMA StartWalkStep ==
    ASSUME TypeOK, Locals, IInv, StartWalk
    PROVE  IInv'
<1>1. /\ pass.step = "poll" /\ pass'.step = "list"
      /\ pass'.read = pass.read
      /\ pass'.local = pass.local /\ pass'.base = pass.base /\ pass'.staged = pass.staged
      /\ pass'.before = pass.before /\ pass'.hash = pass.hash /\ pass'.moves = pass.moves
  BY DEF StartWalk, Goto, TypeOK, Pass
<1>2. UNCHANGED <<disk, trash, rows, links, vault, work, written>>
  BY DEF StartWalk, Goto, machine, drive, ghosts
<1>3. /\ \A q \in Paths : pass'.moves[q] \in {pass.moves[q], None}
      /\ pass'.hash \in {pass.hash, None} /\ Awaiting' \subseteq Awaiting
  BY <1>1 DEF TypeOK, Pass, Awaiting
<1>4. /\ pass'.step \in PushSteps => pass.step \in PushSteps
      /\ pass'.step \in Applying => pass.step \in Applying
      /\ pass.step \notin {"commit", "record"}
      /\ pass'.step \notin {"baseline", "upload", "track", "preserve",
                            "commit", "record"}
  BY <1>1 DEF Applying, PushSteps
<1> QED BY <1>1, <1>2, <1>3, <1>4, PassNarrows

(* A file goes to the local trash (TrashLocal).                            *)
LEMMA TrashLocalStep ==
    ASSUME TypeOK, IInv, NEW p \in Paths, TrashLocal(p),
           UNCHANGED <<rows, links, vault, work, written>>,
           pass.step \notin {"commit", "record"},
           pass'.step \in {"deleted", "reaped"},
           pass'.read = pass.read,
           pass'.local = pass.local, pass'.base = pass.base,
           pass'.staged = pass.staged, pass'.before = pass.before,
           pass'.hash = pass.hash, Awaiting' \subseteq Awaiting
    PROVE  IInv'
<1>1. /\ disk'[p] = None /\ \A q \in Paths : q # p => disk'[q] = disk[q]
      /\ trash \subseteq trash' /\ (disk[p] # None => disk[p].c \in trash')
  BY DEF TypeOK, TrashLocal
<1>2. NothingDiscarded'
  BY <1>1 DEF IInv, NothingDiscarded, OnDisk
<1>3. BaselineVouchesForSafe' /\ ServedIsKept' /\ UniqueInodes' /\ RenamedIsSafe'
  BY <1>1 DEF IInv, BaselineVouchesForSafe, ServedIsKept, UniqueInodes, RenamedIsSafe, Safe
<1>4. MentionedIsWritten'
  BY <1>1 DEF IInv, MentionedIsWritten
<1>7. Awaiting' \subseteq Paths
  BY DEF Awaiting
<1>5. ScanIsCurrent' /\ ReplacedIsSafe' /\ UploadedIsSafe'
  BY <1>1, <1>7 DEF IInv, ScanIsCurrent, ReplacedIsSafe, UploadedIsSafe, Safe
<1>6. PushScanIsCurrent' /\ MovedIsSafe'
  BY DEF PushScanIsCurrent, MovedIsSafe, Applying, PushSteps
<1> QED BY <1>2, <1>3, <1>4, <1>5, <1>6 DEF IInv

LEMMA DeleteByIDStep ==
    ASSUME TypeOK, Locals, IInv, NEW l \in Links, DeleteByID(l) PROVE IInv'
<1>1. UNCHANGED <<rows, links, vault, work, written>> /\ pass.step = "delete"
  BY DEF DeleteByID, drive, ghosts
<1>2. ASSUME pass' = [pass EXCEPT !.dels = @ \ {l}], UNCHANGED <<disk, trash>>
      PROVE  IInv'
  <2>1. /\ pass'.step = "delete" /\ pass'.local = pass.local
        /\ pass'.read = pass.read /\ pass'.base = pass.base
        /\ pass'.staged = pass.staged /\ pass'.before = pass.before
        /\ pass'.hash = pass.hash /\ pass'.moves = pass.moves
    BY <1>1, <1>2 DEF TypeOK, Pass
  <2>2. Awaiting' \subseteq Awaiting
    BY <1>1, <2>1 DEF Awaiting
  <2>3. /\ \A p \in Paths : rows'[p] \in {rows[p], None}
        /\ \A k \in Links : links'[k] # None => links[k] # None /\ links'[k].c = links[k].c
        /\ \A p \in Paths : pass'.moves[p] \in {pass.moves[p], None}
        /\ pass'.hash \in {pass.hash, None}
    BY <1>1, <2>1
  <2>4. pass'.step \notin PushSteps /\ pass'.step \notin Applying
    BY <2>1 DEF Applying, PushSteps
  <2> QED BY <1>1, <1>2, <2>1, <2>2, <2>3, <2>4, Narrows
<1>3. ASSUME NEW p \in Paths, TrashLocal(p),
             pass' = [pass EXCEPT !.dels = @ \ {l}, !.path = p, !.step = "deleted"]
      PROVE  IInv'
  <2>1. /\ pass'.step = "deleted" /\ pass'.local = pass.local
        /\ pass'.read = pass.read /\ pass'.base = pass.base
        /\ pass'.staged = pass.staged /\ pass'.before = pass.before
        /\ pass'.hash = pass.hash
    BY <1>1, <1>3 DEF TypeOK, Pass
  <2>2. Awaiting' \subseteq Awaiting
    BY <1>1, <2>1 DEF Awaiting
  <2> QED BY <1>1, <1>3, <2>1, <2>2, TrashLocalStep
<1> QED BY <1>2, <1>3 DEF DeleteByID

LEMMA DeletesDoneStep ==
    ASSUME TypeOK, Locals, IInv, DeletesDone
    PROVE  IInv'
<1>1. /\ pass.step = "delete" /\ pass'.step \in {"list", "cursor"}
      /\ pass'.read = pass.read
      /\ pass'.local = pass.local /\ pass'.base = pass.base /\ pass'.staged = pass.staged
      /\ pass'.before = pass.before /\ pass'.hash = pass.hash /\ pass'.moves = pass.moves
  BY DEF DeletesDone, Goto, TypeOK, Pass
<1>2. UNCHANGED <<disk, trash, rows, links, vault, work, written>>
  BY DEF DeletesDone, Goto, machine, drive, ghosts
<1>3. /\ \A q \in Paths : pass'.moves[q] \in {pass.moves[q], None}
      /\ pass'.hash \in {pass.hash, None} /\ Awaiting' \subseteq Awaiting
  BY <1>1 DEF TypeOK, Pass, Awaiting
<1>4. /\ pass'.step \in PushSteps => pass.step \in PushSteps
      /\ pass'.step \in Applying => pass.step \in Applying
      /\ pass.step \notin {"commit", "record"}
      /\ pass'.step \notin {"baseline", "upload", "track", "preserve",
                            "commit", "record"}
  BY <1>1 DEF Applying, PushSteps
<1> QED BY <1>1, <1>2, <1>3, <1>4, PassNarrows

LEMMA ForgetStep ==
    ASSUME TypeOK, Locals, IInv, Forget
    PROVE  IInv'
<1>1. /\ pass.step \in {"deleted", "reaped"}
      /\ pass'.step = IF pass.step = "deleted" THEN "delete" ELSE "reap"
      /\ pass'.read = pass.read
      /\ pass'.local = pass.local /\ pass'.base = pass.base /\ pass'.staged = pass.staged
      /\ pass'.before = pass.before /\ pass'.hash = pass.hash /\ pass'.moves = pass.moves
  BY DEF Forget, Goto, TypeOK, Pass
<1>2. UNCHANGED <<disk, trash, vault, work, written>>
  BY DEF Forget, Goto, machine, drive, ghosts
<1>3. /\ \A q \in Paths : pass'.moves[q] \in {pass.moves[q], None}
      /\ pass'.hash \in {pass.hash, None} /\ Awaiting' \subseteq Awaiting
  BY <1>1 DEF TypeOK, Pass, Awaiting
<1>4. /\ pass'.step \in PushSteps => pass.step \in PushSteps
      /\ pass'.step \in Applying => pass.step \in Applying
      /\ pass.step \notin {"commit", "record"}
      /\ pass'.step \notin {"baseline", "upload", "track", "preserve",
                            "commit", "record"}
  BY <1>1 DEF Applying, PushSteps
<1>5. \A q \in Paths : rows'[q] \in {rows[q], None}
  BY DEF Forget, TypeOK, machine
<1>6. \A k \in Links : links'[k] # None =>
            links[k] # None /\ links'[k].c = links[k].c
  BY DEF Forget, drive
<1> QED BY <1>1, <1>2, <1>3, <1>4, <1>5, <1>6, Narrows

LEMMA ListStep == ASSUME TypeOK, Locals, IInv, List PROVE IInv'
<1> DEFINE ids == {x \in Links : links[x] # None /\ links[x].live}
           kids == {[id |-> l, name |-> links[l].name, c |-> links[l].c] : l \in ids}
<1>1. /\ pass.step = "list" /\ pass'.step = "apply" /\ pass'.todo = kids
      /\ pass'.read = pass.read
      /\ pass'.local = pass.local /\ pass'.base = pass.base /\ pass'.staged = pass.staged
      /\ pass'.before = pass.before /\ pass'.hash = pass.hash /\ pass'.moves = pass.moves
  BY DEF List, TypeOK, Pass
<1>2. UNCHANGED <<disk, trash, rows, links, vault, work, written>>
  BY DEF List, machine, drive, ghosts
<1>3. Awaiting' \subseteq Awaiting
  <2>1. \A n \in kids : n.name \in Paths
    <3>1. \A l \in ids : links[l] \in Link
      BY DEF TypeOK
    <3>2. \A l \in ids : links[l].name \in Paths
      BY <3>1 DEF Link
    <3> QED BY <3>2
  <2> HIDE DEF kids
  <2>2. Awaiting' = {n.name : n \in kids} /\ Awaiting = Paths
    BY <1>1 DEF Awaiting
  <2> QED BY <2>1, <2>2
<1>4. /\ \A p \in Paths : rows'[p] \in {rows[p], None}
      /\ \A l \in Links : links'[l] # None => links[l] # None /\ links'[l].c = links[l].c
      /\ \A p \in Paths : pass'.moves[p] \in {pass.moves[p], None}
      /\ pass'.hash \in {pass.hash, None}
  BY <1>1, <1>2
<1>5. pass'.step \notin PushSteps /\ pass'.step \notin Applying
  BY <1>1 DEF Applying, PushSteps
<1> QED BY <1>1, <1>2, <1>3, <1>4, <1>5, Narrows

LEMMA ApplySkipStep ==
    ASSUME TypeOK, Locals, IInv, NEW n \in pass.todo, ApplySkip(n)
    PROVE  IInv'
<1>1. /\ pass.step = "apply" /\ pass'.step = "apply"
      /\ pass'.read = pass.read
      /\ pass'.local = pass.local /\ pass'.base = pass.base /\ pass'.staged = pass.staged
      /\ pass'.before = pass.before /\ pass'.hash = pass.hash /\ pass'.moves = pass.moves
      /\ pass'.todo = pass.todo \ {n}
  BY DEF ApplySkip, Goto, TypeOK, Pass
<1>2. UNCHANGED <<disk, trash, rows, links, vault, work, written>>
  BY DEF ApplySkip, Goto, machine, drive, ghosts
<1>3. /\ \A q \in Paths : pass'.moves[q] \in {pass.moves[q], None}
      /\ pass'.hash \in {pass.hash, None} /\ Awaiting' \subseteq Awaiting
  BY <1>1 DEF TypeOK, Pass, Awaiting
<1>4. /\ pass'.step \in PushSteps => pass.step \in PushSteps
      /\ pass'.step \in Applying => pass.step \in Applying
      /\ pass.step \notin {"commit", "record"}
      /\ pass'.step \notin {"baseline", "upload", "track", "preserve",
                            "commit", "record"}
  BY <1>1 DEF Applying, PushSteps
<1> QED BY <1>1, <1>2, <1>3, <1>4, PassNarrows

(* What is staged is in the vault: Drive served it (Download).             *)
LEMMA DownloadStep ==
    ASSUME TypeOK, Locals, IInv, NEW n \in pass.todo, Download(n) PROVE IInv'
<1>1. /\ pass.step = "apply" /\ pass'.step = "preserve"
      /\ pass'.todo = pass.todo \ {n} /\ pass'.node = n /\ pass'.staged = links[n.id].c
      /\ pass'.read = pass.read
      /\ pass'.local = pass.local /\ pass'.base = pass.base
      /\ pass'.before = pass.before /\ pass'.hash = pass.hash
  BY DEF Download, TypeOK, Pass
<1>2. UNCHANGED <<disk, trash, rows, links, vault, work, written>>
  BY DEF Download, drive, ghosts
<1>3. /\ NothingDiscarded' /\ BaselineVouchesForSafe' /\ ServedIsKept' /\ UniqueInodes'
      /\ RenamedIsSafe'
  BY <1>1, <1>2, SameMachine
<1>4. n.id \in Links /\ links[n.id] # None
  BY <1>1 DEF TypeOK, Pass, Node, Locals, ApplyLocals, KnownLinks
<1>5. links[n.id].c \in vault /\ links[n.id].c \in written
  BY <1>4 DEF IInv, ServedIsKept, MentionedIsWritten
<1>6. MentionedIsWritten'
  BY <1>1, <1>2, <1>5 DEF IInv, MentionedIsWritten
<1>7. ReplacedIsSafe'
  BY <1>1, <1>2, <1>5 DEF ReplacedIsSafe
<1>8. ScanIsCurrent'
  <2>1. Awaiting' = {m.name : m \in pass.todo \ {n}} \cup {n.name}
    BY <1>1 DEF Awaiting
  <2>2. Awaiting = {m.name : m \in pass.todo}
    BY <1>1 DEF Awaiting
  <2>3. Awaiting' \subseteq Awaiting
    BY <2>1, <2>2
  <2> QED BY <1>1, <1>2, <2>3 DEF IInv, ScanIsCurrent, Safe
<1>9. PushScanIsCurrent' /\ MovedIsSafe' /\ UploadedIsSafe'
  BY <1>1 DEF PushScanIsCurrent, MovedIsSafe, UploadedIsSafe, Applying, PushSteps
<1> QED BY <1>3, <1>6, <1>7, <1>8, <1>9 DEF IInv

LEMMA DownloadGoneStep ==
    ASSUME TypeOK, Locals, IInv, NEW n \in pass.todo, DownloadGone(n)
    PROVE  IInv'
<1>1. /\ pass.step = "apply" /\ pass'.step = "apply"
      /\ pass'.read = pass.read
      /\ pass'.local = pass.local /\ pass'.base = pass.base /\ pass'.staged = pass.staged
      /\ pass'.before = pass.before /\ pass'.hash = pass.hash /\ pass'.moves = pass.moves
      /\ pass'.todo = pass.todo \ {n}
  BY DEF DownloadGone, DownloadError, Goto, TypeOK, Pass
<1>2. UNCHANGED <<disk, trash, rows, links, vault, work, written>>
  BY DEF DownloadGone, DownloadError, Goto, machine, drive, ghosts
<1>3. /\ \A q \in Paths : pass'.moves[q] \in {pass.moves[q], None}
      /\ pass'.hash \in {pass.hash, None} /\ Awaiting' \subseteq Awaiting
  BY <1>1 DEF TypeOK, Pass, Awaiting
<1>4. /\ pass'.step \in PushSteps => pass.step \in PushSteps
      /\ pass'.step \in Applying => pass.step \in Applying
      /\ pass.step \notin {"commit", "record"}
      /\ pass'.step \notin {"baseline", "upload", "track", "preserve",
                            "commit", "record"}
  BY <1>1 DEF Applying, PushSteps
<1> QED BY <1>1, <1>2, <1>3, <1>4, PassNarrows

(* A conflicting file moves to its copy; any other is safe to replace      *)
(* (Preserve).                                                             *)
LEMMA PreserveStep == ASSUME TypeOK, Locals, IInv, Preserve PROVE IInv'
<1> DEFINE p == pass.node.name
<1>1. /\ pass.step = "preserve" /\ pass'.step = "commit"
      /\ pass'.todo = pass.todo /\ pass'.node = pass.node /\ pass'.staged = pass.staged
      /\ pass'.read = pass.read
      /\ pass'.local = pass.local /\ pass'.base = pass.base
      /\ pass'.before = pass.before /\ pass'.hash = pass.hash
  BY DEF Preserve, Goto, TypeOK, Pass
<1>2. UNCHANGED <<trash, rows, links, vault, work, written>>
  BY DEF Preserve, drive, ghosts
<1>3. /\ p \in Paths /\ pass.staged \in vault
      /\ pass.staged # None /\ pass.staged \in written
  BY <1>1 DEF Locals, ApplyLocals, Node, IInv, ReplacedIsSafe, MentionedIsWritten
<1>4. PushScanIsCurrent' /\ MovedIsSafe' /\ UploadedIsSafe'
  BY <1>1 DEF PushScanIsCurrent, MovedIsSafe, UploadedIsSafe, Applying, PushSteps
<1>5. Awaiting' \subseteq Awaiting /\ p \in Awaiting
  <2>1. Awaiting' = {n.name : n \in pass.todo}
    BY <1>1 DEF Awaiting
  <2>2. Awaiting = {n.name : n \in pass.todo} \cup {p}
    BY <1>1 DEF Awaiting
  <2> QED BY <2>1, <2>2
<1>6. BaselineVouchesForSafe' /\ ServedIsKept'
  BY <1>2 DEF IInv, BaselineVouchesForSafe, ServedIsKept, Safe
<1>7. CASE Conflicting(p) /\ disk[p] # None
  <2>1. PICK k \in NewCopies : disk' = [disk EXCEPT ![k] = disk[p], ![p] = None]
    BY <1>7, OneOfIn DEF Preserve
  <2>2. k \in Paths /\ k # p /\ disk[k] = None /\ \A n \in pass.kids : n.name # k
    BY <1>7, <2>1 DEF NewCopies, Paths
  <2>3. /\ disk'[k] = disk[p] /\ disk'[p] = None
        /\ \A q \in Paths : q \notin {k, p} => disk'[q] = disk[q]
    BY <1>3, <2>1, <2>2 DEF TypeOK
  <2>4. NothingDiscarded'
    <3>1. ASSUME NEW x \in OnDisk PROVE x \in OnDisk'
      <4>1. PICK q \in Paths : disk[q] # None /\ x = disk[q].c
        BY DEF OnDisk
      <4>2. CASE q = p
        BY <1>7, <2>2, <2>3, <4>1, <4>2 DEF OnDisk
      <4>3. CASE q # p
        BY <2>2, <2>3, <4>1, <4>3 DEF OnDisk
      <4> QED BY <4>2, <4>3
    <3> QED BY <1>2, <3>1 DEF IInv, NothingDiscarded
  <2>5. MentionedIsWritten'
    BY <1>1, <1>2, <1>3, <1>7, <2>2, <2>3 DEF IInv, MentionedIsWritten
  <2>6. UniqueInodes'
    BY <1>3, <1>7, <2>2, <2>3 DEF IInv, UniqueInodes
  <2>7. RenamedIsSafe'
    <3>1. SUFFICES ASSUME NEW r \in Paths, NEW q \in Paths, rows[r] # None,
                          disk'[q] # None, r # q, rows[r].ino = disk'[q].ino,
                          r # p
                   PROVE  Safe(disk'[q].c)
      BY <1>1, <1>2 DEF RenamedIsSafe, Safe
    <3>2. CASE q = k
      BY <1>1, <1>3, <1>7, <2>3, <3>1, <3>2 DEF IInv, RenamedIsSafe
    <3>3. CASE q # k
      BY <1>1, <2>3, <3>1, <3>3 DEF IInv, RenamedIsSafe
    <3> QED BY <3>2, <3>3
  <2>8. ScanIsCurrent'
    <3>1. k \notin Awaiting'
      BY <1>1, <2>2 DEF Awaiting, Locals, ApplyLocals
    <3>2. \A q \in Awaiting' : q \in Paths
      BY <1>1 DEF Awaiting, Locals, ApplyLocals, TypeOK, Pass, Node
    <3> QED BY <1>1, <1>2, <1>5, <2>3, <3>1, <3>2 DEF IInv, ScanIsCurrent, Safe
  <2>9. ReplacedIsSafe'
    BY <1>1, <1>2, <1>3, <2>3 DEF ReplacedIsSafe
  <2> QED BY <1>4, <1>6, <2>4, <2>5, <2>6, <2>7, <2>8, <2>9 DEF IInv
<1>8. CASE ~(Conflicting(p) /\ disk[p] # None)
  <2>1. UNCHANGED disk
    BY <1>8 DEF Preserve
  <2>2. NothingDiscarded' /\ UniqueInodes' /\ RenamedIsSafe'
    BY <1>1, <1>2, <2>1 DEF IInv, NothingDiscarded, OnDisk, UniqueInodes, RenamedIsSafe,
       Safe
  <2>3. MentionedIsWritten'
    BY <1>1, <1>2, <2>1 DEF IInv, MentionedIsWritten
  <2>4. ScanIsCurrent'
    BY <1>1, <1>2, <1>5, <2>1 DEF IInv, ScanIsCurrent, Safe
  <2>5. ASSUME disk[p] # None PROVE Safe(disk[p].c)
    <3>1. Safe(disk[p].c) \/ pass.before[p] = disk[p].c
      BY <1>5, <2>5 DEF IInv, ScanIsCurrent
    <3>2. disk[p].c # None
      BY <1>3, <2>5, NoneAssumption DEF TypeOK, File
    <3>3. ASSUME pass.before[p] = disk[p].c
          PROVE  \/ rows[p] # None /\ rows[p].hash = disk[p].c
                 \/ disk[p].c = pass.staged
      BY <1>8, <2>5, <3>2, <3>3 DEF Conflicting
    <3> QED BY <1>3, <3>1, <3>3 DEF IInv, BaselineVouchesForSafe, Safe
  <2>6. ReplacedIsSafe'
    BY <1>1, <1>2, <1>3, <2>1, <2>5 DEF ReplacedIsSafe, Safe
  <2> QED BY <1>4, <1>6, <2>2, <2>3, <2>4, <2>6 DEF IInv
<1> QED BY <1>7, <1>8

(* The file the rename replaces is safe, what it puts there is in the      *)
(* vault (Commit).                                                         *)
LEMMA CommitStep == ASSUME TypeOK, Locals, IInv, Commit PROVE IInv'
<1> DEFINE p == pass.node.name
<1>1. /\ pass.step = "commit" /\ pass'.step = "record"
      /\ pass'.todo = pass.todo /\ pass'.node = pass.node /\ pass'.staged = pass.staged
      /\ pass'.read = pass.read
      /\ pass'.local = pass.local /\ pass'.base = pass.base
      /\ pass'.before = pass.before /\ pass'.hash = pass.hash
  BY DEF Commit, Goto, TypeOK, Pass
<1>2. UNCHANGED <<trash, rows, links, vault, work, written>>
  BY DEF Commit, drive
<1>3. /\ p \in Paths /\ pass.staged \in vault
      /\ pass.staged # None /\ pass.staged \in written
      /\ disk[p] # None => Safe(disk[p].c)
  BY <1>1 DEF Locals, ApplyLocals, Node, IInv, ReplacedIsSafe, MentionedIsWritten
<1>4. PICK i \in NewInodes : disk' = [disk EXCEPT ![p] = [c |-> pass.staged, ino |-> i]]
  BY OneOfIn DEF Commit
<1>5. /\ disk'[p] # None /\ disk'[p].c = pass.staged /\ disk'[p].ino = i
      /\ \A q \in Paths : q # p => disk'[q] = disk[q]
  <2>1. [c |-> pass.staged, ino |-> i] \in File
    BY <1>3, <1>4 DEF File, NewInodes, TypeOK, Pass
  <2> QED BY <1>3, <1>4, <2>1, NoneAssumption DEF TypeOK
<1>6. PushScanIsCurrent' /\ MovedIsSafe' /\ UploadedIsSafe'
  BY <1>1 DEF PushScanIsCurrent, MovedIsSafe, UploadedIsSafe, Applying, PushSteps
<1>7. BaselineVouchesForSafe' /\ ServedIsKept'
  BY <1>2 DEF IInv, BaselineVouchesForSafe, ServedIsKept, Safe
<1>8. NothingDiscarded'
  <2>1. SUFFICES ASSUME NEW x \in work, x \in OnDisk, x \notin trash, x \notin vault
                 PROVE  x \in OnDisk'
    BY <1>2 DEF IInv, NothingDiscarded
  <2>2. PICK q \in Paths : disk[q] # None /\ x = disk[q].c
    BY <2>1 DEF OnDisk
  <2>3. q # p
    BY <1>3, <2>1, <2>2 DEF Safe
  <2> QED BY <1>5, <2>2, <2>3 DEF OnDisk
<1>9. MentionedIsWritten'
  BY <1>1, <1>2, <1>3, <1>5 DEF IInv, MentionedIsWritten
<1>10. UniqueInodes'
  BY <1>4, <1>5 DEF IInv, UniqueInodes, NewInodes
<1>11. RenamedIsSafe'
  BY <1>1, <1>2, <1>4, <1>5 DEF IInv, RenamedIsSafe, NewInodes, Safe
<1>12. ScanIsCurrent'
  <2>1. Awaiting' = Awaiting
    BY <1>1 DEF Awaiting
  <2>2. \A q \in Awaiting : q \in Paths
    BY <1>1 DEF Awaiting, Locals, ApplyLocals, TypeOK, Pass, Node
  <2> QED BY <1>1, <1>2, <1>3, <1>5, <2>1, <2>2 DEF IInv, ScanIsCurrent, Safe
<1>13. ReplacedIsSafe'
  BY <1>1, <1>2, <1>3, <1>5 DEF ReplacedIsSafe
<1> QED BY <1>6, <1>7, <1>8, <1>9, <1>10, <1>11, <1>12, <1>13 DEF IInv

(* The row vouches for what was staged (Record).                           *)
LEMMA RecordStep == ASSUME TypeOK, Locals, IInv, Record PROVE IInv'
<1> DEFINE p == pass.node.name
<1>1. /\ pass.step = "record" /\ pass'.step = "apply"
      /\ pass'.todo = pass.todo /\ pass'.staged = None
      /\ pass'.read = pass.read
      /\ pass'.local = pass.local /\ pass'.base = pass.base
      /\ pass'.before = pass.before /\ pass'.hash = pass.hash
  BY DEF Record, TypeOK, Pass
<1>2. UNCHANGED <<disk, trash, links, vault, work, written>>
  BY DEF Record, drive, ghosts
<1>3. /\ p \in Paths /\ pass.node.id \in Links /\ pass.staged \in vault
      /\ pass.staged # None /\ pass.staged \in written
      /\ disk[p] # None /\ disk[p].c = pass.staged
  BY <1>1 DEF Locals, ApplyLocals, Node, IInv, ReplacedIsSafe, MentionedIsWritten
<1> DEFINE r == [id |-> pass.node.id, hash |-> pass.staged,
                 stamp |-> pass.staged, ino |-> disk[p].ino]
<1>4. rows' = [rows EXCEPT ![p] = r]
  BY <1>3 DEF Record
<1>5. /\ \A q \in Paths : q # p => rows'[q] = rows[q]
      /\ rows'[p].hash = pass.staged /\ rows'[p].stamp = pass.staged
      /\ rows'[p].ino = disk[p].ino
  BY <1>3, <1>4 DEF TypeOK
<1>6. PushScanIsCurrent' /\ MovedIsSafe' /\ UploadedIsSafe' /\ ReplacedIsSafe'
  BY <1>1 DEF PushScanIsCurrent, MovedIsSafe, UploadedIsSafe, ReplacedIsSafe, Applying,
     PushSteps
<1>7. NothingDiscarded' /\ ServedIsKept' /\ UniqueInodes'
  BY <1>2 DEF IInv, NothingDiscarded, OnDisk, ServedIsKept, UniqueInodes
<1>8. BaselineVouchesForSafe'
  BY <1>2, <1>3, <1>5 DEF IInv, BaselineVouchesForSafe, Safe
<1>9. MentionedIsWritten'
  BY <1>1, <1>2, <1>3, <1>5 DEF IInv, MentionedIsWritten
<1>10. RenamedIsSafe'
  BY <1>2, <1>3, <1>5 DEF IInv, RenamedIsSafe, UniqueInodes, Safe
<1>11. ScanIsCurrent'
  <2>1. Awaiting' = Awaiting
    BY <1>1 DEF Awaiting
  <2> QED BY <1>1, <1>2, <2>1 DEF IInv, ScanIsCurrent, Safe
<1> QED BY <1>6, <1>7, <1>8, <1>9, <1>10, <1>11 DEF IInv

LEMMA FindStaleStep ==
    ASSUME TypeOK, Locals, IInv, FindStale
    PROVE  IInv'
<1>1. /\ pass.step = "apply" /\ pass'.step = "reap"
      /\ pass'.read = pass.read
      /\ pass'.local = pass.local /\ pass'.base = pass.base /\ pass'.staged = pass.staged
      /\ pass'.before = pass.before /\ pass'.hash = pass.hash /\ pass'.moves = pass.moves
  BY DEF FindStale, Goto, TypeOK, Pass
<1>2. UNCHANGED <<disk, trash, rows, links, vault, work, written>>
  BY DEF FindStale, Goto, machine, drive, ghosts
<1>3. /\ \A q \in Paths : pass'.moves[q] \in {pass.moves[q], None}
      /\ pass'.hash \in {pass.hash, None} /\ Awaiting' \subseteq Awaiting
  BY <1>1 DEF TypeOK, Pass, Awaiting
<1>4. /\ pass'.step \in PushSteps => pass.step \in PushSteps
      /\ pass'.step \in Applying => pass.step \in Applying
      /\ pass.step \notin {"commit", "record"}
      /\ pass'.step \notin {"baseline", "upload", "track", "preserve",
                            "commit", "record"}
  BY <1>1 DEF Applying, PushSteps
<1> QED BY <1>1, <1>2, <1>3, <1>4, PassNarrows

LEMMA ReapStep ==
    ASSUME TypeOK, Locals, IInv, NEW p \in Paths, Reap(p) PROVE IInv'
<1>1. /\ pass.step = "reap" /\ TrashLocal(p)
      /\ UNCHANGED <<rows, links, vault, work, written>>
      /\ pass' = [pass EXCEPT !.doomed = @ \ {p}, !.path = p, !.step = "reaped"]
  BY DEF Reap, drive, ghosts
<1>2. /\ pass'.step = "reaped" /\ pass'.local = pass.local
      /\ pass'.read = pass.read /\ pass'.base = pass.base
      /\ pass'.staged = pass.staged /\ pass'.before = pass.before
      /\ pass'.hash = pass.hash
  BY <1>1 DEF TypeOK, Pass
<1>3. Awaiting' \subseteq Awaiting
  BY <1>2 DEF Awaiting
<1> QED BY <1>1, <1>2, <1>3, TrashLocalStep

LEMMA ReapDoneStep == ASSUME TypeOK, Locals, IInv, ReapDone PROVE IInv'
<1>1. /\ pass.step = "reap"
      /\ UNCHANGED <<disk, trash, rows, links, vault, work, written>>
  BY DEF ReapDone, machine, drive, ghosts
<1>2. CASE pass' = NoPass
  BY <1>1, <1>2, Resets
<1>3. CASE pass' = [pass EXCEPT !.step = "cursor"]
  <2>1. /\ pass'.step = "cursor" /\ pass'.local = pass.local
        /\ pass'.read = pass.read /\ pass'.base = pass.base
        /\ pass'.staged = pass.staged /\ pass'.before = pass.before
        /\ pass'.hash = pass.hash /\ pass'.moves = pass.moves
    BY <1>3 DEF TypeOK, Pass
  <2>2. Awaiting' \subseteq Awaiting
    BY <2>1 DEF Awaiting
  <2>3. /\ \A p \in Paths : rows'[p] \in {rows[p], None}
        /\ \A k \in Links : links'[k] # None => links[k] # None /\ links'[k].c = links[k].c
        /\ \A p \in Paths : pass'.moves[p] \in {pass.moves[p], None}
        /\ pass'.hash \in {pass.hash, None}
    BY <1>1, <2>1
  <2>4. pass'.step \notin PushSteps /\ pass'.step \notin Applying
    BY <2>1 DEF Applying, PushSteps
  <2> QED BY <1>1, <2>1, <2>2, <2>3, <2>4, Narrows
<1> QED BY <1>2, <1>3 DEF ReapDone

LEMMA SaveCursorStep == ASSUME TypeOK, Locals, IInv, SaveCursor PROVE IInv'
<1>1. /\ pass.step = "cursor"
      /\ UNCHANGED <<disk, trash, rows, links, vault, work, written>>
  BY DEF SaveCursor, drive, ghosts
<1>2. CASE pass.push
  BY <1>1, <1>2, Resets DEF SaveCursor
<1>3. CASE ~pass.push
  <2>1. pass' = [NoPass EXCEPT !.step = "idle"]
    BY <1>3 DEF SaveCursor
  <2>2. pass' = NoPass
    BY <2>1 DEF NoPass
  <2> QED BY <1>1, <2>2, Resets
<1> QED BY <1>2, <1>3

(* Every step of a pull.                                                   *)
LEMMA PullStep == ASSUME TypeOK, Locals, IInv, Pull PROVE IInv'
  BY PollEventsStep, StartWalkStep, DeletesDoneStep, ForgetStep, ListStep,
     DeleteByIDStep, ApplySkipStep, DownloadStep, DownloadGoneStep,
     PreserveStep, CommitStep, RecordStep, FindStaleStep, ReapStep,
     ReapDoneStep, SaveCursorStep
  DEF Pull

-----------------------------------------------------------------------------
(* The scan the push goes by is exact when it is made (Rescan).            *)
LEMMA RescanStep == ASSUME TypeOK, IInv, Rescan PROVE IInv'
<1>1. /\ pass.step = "rescan" /\ pass'.step = "baseline" /\ pass'.local = disk
      /\ pass'.read = pass.read
      /\ pass'.base = pass.base /\ pass'.staged = pass.staged /\ pass'.hash = pass.hash
  BY DEF Rescan, TypeOK, Pass
<1>2. UNCHANGED <<disk, trash, rows, links, vault, work, written>>
  BY DEF Rescan, machine, drive, ghosts
<1>3. /\ NothingDiscarded' /\ BaselineVouchesForSafe' /\ ServedIsKept' /\ UniqueInodes'
      /\ RenamedIsSafe'
  BY <1>1, <1>2, SameMachine
<1>4. MentionedIsWritten'
  BY <1>1, <1>2 DEF IInv, MentionedIsWritten
<1>5. ScanIsCurrent' /\ ReplacedIsSafe' /\ UploadedIsSafe'
  BY <1>1 DEF ScanIsCurrent, Awaiting, ReplacedIsSafe, UploadedIsSafe
<1>6. PushScanIsCurrent'
  BY <1>1, <1>2 DEF IInv, UniqueInodes, PushScanIsCurrent, Applying
<1>7. MovedIsSafe'
  BY <1>1, <1>2 DEF IInv, RenamedIsSafe, MovedIsSafe, Safe, Applying
<1> QED BY <1>3, <1>4, <1>5, <1>6, <1>7 DEF IInv

(* A move is recognised by an inode or a hash that is safe to vouch for    *)
(* (Baseline).                                                             *)
LEMMA BaselineStep == ASSUME TypeOK, IInv, Baseline PROVE IInv'
<1>1. PICK m \in Matchings(rows), r \in [Paths -> Contents \cup {None}] :
         /\ r \in ReadHashes(rows, m)
         /\ LET moved == {p \in DOMAIN m : m[p] # None} IN
             pass' = [pass EXCEPT
                !.step = "move", !.base = rows, !.read = r,
                !.moves = [p \in Paths |-> IF p \in moved THEN m[p] ELSE None],
                !.doomed = DOMAIN m \ moved,
                !.todo = {p \in Paths : pass.local[p] # None}
                            \ {m[p] : p \in moved}]
  BY DEF Baseline, ReadHashes
<1>2. /\ pass.step = "baseline" /\ pass'.step = "move" /\ pass'.base = rows
      /\ pass'.moves = [p \in Paths |->
                         IF p \in {q \in DOMAIN m : m[q] # None} THEN m[p] ELSE None]
      /\ pass'.read = r /\ pass.local = disk
      /\ pass'.local = pass.local /\ pass'.staged = pass.staged /\ pass'.hash = pass.hash
  BY <1>1 DEF Baseline, TypeOK, Pass, ReadHashes, IInv, PushScanIsCurrent
<1>3. UNCHANGED <<disk, trash, rows, links, vault, work, written>>
  BY DEF Baseline, machine, drive, ghosts
<1>4. ASSUME NEW p \in Paths, pass'.moves[p] # None
      PROVE  Safe(pass.local[pass'.moves[p]].c)
  <2>1. /\ pass'.moves[p] = m[p] /\ p \in DOMAIN m
        /\ m \in [Missing(rows) -> Candidates(rows) \cup {None}]
    BY <1>2, <1>4 DEF Matchings
  <2>2. p \in Missing(rows) /\ m[p] \in Candidates(rows)
    BY <1>4, <2>1
  <2>3. Matches(rows[p], m[p])
    BY <1>4, <2>1, <2>2 DEF Matchings
  <2>4. /\ rows[p] # None /\ pass.local[p] = None
        /\ m[p] \in Paths /\ pass.local[m[p]] # None
    BY <2>2 DEF Missing, Candidates
  <2>5. CASE rows[p].ino = pass.local[m[p]].ino
    BY <1>2, <2>1, <2>4, <2>5 DEF IInv, MovedIsSafe
  <2>6. CASE rows[p].hash = pass.local[m[p]].c
    BY <2>1, <2>4, <2>6 DEF IInv, BaselineVouchesForSafe
  <2> QED BY <1>2, <2>3, <2>5, <2>6 DEF Matches, SameBytes
<1>r. \A p \in Paths : r[p] # None =>
         pass.local[p] # None /\ r[p] = pass.local[p].c
  BY <1>1, <1>2 DEF ReadHashes, HeldAt
<1>5. /\ NothingDiscarded' /\ BaselineVouchesForSafe' /\ ServedIsKept' /\ UniqueInodes'
      /\ RenamedIsSafe'
  BY <1>2, <1>3, SameMachine
<1>6. MentionedIsWritten'
  BY <1>2, <1>3, <1>r DEF IInv, MentionedIsWritten
<1>7. ScanIsCurrent' /\ ReplacedIsSafe' /\ UploadedIsSafe'
  BY <1>2 DEF ScanIsCurrent, Awaiting, ReplacedIsSafe, UploadedIsSafe
<1>8. PushScanIsCurrent'
  BY <1>2, <1>3, <1>r DEF IInv, PushScanIsCurrent, PushSteps, Safe
<1>9. MovedIsSafe'
  BY <1>2, <1>3, <1>4 DEF IInv, BaselineVouchesForSafe, MovedIsSafe, Safe
<1> QED BY <1>5, <1>6, <1>7, <1>8, <1>9 DEF IInv

LEMMA MoveRemoteStep ==
    ASSUME TypeOK, Locals, IInv, NEW p \in Paths, MoveRemote(p)
    PROVE  IInv'
<1>1. /\ pass.step = "move" /\ pass'.step = "drop"
      /\ pass'.read = pass.read
      /\ pass'.local = pass.local /\ pass'.base = pass.base /\ pass'.staged = pass.staged
      /\ pass'.before = pass.before /\ pass'.hash = pass.hash /\ pass'.moves = pass.moves
  BY DEF MoveRemote, Goto, TypeOK, Pass
<1>2. UNCHANGED <<disk, trash, vault, work, written>>
  BY DEF MoveRemote, Goto, machine, drive, ghosts
<1>3. /\ \A q \in Paths : pass'.moves[q] \in {pass.moves[q], None}
      /\ pass'.hash \in {pass.hash, None} /\ Awaiting' \subseteq Awaiting
  BY <1>1 DEF TypeOK, Pass, Awaiting
<1>4. /\ pass'.step \in PushSteps => pass.step \in PushSteps
      /\ pass'.step \in Applying => pass.step \in Applying
      /\ pass.step \notin {"commit", "record"}
      /\ pass'.step \notin {"baseline", "upload", "track", "preserve",
                            "commit", "record"}
  BY <1>1 DEF Applying, PushSteps
<1>5. \A q \in Paths : rows'[q] \in {rows[q], None}
  BY DEF MoveRemote, TypeOK, machine
<1>6. \A k \in Links : links'[k] # None =>
            links[k] # None /\ links'[k].c = links[k].c
  <2>1. links' = [links EXCEPT ![pass.base[p].id].name = pass.moves[p]]
    BY DEF MoveRemote
  <2>2. pass.base[p].id \in Links /\ links[pass.base[p].id] \in Link
    BY NoneAssumption DEF MoveRemote, TypeOK, Pass, Row, Locals, PushLocals,
       KnownLinks, Applying, PushSteps
  <2>3. [links[pass.base[p].id] EXCEPT !.name = pass.moves[p]].c
           = links[pass.base[p].id].c
    BY <2>2 DEF Link
  <2>4. links[pass.base[p].id] # None
    BY <2>2, NoneAssumption
  <2> QED BY <2>1, <2>2, <2>3, <2>4 DEF TypeOK
<1> QED BY <1>1, <1>2, <1>3, <1>4, <1>5, <1>6, Narrows

LEMMA MoveRefusedStep ==
    ASSUME TypeOK, Locals, IInv, NEW p \in Paths, MoveRefused(p)
    PROVE  IInv'
<1>1. /\ pass.step = "move" /\ pass'.step = "move"
      /\ pass'.read = pass.read
      /\ pass'.local = pass.local /\ pass'.base = pass.base /\ pass'.staged = pass.staged
      /\ pass'.before = pass.before /\ pass'.hash = pass.hash
      /\ pass'.moves = [pass.moves EXCEPT ![p] = None]
  BY DEF MoveRefused, MoveError, Goto, TypeOK, Pass
<1>2. UNCHANGED <<disk, trash, rows, links, vault, work, written>>
  BY DEF MoveRefused, MoveError, Goto, machine, drive, ghosts
<1>3. /\ \A q \in Paths : pass'.moves[q] \in {pass.moves[q], None}
      /\ pass'.hash \in {pass.hash, None} /\ Awaiting' \subseteq Awaiting
  BY <1>1 DEF TypeOK, Pass, Awaiting
<1>4. /\ pass'.step \in PushSteps => pass.step \in PushSteps
      /\ pass'.step \in Applying => pass.step \in Applying
      /\ pass.step \notin {"commit", "record"}
      /\ pass'.step \notin {"baseline", "upload", "track", "preserve",
                            "commit", "record"}
  BY <1>1 DEF Applying, PushSteps
<1> QED BY <1>1, <1>2, <1>3, <1>4, PassNarrows

LEMMA DropRowStep ==
    ASSUME TypeOK, Locals, IInv, DropRow
    PROVE  IInv'
<1>1. /\ pass.step = "drop" /\ pass'.step = "replace"
      /\ pass'.read = pass.read
      /\ pass'.local = pass.local /\ pass'.base = pass.base /\ pass'.staged = pass.staged
      /\ pass'.before = pass.before /\ pass'.hash = pass.hash /\ pass'.moves = pass.moves
  BY DEF DropRow, Goto, TypeOK, Pass
<1>2. UNCHANGED <<disk, trash, vault, work, written>>
  BY DEF DropRow, Goto, machine, drive, ghosts
<1>3. /\ \A q \in Paths : pass'.moves[q] \in {pass.moves[q], None}
      /\ pass'.hash \in {pass.hash, None} /\ Awaiting' \subseteq Awaiting
  BY <1>1 DEF TypeOK, Pass, Awaiting
<1>4. /\ pass'.step \in PushSteps => pass.step \in PushSteps
      /\ pass'.step \in Applying => pass.step \in Applying
      /\ pass.step \notin {"commit", "record"}
      /\ pass'.step \notin {"baseline", "upload", "track", "preserve",
                            "commit", "record"}
  BY <1>1 DEF Applying, PushSteps
<1>5. \A q \in Paths : rows'[q] \in {rows[q], None}
  BY DEF DropRow, TypeOK, machine
<1>6. \A k \in Links : links'[k] # None =>
            links[k] # None /\ links'[k].c = links[k].c
  BY DEF DropRow, drive
<1> QED BY <1>1, <1>2, <1>3, <1>4, <1>5, <1>6, Narrows

(* One row is written for the file at p as scanned.                        *)
LEMMA RowWritten ==
    ASSUME TypeOK, IInv, UNCHANGED <<disk, trash, links, vault, work, written>>,
           NEW p \in Paths, NEW r \in Row, rows' = [rows EXCEPT ![p] = r],
           Safe(r.hash), Safe(r.stamp), r.hash \in written, r.stamp \in written,
           \A q \in Paths : disk[q] # None /\ disk[q].ino = r.ino => q = p,
           pass.step \in Applying, pass'.step \in {"move", "push"},
           pass'.read = pass.read,
           pass'.local = pass.local, pass'.base = pass.base,
           pass'.staged = pass.staged, pass'.hash \in {pass.hash, None},
           \A q \in Paths : pass'.moves[q] \in {pass.moves[q], None}
    PROVE  IInv'
<1>1. \A q \in Paths : rows'[q] = IF q = p THEN r ELSE rows[q]
  BY DEF TypeOK
<1>2. NothingDiscarded' /\ ServedIsKept' /\ UniqueInodes'
  BY DEF IInv, NothingDiscarded, ServedIsKept, UniqueInodes, OnDisk
<1>3. BaselineVouchesForSafe'
  BY <1>1 DEF IInv, BaselineVouchesForSafe, Safe
<1>4. MentionedIsWritten'
  BY <1>1 DEF IInv, MentionedIsWritten
<1>5. RenamedIsSafe'
  BY <1>1 DEF IInv, RenamedIsSafe, Safe, Applying, PushSteps
<1>6. ScanIsCurrent' /\ ReplacedIsSafe' /\ UploadedIsSafe'
  BY DEF ScanIsCurrent, Awaiting, ReplacedIsSafe, UploadedIsSafe
<1>7. PushScanIsCurrent' /\ MovedIsSafe'
  BY DEF IInv, PushScanIsCurrent, MovedIsSafe, Applying, Safe
<1> QED BY <1>2, <1>3, <1>4, <1>5, <1>6, <1>7 DEF IInv

(* The row of a moved file (ReplaceRow).                                   *)
LEMMA ReplaceRowStep == ASSUME TypeOK, Locals, IInv, ReplaceRow PROVE IInv'
<1> DEFINE old  == pass.base[pass.path]
           to   == pass.moves[pass.path]
           file == pass.local[to]
<1>1. /\ pass.step = "replace" /\ pass.path \in Paths /\ to \in Paths
      /\ old \in Row /\ file \in File
  BY NoneAssumption DEF ReplaceRow, TypeOK, Pass, Locals, PathLocals, PushLocals,
     Applying, PushSteps
<1>2. PICK h \in {old.hash, file.c} :
         rows' = [rows EXCEPT ![to] = [id |-> old.id, hash |-> h,
                                       stamp |-> file.c, ino |-> file.ino]]
  <2>1. pass.read[to] \in {None, file.c}
    BY <1>1 DEF IInv, PushScanIsCurrent, Applying, PushSteps
  <2> QED BY <2>1 DEF ReplaceRow
<1> DEFINE r == [id |-> old.id, hash |-> h, stamp |-> file.c, ino |-> file.ino]
<1>3. /\ r \in Row /\ r.hash = h /\ r.stamp = file.c /\ r.ino = file.ino
  BY <1>1 DEF Row, File
<1>4. Safe(old.hash) /\ Safe(file.c)
  BY <1>1, NoneAssumption DEF IInv, MovedIsSafe, Applying, PushSteps
<1>5. old.hash \in written /\ file.c \in written
  BY <1>1, NoneAssumption DEF IInv, MentionedIsWritten
<1>6. \A q \in Paths : disk[q] # None /\ disk[q].ino = file.ino => q = to
  BY <1>1, NoneAssumption DEF IInv, PushScanIsCurrent, PushSteps
<1>7. /\ pass'.step = "move" /\ pass'.local = pass.local
      /\ pass'.read = pass.read /\ pass'.base = pass.base
      /\ pass'.staged = pass.staged /\ pass'.hash = pass.hash
      /\ pass'.moves = [pass.moves EXCEPT ![pass.path] = None]
  BY DEF ReplaceRow, TypeOK, Pass
<1>8. \A q \in Paths : pass'.moves[q] \in {pass.moves[q], None}
  BY <1>7 DEF TypeOK, Pass
<1>9. UNCHANGED <<disk, trash, links, vault, work, written>>
  BY DEF ReplaceRow, drive, ghosts
<1>10. rows' = [rows EXCEPT ![to] = r]
  BY <1>2
<1>11. /\ pass.step \in Applying /\ pass'.hash \in {pass.hash, None}
       /\ pass'.step \in {"move", "push"}
  BY <1>1, <1>7 DEF Applying, PushSteps
<1>12. Safe(r.hash) /\ Safe(r.stamp) /\ r.hash \in written /\ r.stamp \in written
  BY <1>2, <1>3, <1>4, <1>5
<1>13. \A q \in Paths : disk[q] # None /\ disk[q].ino = r.ino => q = to
  BY <1>3, <1>6
<1> HIDE DEF r, to
<1> QED BY <1>1, <1>3, <1>7, <1>8, <1>9, <1>10, <1>11, <1>12, <1>13, RowWritten

LEMMA MovesDoneStep ==
    ASSUME TypeOK, Locals, IInv, MovesDone
    PROVE  IInv'
<1>1. /\ pass.step = "move" /\ pass'.step = "trash"
      /\ pass'.read = pass.read
      /\ pass'.local = pass.local /\ pass'.base = pass.base /\ pass'.staged = pass.staged
      /\ pass'.before = pass.before /\ pass'.hash = pass.hash /\ pass'.moves = pass.moves
  BY DEF MovesDone, Goto, TypeOK, Pass
<1>2. UNCHANGED <<disk, trash, rows, links, vault, work, written>>
  BY DEF MovesDone, Goto, machine, drive, ghosts
<1>3. /\ \A q \in Paths : pass'.moves[q] \in {pass.moves[q], None}
      /\ pass'.hash \in {pass.hash, None} /\ Awaiting' \subseteq Awaiting
  BY <1>1 DEF TypeOK, Pass, Awaiting
<1>4. /\ pass'.step \in PushSteps => pass.step \in PushSteps
      /\ pass'.step \in Applying => pass.step \in Applying
      /\ pass.step \notin {"commit", "record"}
      /\ pass'.step \notin {"baseline", "upload", "track", "preserve",
                            "commit", "record"}
  BY <1>1 DEF Applying, PushSteps
<1> QED BY <1>1, <1>2, <1>3, <1>4, PassNarrows

LEMMA TrashRemoteStep ==
    ASSUME TypeOK, Locals, IInv, NEW p \in Paths, TrashRemote(p)
    PROVE  IInv'
<1>1. /\ pass.step = "trash" /\ pass'.step = "untrack"
      /\ pass'.read = pass.read
      /\ pass'.local = pass.local /\ pass'.base = pass.base /\ pass'.staged = pass.staged
      /\ pass'.before = pass.before /\ pass'.hash = pass.hash /\ pass'.moves = pass.moves
  BY DEF TrashRemote, Goto, TypeOK, Pass
<1>2. UNCHANGED <<disk, trash, vault, work, written>>
  BY DEF TrashRemote, Goto, machine, drive, ghosts
<1>3. /\ \A q \in Paths : pass'.moves[q] \in {pass.moves[q], None}
      /\ pass'.hash \in {pass.hash, None} /\ Awaiting' \subseteq Awaiting
  BY <1>1 DEF TypeOK, Pass, Awaiting
<1>4. /\ pass'.step \in PushSteps => pass.step \in PushSteps
      /\ pass'.step \in Applying => pass.step \in Applying
      /\ pass.step \notin {"commit", "record"}
      /\ pass'.step \notin {"baseline", "upload", "track", "preserve",
                            "commit", "record"}
  BY <1>1 DEF Applying, PushSteps
<1>5. \A q \in Paths : rows'[q] \in {rows[q], None}
  BY DEF TrashRemote, TypeOK, machine
<1>6. \A k \in Links : links'[k] # None =>
            links[k] # None /\ links'[k].c = links[k].c
  <2>1. links' = [links EXCEPT ![pass.base[p].id].live = FALSE]
    BY DEF TrashRemote
  <2>2. pass.base[p].id \in Links /\ links[pass.base[p].id] \in Link
    BY NoneAssumption DEF TrashRemote, TypeOK, Pass, Row, Locals, PushLocals,
       KnownLinks, Applying, PushSteps
  <2>3. [links[pass.base[p].id] EXCEPT !.live = FALSE].c
           = links[pass.base[p].id].c
    BY <2>2 DEF Link
  <2>4. links[pass.base[p].id] # None
    BY <2>2, NoneAssumption
  <2> QED BY <2>1, <2>2, <2>3, <2>4 DEF TypeOK
<1> QED BY <1>1, <1>2, <1>3, <1>4, <1>5, <1>6, Narrows

LEMMA UntrackStep ==
    ASSUME TypeOK, Locals, IInv, Untrack
    PROVE  IInv'
<1>1. /\ pass.step = "untrack" /\ pass'.step = "trash"
      /\ pass'.read = pass.read
      /\ pass'.local = pass.local /\ pass'.base = pass.base /\ pass'.staged = pass.staged
      /\ pass'.before = pass.before /\ pass'.hash = pass.hash /\ pass'.moves = pass.moves
  BY DEF Untrack, Goto, TypeOK, Pass
<1>2. UNCHANGED <<disk, trash, vault, work, written>>
  BY DEF Untrack, Goto, machine, drive, ghosts
<1>3. /\ \A q \in Paths : pass'.moves[q] \in {pass.moves[q], None}
      /\ pass'.hash \in {pass.hash, None} /\ Awaiting' \subseteq Awaiting
  BY <1>1 DEF TypeOK, Pass, Awaiting
<1>4. /\ pass'.step \in PushSteps => pass.step \in PushSteps
      /\ pass'.step \in Applying => pass.step \in Applying
      /\ pass.step \notin {"commit", "record"}
      /\ pass'.step \notin {"baseline", "upload", "track", "preserve",
                            "commit", "record"}
  BY <1>1 DEF Applying, PushSteps
<1>5. \A q \in Paths : rows'[q] \in {rows[q], None}
  BY DEF Untrack, TypeOK, machine
<1>6. \A k \in Links : links'[k] # None =>
            links[k] # None /\ links'[k].c = links[k].c
  BY DEF Untrack, drive
<1> QED BY <1>1, <1>2, <1>3, <1>4, <1>5, <1>6, Narrows

LEMMA TrashDoneStep ==
    ASSUME TypeOK, Locals, IInv, TrashDone
    PROVE  IInv'
<1>1. /\ pass.step = "trash" /\ pass'.step = "push"
      /\ pass'.read = pass.read
      /\ pass'.local = pass.local /\ pass'.base = pass.base /\ pass'.staged = pass.staged
      /\ pass'.before = pass.before /\ pass'.hash = pass.hash /\ pass'.moves = pass.moves
  BY DEF TrashDone, Goto, TypeOK, Pass
<1>2. UNCHANGED <<disk, trash, rows, links, vault, work, written>>
  BY DEF TrashDone, Goto, machine, drive, ghosts
<1>3. /\ \A q \in Paths : pass'.moves[q] \in {pass.moves[q], None}
      /\ pass'.hash \in {pass.hash, None} /\ Awaiting' \subseteq Awaiting
  BY <1>1 DEF TypeOK, Pass, Awaiting
<1>4. /\ pass'.step \in PushSteps => pass.step \in PushSteps
      /\ pass'.step \in Applying => pass.step \in Applying
      /\ pass.step \notin {"commit", "record"}
      /\ pass'.step \notin {"baseline", "upload", "track", "preserve",
                            "commit", "record"}
  BY <1>1 DEF Applying, PushSteps
<1> QED BY <1>1, <1>2, <1>3, <1>4, PassNarrows

LEMMA PushSkipStep ==
    ASSUME TypeOK, Locals, IInv, NEW p \in Paths, PushSkip(p)
    PROVE  IInv'
<1>1. /\ pass.step = "push" /\ pass'.step = "push"
      /\ pass'.read = pass.read
      /\ pass'.local = pass.local /\ pass'.base = pass.base /\ pass'.staged = pass.staged
      /\ pass'.before = pass.before /\ pass'.hash = pass.hash /\ pass'.moves = pass.moves
  BY DEF PushSkip, Goto, TypeOK, Pass
<1>2. UNCHANGED <<disk, trash, rows, links, vault, work, written>>
  BY DEF PushSkip, Goto, machine, drive, ghosts
<1>3. /\ \A q \in Paths : pass'.moves[q] \in {pass.moves[q], None}
      /\ pass'.hash \in {pass.hash, None} /\ Awaiting' \subseteq Awaiting
  BY <1>1 DEF TypeOK, Pass, Awaiting
<1>4. /\ pass'.step \in PushSteps => pass.step \in PushSteps
      /\ pass'.step \in Applying => pass.step \in Applying
      /\ pass.step \notin {"commit", "record"}
      /\ pass'.step \notin {"baseline", "upload", "track", "preserve",
                            "commit", "record"}
  BY <1>1 DEF Applying, PushSteps
<1> QED BY <1>1, <1>2, <1>3, <1>4, PassNarrows

LEMMA PushHashStep ==
    ASSUME TypeOK, Locals, IInv, NEW p \in Paths, PushHash(p) PROVE IInv'
<1>1. /\ pass.step = "push" /\ pass'.step = "upload" /\ pass'.path = p
      /\ pass'.hash \in Contents /\ pass'.hash = HashToPush(p)
      /\ pass'.read = pass.read
      /\ pass'.local = pass.local /\ pass'.base = pass.base /\ pass'.staged = pass.staged
      /\ pass'.moves = pass.moves
  BY DEF PushHash, HashToPush, TypeOK, Pass, File
<1>2. UNCHANGED <<disk, trash, rows, links, vault, work, written>>
  BY DEF PushHash, machine, drive, ghosts
<1>h. /\ pass.read[p] = None => disk[p] # None /\ pass'.hash = disk[p].c
      /\ pass.read[p] # None => pass'.hash = pass.read[p]
  BY <1>1 DEF PushHash, HashToPush
<1>3. /\ NothingDiscarded' /\ BaselineVouchesForSafe' /\ ServedIsKept' /\ UniqueInodes'
      /\ RenamedIsSafe'
  BY <1>1, <1>2, SameMachine
<1>4. MentionedIsWritten'
  BY <1>1, <1>2, <1>h DEF IInv, MentionedIsWritten
<1>5. ScanIsCurrent' /\ ReplacedIsSafe'
  BY <1>1 DEF ScanIsCurrent, Awaiting, ReplacedIsSafe
<1>6. PushScanIsCurrent' /\ MovedIsSafe'
  BY <1>1, <1>2 DEF IInv, PushScanIsCurrent, MovedIsSafe, Applying, PushSteps, Safe
<1>7. UploadedIsSafe'
  BY <1>1, <1>2, <1>h DEF IInv, PushScanIsCurrent, UploadedIsSafe, Applying,
     PushSteps, Safe
<1> QED BY <1>3, <1>4, <1>5, <1>6, <1>7 DEF IInv

(* What is uploaded enters the vault (Upload).                             *)
LEMMA UploadStep == ASSUME TypeOK, Locals, IInv, Upload PROVE IInv'
<1> DEFINE p == pass.path
           c == disk[p].c
<1>1. /\ pass.step = "upload" /\ p \in Paths /\ disk[p] # None /\ c \in Contents
      /\ pass.hash # None /\ pass.local[p] # None
  BY NoneAssumption DEF Upload, TypeOK, Pass, Locals, PathLocals, PushLocals, File
<1>2. PICK l \in Links :
         /\ links' = [links EXCEPT ![l] = [name |-> p, c |-> c, live |-> TRUE]]
         /\ pass' = [pass EXCEPT !.step = "track", !.id = l]
  BY OneOfIn DEF Upload, LiveAs, NewLinks
<1>3. /\ pass'.step = "track" /\ pass'.path = p /\ pass'.hash = pass.hash
      /\ pass'.read = pass.read
      /\ pass'.local = pass.local /\ pass'.base = pass.base /\ pass'.staged = pass.staged
      /\ pass'.moves = pass.moves
  BY <1>2 DEF TypeOK, Pass
<1>4. UNCHANGED <<disk, trash, rows, work, written>> /\ vault' = vault \cup {c}
  BY DEF Upload, machine, ghosts
<1>5. \A k \in Links : links'[k] # None =>
         /\ links'[k].c \in (IF k = l THEN {c} ELSE {links[k].c})
         /\ k = l \/ links[k] # None
  BY <1>2 DEF TypeOK
<1>6. NothingDiscarded' /\ UniqueInodes' /\ RenamedIsSafe' /\ BaselineVouchesForSafe'
  BY <1>1, <1>3, <1>4 DEF IInv, NothingDiscarded, UniqueInodes, RenamedIsSafe,
     BaselineVouchesForSafe, OnDisk, Safe
<1>7. c \in written
  BY <1>1 DEF IInv, MentionedIsWritten
<1>8. ServedIsKept'
  BY <1>4, <1>5 DEF IInv, ServedIsKept
<1>9. MentionedIsWritten'
  <2>1. \A k \in Links : links'[k] # None => links'[k].c \in written'
    BY <1>4, <1>5, <1>7 DEF IInv, MentionedIsWritten
  <2> QED BY <1>3, <1>4, <2>1 DEF IInv, MentionedIsWritten
<1>10. ScanIsCurrent' /\ ReplacedIsSafe'
  BY <1>3 DEF ScanIsCurrent, Awaiting, ReplacedIsSafe
<1>11. PushScanIsCurrent' /\ MovedIsSafe'
  BY <1>1, <1>3, <1>4 DEF IInv, PushScanIsCurrent, MovedIsSafe, Applying, PushSteps, Safe
<1>12. UploadedIsSafe'
  BY <1>1, <1>3, <1>4 DEF IInv, UploadedIsSafe, PushScanIsCurrent, PushSteps, Safe
<1> QED BY <1>6, <1>8, <1>9, <1>10, <1>11, <1>12 DEF IInv

LEMMA UploadGoneStep ==
    ASSUME TypeOK, Locals, IInv, UploadGone
    PROVE  IInv'
<1>1. /\ pass.step = "upload" /\ pass'.step = "push"
      /\ pass'.read = pass.read
      /\ pass'.local = pass.local /\ pass'.base = pass.base /\ pass'.staged = pass.staged
      /\ pass'.before = pass.before /\ pass'.hash = None /\ pass'.moves = pass.moves
  BY DEF UploadGone, UploadError, Goto, TypeOK, Pass
<1>2. UNCHANGED <<disk, trash, rows, links, vault, work, written>>
  BY DEF UploadGone, UploadError, Goto, machine, drive, ghosts
<1>3. /\ \A q \in Paths : pass'.moves[q] \in {pass.moves[q], None}
      /\ pass'.hash \in {pass.hash, None} /\ Awaiting' \subseteq Awaiting
  BY <1>1 DEF TypeOK, Pass, Awaiting
<1>4. /\ pass'.step \in PushSteps => pass.step \in PushSteps
      /\ pass'.step \in Applying => pass.step \in Applying
      /\ pass.step \notin {"commit", "record"}
      /\ pass'.step \notin {"baseline", "upload", "track", "preserve",
                            "commit", "record"}
  BY <1>1 DEF Applying, PushSteps
<1> QED BY <1>1, <1>2, <1>3, <1>4, PassNarrows

(* The row of an uploaded file (Track).                                    *)
LEMMA TrackStep == ASSUME TypeOK, Locals, IInv, Track PROVE IInv'
<1> DEFINE p    == pass.path
           file == pass.local[p]
           r == [id |-> pass.id, hash |-> pass.hash, stamp |-> file.c, ino |-> file.ino]
<1>1. /\ pass.step = "track" /\ p \in Paths /\ file \in File
      /\ pass.id \in Links /\ pass.hash \in Contents
  BY NoneAssumption DEF Track, TypeOK, Pass, Locals, PathLocals, PushLocals, Applying,
     PushSteps
<1>2. rows' = [rows EXCEPT ![p] = r]
  BY DEF Track
<1>3. /\ r \in Row /\ r.hash = pass.hash /\ r.stamp = file.c /\ r.ino = file.ino
  BY <1>1 DEF Row, File
<1>4. Safe(pass.hash) /\ Safe(file.c)
  BY <1>1 DEF IInv, UploadedIsSafe
<1>5. pass.hash \in written /\ file.c \in written
  BY <1>1, NoneAssumption DEF IInv, MentionedIsWritten
<1>6. \A q \in Paths : disk[q] # None /\ disk[q].ino = file.ino => q = p
  BY <1>1, NoneAssumption DEF IInv, PushScanIsCurrent, PushSteps
<1>7. /\ pass'.step = "push" /\ pass'.local = pass.local
      /\ pass'.read = pass.read /\ pass'.base = pass.base
      /\ pass'.staged = pass.staged /\ pass'.hash = None
      /\ pass'.moves = pass.moves
  BY DEF Track, TypeOK, Pass
<1>9. UNCHANGED <<disk, trash, links, vault, work, written>>
  BY DEF Track, drive, ghosts
<1>11. /\ pass.step \in Applying /\ pass'.hash \in {pass.hash, None}
       /\ pass'.step \in {"move", "push"}
  BY <1>1, <1>7 DEF Applying, PushSteps
<1>12. Safe(r.hash) /\ Safe(r.stamp) /\ r.hash \in written /\ r.stamp \in written
  BY <1>3, <1>4, <1>5
<1>13. \A q \in Paths : disk[q] # None /\ disk[q].ino = r.ino => q = p
  BY <1>3, <1>6
<1>14. \A q \in Paths : pass'.moves[q] \in {pass.moves[q], None}
  BY <1>7
<1> HIDE DEF r, p
<1> QED BY <1>1, <1>2, <1>3, <1>7, <1>9, <1>11, <1>12, <1>13, <1>14, RowWritten

LEMMA PushDoneStep == ASSUME TypeOK, Locals, IInv, PushDone PROVE IInv'
<1>1. /\ pass.step = "push" /\ pass' = NoPass
      /\ UNCHANGED <<disk, trash, rows, links, vault, work, written>>
  BY DEF PushDone, machine, drive, ghosts
<1> QED BY <1>1, Resets

(* Every step of a push.                                                   *)
LEMMA PushStep == ASSUME TypeOK, Locals, IInv, Push PROVE IInv'
  BY RescanStep, BaselineStep, MoveRemoteStep, MoveRefusedStep, DropRowStep,
     ReplaceRowStep, MovesDoneStep, TrashRemoteStep, UntrackStep,
     TrashDoneStep, PushSkipStep, PushHashStep, UploadStep, UploadGoneStep,
     TrackStep, PushDoneStep
  DEF Push

-----------------------------------------------------------------------------
LEMMA DownloadFailsStep ==
    ASSUME TypeOK, Locals, IInv, NEW n \in pass.todo, DownloadFails(n)
    PROVE  IInv'
<1>1. /\ pass.step = "apply" /\ pass'.step = "apply"
      /\ pass'.read = pass.read
      /\ pass'.local = pass.local /\ pass'.base = pass.base /\ pass'.staged = pass.staged
      /\ pass'.before = pass.before /\ pass'.hash = pass.hash /\ pass'.moves = pass.moves
      /\ pass'.todo = pass.todo \ {n}
  BY DEF DownloadFails, DownloadError, Goto, TypeOK, Pass
<1>2. UNCHANGED <<disk, trash, rows, links, vault, work, written>>
  BY DEF DownloadFails, DownloadError, Goto, machine, drive, ghosts
<1>3. /\ \A q \in Paths : pass'.moves[q] \in {pass.moves[q], None}
      /\ pass'.hash \in {pass.hash, None} /\ Awaiting' \subseteq Awaiting
  BY <1>1 DEF TypeOK, Pass, Awaiting
<1>4. /\ pass'.step \in PushSteps => pass.step \in PushSteps
      /\ pass'.step \in Applying => pass.step \in Applying
      /\ pass.step \notin {"commit", "record"}
      /\ pass'.step \notin {"baseline", "upload", "track", "preserve",
                            "commit", "record"}
  BY <1>1 DEF Applying, PushSteps
<1> QED BY <1>1, <1>2, <1>3, <1>4, PassNarrows

LEMMA MoveFailsStep ==
    ASSUME TypeOK, Locals, IInv, NEW p \in Paths, MoveFails(p)
    PROVE  IInv'
<1>1. /\ pass.step = "move" /\ pass'.step = "move"
      /\ pass'.read = pass.read
      /\ pass'.local = pass.local /\ pass'.base = pass.base /\ pass'.staged = pass.staged
      /\ pass'.before = pass.before /\ pass'.hash = pass.hash
      /\ pass'.moves = [pass.moves EXCEPT ![p] = None]
  BY DEF MoveFails, MoveError, Goto, TypeOK, Pass
<1>2. UNCHANGED <<disk, trash, rows, links, vault, work, written>>
  BY DEF MoveFails, MoveError, Goto, machine, drive, ghosts
<1>3. /\ \A q \in Paths : pass'.moves[q] \in {pass.moves[q], None}
      /\ pass'.hash \in {pass.hash, None} /\ Awaiting' \subseteq Awaiting
  BY <1>1 DEF TypeOK, Pass, Awaiting
<1>4. /\ pass'.step \in PushSteps => pass.step \in PushSteps
      /\ pass'.step \in Applying => pass.step \in Applying
      /\ pass.step \notin {"commit", "record"}
      /\ pass'.step \notin {"baseline", "upload", "track", "preserve",
                            "commit", "record"}
  BY <1>1 DEF Applying, PushSteps
<1> QED BY <1>1, <1>2, <1>3, <1>4, PassNarrows

LEMMA TrashFailsStep ==
    ASSUME TypeOK, Locals, IInv, NEW p \in Paths, TrashFails(p)
    PROVE  IInv'
<1>1. /\ pass.step = "trash" /\ pass'.step = "trash"
      /\ pass'.read = pass.read
      /\ pass'.local = pass.local /\ pass'.base = pass.base /\ pass'.staged = pass.staged
      /\ pass'.before = pass.before /\ pass'.hash = pass.hash /\ pass'.moves = pass.moves
  BY DEF TrashFails, Goto, TypeOK, Pass
<1>2. UNCHANGED <<disk, trash, rows, links, vault, work, written>>
  BY DEF TrashFails, Goto, machine, drive, ghosts
<1>3. /\ \A q \in Paths : pass'.moves[q] \in {pass.moves[q], None}
      /\ pass'.hash \in {pass.hash, None} /\ Awaiting' \subseteq Awaiting
  BY <1>1 DEF TypeOK, Pass, Awaiting
<1>4. /\ pass'.step \in PushSteps => pass.step \in PushSteps
      /\ pass'.step \in Applying => pass.step \in Applying
      /\ pass.step \notin {"commit", "record"}
      /\ pass'.step \notin {"baseline", "upload", "track", "preserve",
                            "commit", "record"}
  BY <1>1 DEF Applying, PushSteps
<1> QED BY <1>1, <1>2, <1>3, <1>4, PassNarrows

LEMMA UploadFailsStep ==
    ASSUME TypeOK, Locals, IInv, UploadFails
    PROVE  IInv'
<1>1. /\ pass.step = "upload" /\ pass'.step = "push"
      /\ pass'.read = pass.read
      /\ pass'.local = pass.local /\ pass'.base = pass.base /\ pass'.staged = pass.staged
      /\ pass'.before = pass.before /\ pass'.hash = None /\ pass'.moves = pass.moves
  BY DEF UploadFails, UploadError, Goto, TypeOK, Pass
<1>2. UNCHANGED <<disk, trash, rows, links, vault, work, written>>
  BY DEF UploadFails, UploadError, Goto, machine, drive, ghosts
<1>3. /\ \A q \in Paths : pass'.moves[q] \in {pass.moves[q], None}
      /\ pass'.hash \in {pass.hash, None} /\ Awaiting' \subseteq Awaiting
  BY <1>1 DEF TypeOK, Pass, Awaiting
<1>4. /\ pass'.step \in PushSteps => pass.step \in PushSteps
      /\ pass'.step \in Applying => pass.step \in Applying
      /\ pass.step \notin {"commit", "record"}
      /\ pass'.step \notin {"baseline", "upload", "track", "preserve",
                            "commit", "record"}
  BY <1>1 DEF Applying, PushSteps
<1> QED BY <1>1, <1>2, <1>3, <1>4, PassNarrows

(* Failures: the precautions exclude a failed rename and a crash.          *)
LEMMA FailureStep ==
    ASSUME TypeOK, Locals, IInv, Precautions, Failure
    PROVE  IInv'
<1>1. UNCHANGED <<disk, trash, rows, links, vault, work, written>>
  BY FailureFrame
<1>2. CASE PollFails
  BY <1>1, <1>2, Resets DEF PollFails
<1>3. CASE ListFails
  <2>1. CASE pass' = NoPass
    BY <1>1, <1>3, <2>1, Resets DEF ListFails
  <2>2. CASE pass' = [pass EXCEPT !.step = "cursor"]
    <3>1. /\ pass.step = "list" /\ pass'.step = "cursor"
          /\ pass'.read = pass.read
          /\ pass'.local = pass.local /\ pass'.base = pass.base
          /\ pass'.staged = pass.staged /\ pass'.before = pass.before
          /\ pass'.hash = pass.hash /\ pass'.moves = pass.moves
      BY <1>3, <2>2 DEF ListFails, TypeOK, Pass
    <3>2. /\ \A q \in Paths : pass'.moves[q] \in {pass.moves[q], None}
          /\ pass'.hash \in {pass.hash, None} /\ Awaiting' \subseteq Awaiting
      BY <3>1 DEF TypeOK, Pass, Awaiting
    <3>3. pass'.step \notin PushSteps /\ pass'.step \notin Applying
      BY <3>1 DEF Applying, PushSteps
    <3> QED BY <1>1, <3>1, <3>2, <3>3, PassNarrows
  <2> QED BY <1>3, <2>1, <2>2 DEF ListFails
<1>4. ~CommitFails /\ ~Crash
  BY DEF CommitFails, Crash, Fault, Precautions
<1> QED BY <1>2, <1>3, <1>4, DownloadFailsStep, MoveFailsStep, TrashFailsStep,
           UploadFailsStep DEF Failure

-----------------------------------------------------------------------------
(* Nothing is written yet.                                                 *)
LEMMA SafetyInit == Init => IInv
<1> SUFFICES ASSUME Init PROVE IInv
  OBVIOUS
<1>1. NothingDiscarded /\ BaselineVouchesForSafe /\ ServedIsKept /\ UniqueInodes
      /\ RenamedIsSafe
  BY DEF Init, NothingDiscarded, BaselineVouchesForSafe, ServedIsKept,
     UniqueInodes, RenamedIsSafe
<1>2. MentionedIsWritten
  BY DEF Init, NoPass, MentionedIsWritten
<1>3. ScanIsCurrent /\ ReplacedIsSafe /\ PushScanIsCurrent
  BY DEF Init, NoPass, ScanIsCurrent, Awaiting, ReplacedIsSafe,
     PushScanIsCurrent, PushSteps
<1>4. MovedIsSafe /\ UploadedIsSafe
  BY DEF Init, NoPass, MovedIsSafe, UploadedIsSafe, Applying, PushSteps
<1> QED BY <1>1, <1>2, <1>3, <1>4 DEF IInv

(* Every step preserves the invariant.                                     *)
LEMMA SafetyStep ==
    ASSUME Precautions
    PROVE  TypeOK /\ Locals /\ IInv /\ [Next]_vars => IInv'
<1> SUFFICES ASSUME TypeOK, Locals, IInv, [Next]_vars PROVE IInv'
  OBVIOUS
<1>1. CASE \E kind \in Kinds : Start(kind)
  BY <1>1, StartStep
<1>2. CASE Publish
  BY <1>2, SameAll DEF Publish, machine, drive, ghosts
<1>3. CASE UNCHANGED vars
  BY <1>3, SameAll DEF vars, machine, drive, ghosts
<1> QED BY <1>1, <1>2, <1>3, PullStep, PushStep, FailureStep, UserStep,
           DeviceStep DEF Next, StartRefused

-----------------------------------------------------------------------------
(* With the precautions, the invariant holds in every reachable state.     *)
THEOREM InvariantHolds ==
    ASSUME Precautions
    PROVE  Spec => [](TypeOK /\ Locals /\ IInv)
<1>1. Init => TypeOK /\ Locals /\ IInv
  BY TypingInit, SafetyInit
<1>2. TypeOK /\ Locals /\ IInv /\ [Next]_vars => TypeOK' /\ Locals' /\ IInv'
  BY TypingStep, SafetyStep
<1> QED BY <1>1, <1>2, PTL DEF Spec

(* Nothing is ever discarded (conflict.go): under the Precautions, no pass *)
(* loses what the local user wrote, whatever the other devices do and      *)
(* whichever requests fail.                                                *)
THEOREM WorkKept ==
    ASSUME Precautions
    PROVE  Spec => []NothingDiscarded
<1>1. Spec => []IInv
  BY InvariantHolds, PTL
<1>2. IInv => NothingDiscarded
  BY DEF IInv
<1> QED BY <1>1, <1>2, PTL

(* Under the Precautions, what the baseline vouches for is safe, so that   *)
(* preserveLocalIfConflicting and hashIfNeeded may trust it                *)
(* (BaselineVouchesForSafe).                                               *)
THEOREM BaselineTrustworthy ==
    ASSUME Precautions
    PROVE  Spec => []BaselineVouchesForSafe
<1>1. Spec => []IInv
  BY InvariantHolds, PTL
<1>2. IInv => BaselineVouchesForSafe
  BY DEF IInv
<1> QED BY <1>1, <1>2, PTL

-----------------------------------------------------------------------------
(* 4. What a pass trashes in Drive (TrashesOnlyRemoved).  Most steps leave *)
(* the folder and the baseline alone, and the push's plan at most shrinks. *)
LEMMA PlanShrinks ==
    ASSUME TypeOK, RInv, UNCHANGED <<disk, rows, removed>>,
           pass.step \notin {"deleted", "reaped", "commit"},
           pass'.step \in PushSteps \ {"rescan"} =>
              pass.step \in PushSteps \ {"rescan"} /\ pass'.local = pass.local,
           pass'.step \in Applying =>
              pass.step \in Applying /\ pass'.doomed \subseteq pass.doomed
    PROVE  RInv'
<1>1. GoneIsRemoved'
  BY DEF RInv, GoneIsRemoved
<1>2. PushSeesDisk' /\ DoomedIsRemoved'
  BY DEF RInv, PushSeesDisk, DoomedIsRemoved
<1> QED  BY <1>1, <1>2 DEF RInv

(* The pass ends, or begins.                                               *)
LEMMA PlanEnds ==
    ASSUME TypeOK, RInv, UNCHANGED <<disk, rows, removed>>,
           pass.step \notin {"deleted", "reaped", "commit"},
           pass'.step \notin PushSteps \ {"rescan"}
    PROVE  RInv'
  BY PlanShrinks DEF Applying

(* A deletion, in its two halves.                                          *)
LEMMA LocalDeletion ==
    ASSUME TypeOK, Locals, RInv,
           \/ \E l \in Links : DeleteByID(l)
           \/ \E p \in Paths : Reap(p)
           \/ Forget
    PROVE  RInv'
<1>t. pass \in Pass /\ disk \in [Paths -> File \cup {None}]
        /\ rows \in [Paths -> Row \cup {None}]
  BY DEF TypeOK
<1>1. ASSUME NEW l \in Links, DeleteByID(l) PROVE RInv'
  <2>1. CASE pass' = [pass EXCEPT !.dels = @ \ {l}] /\ UNCHANGED disk
    <3>1. pass'.step = "delete" /\ pass.step = "delete"
      BY <1>1, <1>t, <2>1 DEF DeleteByID, Pass
    <3> QED  BY <1>1, <2>1, <3>1, PlanEnds DEF DeleteByID, ghosts, PushSteps
  <2>2. CASE \E p \in Paths :
               /\ rows[p] # None /\ TrashLocal(p)
               /\ pass' = [pass EXCEPT !.dels = @ \ {l}, !.path = p,
                                       !.step = "deleted"]
    <3>1. PICK p \in Paths :
               /\ TrashLocal(p)
               /\ pass' = [pass EXCEPT !.dels = @ \ {l}, !.path = p,
                                       !.step = "deleted"]
      BY <2>2
    <3>2. pass'.step = "deleted" /\ pass'.path = p
      BY <1>t, <3>1 DEF Pass
    <3>3. \A q \in Paths \ {p} : disk'[q] = disk[q]
      BY <1>t, <3>1 DEF TrashLocal
    <3>4. pass.step = "delete" /\ UNCHANGED <<rows, removed>>
      BY <1>1 DEF DeleteByID, ghosts
    <3> QED  BY <3>2, <3>3, <3>4 DEF RInv, GoneIsRemoved, PushSeesDisk,
             DoomedIsRemoved, Applying, PushSteps
  <2> QED  BY <1>1, <2>1, <2>2 DEF DeleteByID
<1>2. ASSUME NEW p \in Paths, Reap(p) PROVE RInv'
  <2>1. /\ pass.step = "reap" /\ pass'.step = "reaped" /\ pass'.path = p
        /\ UNCHANGED <<rows, removed>>
        /\ \A q \in Paths \ {p} : disk'[q] = disk[q]
    BY <1>2, <1>t DEF Reap, TrashLocal, ghosts, Pass
  <2> QED  BY <2>1 DEF RInv, GoneIsRemoved, PushSeesDisk, DoomedIsRemoved,
           Applying, PushSteps
<1>3. CASE Forget
  <2>1. /\ pass.step \in {"deleted", "reaped"} /\ pass.path \in Paths
        /\ pass'.step \in {"delete", "reap"} /\ UNCHANGED <<disk, removed>>
        /\ rows'[pass.path] = None
        /\ \A q \in Paths \ {pass.path} : rows'[q] = rows[q]
    BY <1>3, <1>t DEF Forget, ghosts, Pass, Locals, PathLocals
  <2> QED  BY <2>1 DEF RInv, GoneIsRemoved, PushSeesDisk, DoomedIsRemoved,
           Applying, PushSteps
<1> QED  BY <1>1, <1>2, <1>3

(* A download: the file it replaces is away until Commit puts it there.    *)
LEMMA LocalReplacement ==
    ASSUME TypeOK, Locals, RInv, Preserve \/ Commit \/ Record PROVE RInv'
<1> DEFINE p == pass.node.name
<1>t. pass \in Pass /\ disk \in [Paths -> File \cup {None}]
        /\ rows \in [Paths -> Row \cup {None}]
  BY DEF TypeOK
<1>1. /\ pass.step \in {"preserve", "commit", "record"}
      /\ p \in Paths /\ pass.staged \in Contents
  BY <1>t DEF Preserve, Commit, Record, Locals, ApplyLocals, Node, Pass
<1>2. CASE Preserve
  <2>1. /\ pass.step = "preserve" /\ pass'.step = "commit"
        /\ pass'.node = pass.node /\ UNCHANGED <<rows, removed>>
    BY <1>2, <1>t DEF Preserve, Goto, Pass, ghosts
  <2>2. \A q \in Paths \ {p} : disk[q] # None => disk'[q] # None
    <3>1. CASE disk' = disk
      BY <3>1
    <3>2. CASE disk[p] # None /\ \E k \in OneOf(NewCopies) :
                  disk' = [disk EXCEPT ![k] = disk[p], ![p] = None]
      <4>1. PICK k \in NewCopies :
               disk' = [disk EXCEPT ![k] = disk[p], ![p] = None]
        BY <3>2, OneOfIn
      <4>2. k \in Paths
        BY DEF NewCopies, Paths
      <4> QED  BY <1>t, <1>1, <3>2, <4>1, <4>2
    <3> QED  BY <1>2, <3>1, <3>2 DEF Preserve
  <2> QED  BY <2>1, <2>2 DEF RInv, GoneIsRemoved, PushSeesDisk,
           DoomedIsRemoved, Applying, PushSteps
<1>3. CASE Commit
  <2>1. /\ pass.step = "commit" /\ pass'.step = "record"
        /\ UNCHANGED rows /\ removed' = removed \ {p}
    BY <1>3, <1>t DEF Commit, Goto, Pass
  <2>2. PICK i \in NewInodes :
           disk' = [disk EXCEPT ![p] = [c |-> pass.staged, ino |-> i]]
    BY <1>3, OneOfIn DEF Commit
  <2>3. [c |-> pass.staged, ino |-> i] \in File
    BY <1>1 DEF File, NewInodes
  <2>4. /\ disk'[p] # None
        /\ \A q \in Paths \ {p} : disk'[q] = disk[q]
    BY <1>t, <1>1, <2>2, <2>3, NoneAssumption
  <2> QED  BY <2>1, <2>4 DEF RInv, GoneIsRemoved, PushSeesDisk,
           DoomedIsRemoved, Applying, PushSteps
<1>4. CASE Record
  <2>1. /\ pass.step = "record" /\ pass'.step = "apply"
        /\ UNCHANGED <<disk, removed>>
    BY <1>4, <1>t DEF Record, Pass, ghosts
  <2>2. /\ \A q \in Paths \ {p} : rows'[q] = rows[q]
        /\ disk[p] = None => rows' = rows
    BY <1>4, <1>t, <1>1 DEF Record
  <2> QED  BY <2>1, <2>2 DEF RInv, GoneIsRemoved, PushSeesDisk,
           DoomedIsRemoved, Applying, PushSteps
<1> QED  BY <1>2, <1>3, <1>4

(* The push writes a row for a file it has scanned, or takes one away.     *)
LEMMA RowsOfThePush ==
    ASSUME TypeOK, Locals, RInv, DropRow \/ ReplaceRow \/ Untrack \/ Track
    PROVE  RInv'
<1>t. pass \in Pass /\ rows \in [Paths -> Row \cup {None}]
  BY DEF TypeOK
<1>1. /\ pass.step \in Applying /\ pass'.step \in Applying
      /\ pass.step \notin {"deleted", "reaped", "commit"}
      /\ pass'.local = pass.local /\ pass'.doomed = pass.doomed
      /\ UNCHANGED <<disk, removed>> /\ pass.local = disk
  BY <1>t DEF DropRow, ReplaceRow, Untrack, Track, Goto, Pass, ghosts, RInv,
     PushSeesDisk, Applying, PushSteps
<1>2. \A q \in Paths : rows'[q] \in {rows[q], None} \/ disk[q] # None
  <2>1. CASE DropRow \/ Untrack
    BY <1>t, <2>1 DEF DropRow, Untrack
  <2>2. CASE ReplaceRow
    <3>1. pass.path \in Paths /\ pass.local[pass.moves[pass.path]] # None
      BY <1>t, <1>1, <2>2 DEF ReplaceRow, Locals, PathLocals, PushLocals, Pass
    <3>2. \A q \in Paths : q # pass.moves[pass.path] => rows'[q] = rows[q]
      BY <1>t, <2>2 DEF ReplaceRow
    <3> QED  BY <1>1, <3>1, <3>2
  <2>3. CASE Track
    <3>1. pass.local[pass.path] # None
      BY <2>3 DEF Track, Locals, PushLocals
    <3>2. \A q \in Paths : q # pass.path => rows'[q] = rows[q]
      BY <1>t, <2>3 DEF Track
    <3> QED  BY <1>1, <3>1, <3>2
  <2> QED  BY <2>1, <2>2, <2>3
<1>3. GoneIsRemoved'
  BY <1>1, <1>2 DEF RInv, GoneIsRemoved
<1> QED  BY <1>1, <1>3 DEF RInv, PushSeesDisk, DoomedIsRemoved

(* The user takes a file away, or puts one back, between passes.           *)
LEMMA UserRemoval ==
    ASSUME TypeOK, RInv, RemovalPrecautions, User PROVE RInv'
<1>t. disk \in [Paths -> File \cup {None}] /\ Files \subseteq Paths
  BY DEF TypeOK, Paths
<1>1. pass.step = "idle" /\ pass' = pass /\ UNCHANGED rows
  BY DEF User, UserWrites, UserDeletes, UserRenames, UserMayAct,
     RemovalPrecautions
<1>2. \A r \in Paths : disk'[r] = None =>
         r \in removed' \/ (disk[r] = None /\ (r \in removed => r \in removed'))
  <2>1. ASSUME NEW p \in Files, NEW c \in OneOf(NewContents), UserWrites(p, c)
        PROVE  /\ disk'[p] # None /\ removed' = removed \ {p}
               /\ \A r \in Paths \ {p} : disk'[r] = disk[r]
    <3>1. p \in Paths /\ c \in Contents /\ removed' = removed \ {p}
      BY <1>t, <2>1, OneOfIn DEF UserWrites, NewContents
    <3>2. CASE \E i \in OneOf(NewInodes) :
                 disk' = [disk EXCEPT ![p] = [c |-> c, ino |-> i]]
      <4>1. PICK i \in NewInodes :
               disk' = [disk EXCEPT ![p] = [c |-> c, ino |-> i]]
        BY <3>2, OneOfIn
      <4>2. [c |-> c, ino |-> i] \in File
        BY <3>1 DEF File, NewInodes
      <4> QED  BY <1>t, <3>1, <4>1, <4>2, NoneAssumption
    <3>3. CASE disk[p] # None /\ disk' = [disk EXCEPT ![p].c = c]
      <4>1. disk[p] \in File
        BY <1>t, <3>1, <3>3
      <4>2. [disk[p] EXCEPT !.c = c] \in File
        BY <3>1, <4>1 DEF File
      <4>3. disk'[p] = [disk[p] EXCEPT !.c = c]
        BY <1>t, <3>1, <3>3
      <4> QED  BY <1>t, <3>1, <3>3, <4>2, <4>3, NoneAssumption
    <3> QED  BY <2>1, <3>2, <3>3 DEF UserWrites
  <2>2. ASSUME NEW p \in Files, UserDeletes(p)
        PROVE  /\ removed' = removed \cup {p}
               /\ \A r \in Paths \ {p} : disk'[r] = disk[r]
    BY <1>t, <2>2 DEF UserDeletes
  <2>3. ASSUME NEW p \in Files, NEW q \in Files, UserRenames(p, q)
        PROVE  /\ removed' = (removed \ {q}) \cup {p} /\ disk'[q] # None
               /\ \A r \in Paths \ {p, q} : disk'[r] = disk[r]
    BY <1>t, <2>3 DEF UserRenames
  <2> QED  BY <2>1, <2>2, <2>3 DEF User
<1> QED  BY <1>1, <1>2 DEF RInv, GoneIsRemoved, PushSeesDisk, DoomedIsRemoved,
         Applying, PushSteps

(* The pull.                                                               *)
LEMMA PullRemoval == ASSUME TypeOK, Locals, RInv, Pull PROVE RInv'
<1>t. pass \in Pass
  BY DEF TypeOK
<1>1. CASE PollEvents \/ StartWalk
  <2>1. pass'.step \in {"delete", "list"} /\ pass.step = "poll"
    BY <1>t, <1>1 DEF PollEvents, StartWalk, Pass
  <2> QED  BY <1>1, <2>1, PlanEnds
           DEF PollEvents, StartWalk, machine, ghosts, PushSteps
<1>2. CASE DeletesDone \/ List \/ FindStale
  <2>1. /\ pass'.step \in {"list", "cursor", "apply", "reap"}
        /\ pass.step \in {"delete", "list", "apply"}
    BY <1>t, <1>2 DEF DeletesDone, List, FindStale, Goto, Pass
  <2> QED  BY <1>2, <2>1, PlanEnds
           DEF DeletesDone, List, FindStale, machine, ghosts, PushSteps
<1>3. CASE \E n \in pass.todo : ApplySkip(n) \/ Download(n) \/ DownloadGone(n)
  <2>1. pass'.step \in {"apply", "preserve"} /\ pass.step = "apply"
    BY <1>t, <1>3
       DEF ApplySkip, Download, DownloadGone, DownloadError, Pass
  <2> QED  BY <1>3, <2>1, PlanEnds
           DEF ApplySkip, Download, DownloadGone, DownloadError, machine,
               ghosts, PushSteps
<1>4. CASE ReapDone \/ SaveCursor
  <2>1. /\ pass'.step \in {"idle", "cursor", "rescan"}
        /\ pass.step \in {"reap", "cursor"}
    BY <1>t, <1>4 DEF ReapDone, SaveCursor, NoPass, Pass
  <2> QED  BY <1>4, <2>1, PlanEnds
           DEF ReapDone, SaveCursor, machine, ghosts, PushSteps
<1> QED  BY <1>1, <1>2, <1>3, <1>4, LocalDeletion, LocalReplacement DEF Pull

(* The push reads the baseline beside the scan it has just made: a row     *)
(* without a file is one the user removed.                                 *)
LEMMA PushPlanned == ASSUME TypeOK, RInv, Rescan \/ Baseline PROVE RInv'
<1>t. pass \in Pass
  BY DEF TypeOK
<1>1. CASE Rescan
  <2>1. /\ pass'.step = "baseline" /\ pass'.local = disk
        /\ pass.step = "rescan" /\ UNCHANGED <<disk, rows, removed>>
    BY <1>t, <1>1 DEF Rescan, Pass, machine, ghosts
  <2> QED  BY <2>1 DEF RInv, GoneIsRemoved, PushSeesDisk, DoomedIsRemoved,
           Applying
<1>2. CASE Baseline
  <2>1. PICK m \in Matchings(rows), r \in [Paths -> Contents \cup {None}] :
           /\ r \in ReadHashes(rows, m)
           /\ pass' = [pass EXCEPT
                !.step = "move", !.base = rows, !.read = r,
                !.moves = [p \in Paths |->
                             IF p \in {o \in DOMAIN m : m[o] # None}
                             THEN m[p] ELSE None],
                !.doomed = DOMAIN m \ {o \in DOMAIN m : m[o] # None},
                !.todo = {p \in Paths : pass.local[p] # None}
                            \ {m[p] : p \in {o \in DOMAIN m : m[o] # None}}]
    BY <1>2 DEF Baseline, ReadHashes
  <2>2. DOMAIN m = Missing(rows)
    BY DEF Matchings
  <2>3. /\ pass'.step = "move" /\ pass'.local = pass.local
        /\ pass'.doomed \subseteq Missing(rows)
    BY <1>t, <2>1, <2>2 DEF Pass
  <2>4. pass.step = "baseline" /\ UNCHANGED <<disk, rows, removed>>
    BY <1>2 DEF Baseline, machine, ghosts
  <2>5. pass.local = disk
    BY <2>4 DEF RInv, PushSeesDisk, PushSteps
  <2>6. Missing(rows) \subseteq removed
    BY <2>4, <2>5 DEF Missing, RInv, GoneIsRemoved
  <2> QED  BY <2>3, <2>4, <2>5, <2>6 DEF RInv, GoneIsRemoved, PushSeesDisk,
           DoomedIsRemoved
<1> QED  BY <1>1, <1>2

(* The rest of the push.                                                   *)
LEMMA PushRemoval == ASSUME TypeOK, Locals, RInv, Push PROVE RInv'
<1>t. pass \in Pass
  BY DEF TypeOK
<1>1. CASE \E p \in Paths : MoveRemote(p) \/ MoveRefused(p)
  <2>1. PICK p \in Paths : MoveRemote(p) \/ MoveRefused(p)
    BY <1>1
  <2>2. /\ pass'.step \in {"move", "drop"} /\ pass.step = "move"
        /\ pass'.local = pass.local /\ pass'.doomed = pass.doomed
    <3>1. CASE MoveRemote(p)
      BY <1>t, <3>1 DEF MoveRemote, Pass
    <3>2. CASE MoveRefused(p)
      BY <1>t, <3>2 DEF MoveRefused, MoveError, Pass
    <3> QED  BY <2>1, <3>1, <3>2
  <2>3. UNCHANGED <<disk, rows, removed>>
    BY <2>1 DEF MoveRemote, MoveRefused, MoveError, machine, ghosts
  <2> QED  BY <2>2, <2>3, PlanShrinks DEF Applying, PushSteps
<1>2. CASE MovesDone \/ TrashDone
  <2>1. /\ pass'.step \in Applying /\ pass.step \in {"move", "trash"}
        /\ pass'.local = pass.local /\ pass'.doomed = pass.doomed
        /\ UNCHANGED <<disk, rows, removed>>
    BY <1>t, <1>2 DEF MovesDone, TrashDone, Goto, Pass, machine, ghosts,
       Applying, PushSteps
  <2> QED  BY <2>1, PlanShrinks DEF Applying, PushSteps
<1>3. CASE \E p \in Paths : TrashRemote(p)
  <2>1. /\ pass'.step \in Applying /\ pass.step = "trash"
        /\ pass'.local = pass.local /\ pass'.doomed \subseteq pass.doomed
        /\ UNCHANGED <<disk, rows, removed>>
    BY <1>t, <1>3 DEF TrashRemote, Pass, machine, ghosts, Applying, PushSteps
  <2> QED  BY <2>1, PlanShrinks DEF Applying, PushSteps
<1>4. CASE \E p \in Paths : PushSkip(p) \/ PushHash(p)
  <2>1. /\ pass'.step \in Applying /\ pass.step = "push"
        /\ pass'.local = pass.local /\ pass'.doomed = pass.doomed
        /\ UNCHANGED <<disk, rows, removed>>
    BY <1>t, <1>4 DEF PushSkip, PushHash, Pass, machine, ghosts, Applying,
       PushSteps
  <2> QED  BY <2>1, PlanShrinks DEF Applying, PushSteps
<1>5. CASE Upload \/ UploadGone
  <2>0. ASSUME Upload
        PROVE  /\ pass'.step \in Applying /\ pass.step = "upload"
               /\ pass'.local = pass.local /\ pass'.doomed = pass.doomed
               /\ UNCHANGED <<disk, rows, removed>>
    <3>1. /\ pass.step = "upload" /\ UNCHANGED <<disk, rows, removed>>
          /\ \E l : pass' = [pass EXCEPT !.step = "track", !.id = l]
      BY <2>0 DEF Upload, machine
    <3> QED  BY <1>t, <3>1 DEF Pass, Applying, PushSteps
  <2>1. /\ pass'.step \in Applying /\ pass.step = "upload"
        /\ pass'.local = pass.local /\ pass'.doomed = pass.doomed
        /\ UNCHANGED <<disk, rows, removed>>
    BY <1>t, <1>5, <2>0 DEF UploadGone, UploadError, Pass, machine, ghosts,
       Applying, PushSteps
  <2> QED  BY <2>1, PlanShrinks DEF Applying, PushSteps
<1>6. CASE PushDone
  BY <1>6, PlanEnds DEF PushDone, NoPass, machine, ghosts, PushSteps
<1> QED  BY <1>1, <1>2, <1>3, <1>4, <1>5, <1>6, PushPlanned, RowsOfThePush
         DEF Push

(* What fails ends the pass or shortens its plan.                          *)
LEMMA FailureRemoval ==
    ASSUME TypeOK, RInv, RemovalPrecautions, Failure PROVE RInv'
<1>t. pass \in Pass
  BY DEF TypeOK
<1>0. UNCHANGED <<disk, rows, removed>>
  BY DEF Failure, PollFails, ListFails, DownloadFails, DownloadError,
     CommitFails, MoveFails, MoveError, TrashFails, UploadFails, UploadError,
     Crash, machine, ghosts
<1>1. CASE PollFails \/ ListFails
  <2>1. /\ pass'.step \in {"idle", "cursor"}
        /\ pass.step \in {"poll", "list"}
    BY <1>t, <1>1 DEF PollFails, ListFails, NoPass, Pass
  <2> QED  BY <1>0, <2>1, PlanEnds DEF PushSteps
<1>2. CASE \E n \in pass.todo : DownloadFails(n)
  <2>1. pass'.step = "apply" /\ pass.step = "apply"
    BY <1>t, <1>2 DEF DownloadFails, DownloadError, Pass
  <2> QED  BY <1>0, <2>1, PlanEnds DEF PushSteps
<1>3. CASE (\E p \in Paths : MoveFails(p) \/ TrashFails(p)) \/ UploadFails
  <2>1. /\ pass'.step \in Applying /\ pass.step \in {"move", "trash", "upload"}
        /\ pass'.local = pass.local /\ pass'.doomed \subseteq pass.doomed
    BY <1>t, <1>3 DEF MoveFails, MoveError, TrashFails, UploadFails,
       UploadError, Pass, Applying, PushSteps
  <2> QED  BY <1>0, <2>1, PlanShrinks DEF Applying, PushSteps
<1>4. ~CommitFails /\ ~Crash
  BY DEF CommitFails, Crash, Fault, RemovalPrecautions
<1> QED  BY <1>1, <1>2, <1>3, <1>4 DEF Failure

LEMMA RemovalInit == Init => RInv
  BY DEF Init, NoPass, RInv, GoneIsRemoved, PushSeesDisk, DoomedIsRemoved,
     Applying, PushSteps

LEMMA RemovalStep ==
    ASSUME RemovalPrecautions
    PROVE  TypeOK /\ Locals /\ RInv /\ [Next]_vars => RInv'
<1> SUFFICES ASSUME TypeOK, Locals, RInv, [Next]_vars PROVE RInv'
  OBVIOUS
<1>1. CASE \E kind \in Kinds : Start(kind)
  <2>1. /\ pass'.step \in {"list", "poll"} /\ pass.step = "idle"
        /\ UNCHANGED <<disk, rows, removed>>
    BY <1>1 DEF Start, NoPass, machine, ghosts
  <2> QED  BY <2>1, PlanEnds DEF PushSteps
<1>2. CASE Device \/ Publish \/ UNCHANGED vars
  <2>1. UNCHANGED <<disk, rows, removed, pass>>
    BY <1>2 DEF Device, DeviceWrites, DeviceTrashes, DeviceRenames, Publish,
       vars, machine, ghosts
  <2> QED  BY <2>1 DEF RInv, GoneIsRemoved, PushSeesDisk, DoomedIsRemoved
<1> QED  BY <1>1, <1>2, PullRemoval, PushRemoval, FailureRemoval, UserRemoval
         DEF Next, StartRefused

(* A pass trashes in Drive only what the user removed                      *)
(* (findLocalDeletions, trashRemote): with the user idle during a pass and *)
(* no pass stopped half-way, whatever kinds of pass run, the other devices *)
(* do and requests fail, no file the engine itself has taken away for a    *)
(* moment, and none a scan has missed, is taken for a deletion.            *)
THEOREM OnlyRemovedIsTrashed ==
    ASSUME RemovalPrecautions
    PROVE  Spec => TrashesOnlyRemoved
<1>1. Init => TypeOK /\ Locals /\ RInv
  BY TypingInit, RemovalInit
<1>2. TypeOK /\ Locals /\ RInv /\ [Next]_vars => TypeOK' /\ Locals' /\ RInv'
  BY TypingStep, RemovalStep
<1>3. TypeOK /\ Locals /\ RInv /\ [Next]_vars =>
        [\A l \in Links :
           links[l] # None /\ links[l].live /\ ~links'[l].live /\ pass' # pass
              => pass'.path \in removed]_vars
  <2> SUFFICES ASSUME TypeOK, Locals, RInv, Next, NEW l \in Links,
                      links[l] # None, links[l].live, ~links'[l].live,
                      pass' # pass
               PROVE  pass'.path \in removed
    OBVIOUS
  <2>t. pass \in Pass /\ links \in [Links -> Link \cup {None}]
    BY DEF TypeOK
  <2>1. CASE UNCHANGED links
    BY <2>1
  <2>2. ASSUME NEW p \in Paths, MoveRemote(p) PROVE FALSE
    BY <2>2, <2>t DEF MoveRemote, Link
  <2>3. ASSUME NEW p \in Paths, TrashRemote(p) PROVE pass'.path \in removed
    BY <2>3, <2>t DEF TrashRemote, Pass, RInv, DoomedIsRemoved, Applying,
       PushSteps
  <2>4. CASE Upload
    <3>1. PICK k \in Links : \E c \in Contents :
             links' = [links EXCEPT ![k] =
                         [name |-> pass.path, c |-> c, live |-> TRUE]]
      BY <2>4, OneOfIn DEF Upload, LiveAs, NewLinks, TypeOK, File
    <3> QED  BY <2>t, <3>1
  <2>5. ~User /\ ~Device /\ ~Publish
    BY DEF User, UserWrites, UserDeletes, UserRenames, Device, DeviceWrites,
       DeviceTrashes, DeviceRenames, Publish, machine, ghosts
  <2>6. Pull \/ Failure \/ (\E kind \in Kinds : Start(kind))
           => UNCHANGED links
    BY DEF Pull, Failure, Start, PollEvents, StartWalk, DeleteByID, DeletesDone,
       Forget, List, ApplySkip, Download, DownloadGone, DownloadError, Preserve,
       Commit, Record, FindStale, Reap, ReapDone, SaveCursor, PollFails,
       ListFails, DownloadFails, CommitFails, MoveFails, MoveError, TrashFails,
       UploadFails, UploadError, Crash, drive
  <2>7. Rescan \/ Baseline \/ DropRow \/ ReplaceRow \/ MovesDone \/ Untrack
           \/ TrashDone \/ Track \/ PushDone \/ UploadGone => UNCHANGED links
    BY DEF Rescan, Baseline, DropRow, ReplaceRow, MovesDone, Untrack, TrashDone,
       Track, PushDone, UploadGone, UploadError, drive
  <2>8. ASSUME NEW p \in Paths, MoveRefused(p) \/ PushSkip(p) \/ PushHash(p)
        PROVE  UNCHANGED links
    BY <2>8 DEF MoveRefused, MoveError, PushSkip, PushHash, drive
  <2> QED  BY <2>1, <2>2, <2>3, <2>4, <2>5, <2>6, <2>7, <2>8
           DEF Next, StartRefused, vars, Push
<1> QED  BY <1>1, <1>2, <1>3, PTL DEF Spec, TrashesOnlyRemoved

-----------------------------------------------------------------------------
(***************************************************************************)
(* 5. A saved cursor means applied (CursorMeansApplied), for any number of *)
(* names, links, contents and devices: the argument follows each live link *)
(* of Drive through a pass, from the listing that shows it to the row that *)
(* tracks it, and shows that no step of the pass gives a row away that     *)
(* another one relies on.                                                  *)
(***************************************************************************)
(* What the cursor asks of the world: each pass scans before it pulls, the *)
(* user acts between passes and does not both edit and rename a file       *)
(* between two pushes, and nothing fails whose error the pass swallows, or *)
(* between the moment the cursor is saved and the end of the push.         *)
CursorPrecautions ==
    /\ Kinds \subseteq {"sync", "refresh"}
    /\ UserSteps \subseteq {"idle"}
    /\ FreeRenames = FALSE
    /\ Faults \subseteq {"poll", "move", "trash"}

Applied == {"preserve", "commit", "record"}

-----------------------------------------------------------------------------
(* Drive.  A live link is quiet when the events the pass answers for are   *)
(* the last ones about it.                                                 *)
Live(l)  == links[l] # None /\ links[l].live
Later(l) == \E i \in pass.mark + 1 .. Len(feed) : feed[i].id = l
Quiet(l) == Live(l) /\ ~Later(l) /\ links[l].c \notin twice

(* Drive has held c, and the only live link to hold it now is id.          *)
Owned(id, c) ==
    /\ c \in vault
    /\ \A l \in Links : Live(l) /\ links[l].c = c /\ c \notin twice => l = id

LinksOwned == \A l \in Links : Live(l) => Owned(l, links[l].c)

UniqueNames ==
    \A k, l \in Links : Live(k) /\ Live(l) /\ links[k].name = links[l].name
                            => k = l

GoneIsDead ==
    \A l \in Links, i \in 1 .. Len(feed) :
        feed[i].gone /\ feed[i].id = l => ~Live(l)

DelsAreDead == \A l \in Links : l \in pass.dels => ~Live(l)

(* The machine pairs each hash with the link it had it from.               *)
Paired(id, c) ==
    \/ \E p \in Paths : rows[p] # None /\ rows[p].id = id /\ rows[p].hash = c
    \/ \E p \in Paths : /\ pass.base[p] # None
                        /\ pass.base[p].id = id /\ pass.base[p].hash = c
    \/ pass.step \in Applied /\ pass.node.id = id /\ pass.staged = c
    \/ pass.step = "track" /\ pass.id = id /\ pass.hash = c

HashesOwned ==
    \A id \in Links, c \in Contents : Paired(id, c) => Owned(id, c)

-----------------------------------------------------------------------------
(* The folder.  An inode that tells of a rename tells the hash too.        *)
RenamedIsExact ==
    \A p, q \in Paths :
        /\ rows[p] # None /\ disk[q] # None
        /\ p # q /\ rows[p].ino = disk[q].ino
        => \/ disk[q].c = rows[p].hash
           \/ pass.step \in {"commit", "record"} /\ p = pass.node.name

ScanIsExact ==
    /\ pass.step \in PushSteps \ {"rescan"} => pass.local = disk
    /\ pass.step \in PushSteps \ {"rescan", "baseline"} =>
          \A p \in Paths : pass.read[p] # None =>
              disk[p] # None /\ pass.read[p] = disk[p].c
    /\ pass.step = "record" => disk[pass.node.name] # None
    /\ pass.step \in {"upload", "track"} =>
          disk[pass.path] # None /\ pass.hash = disk[pass.path].c

-----------------------------------------------------------------------------
(* The passes that run.                                                    *)
KindsApart ==
    /\ pass.step = "poll" => pass.kind = "sync"
    /\ pass.step \in PullSteps \ {"poll"} =>
          pass.kind \in {"events", "walk", "refresh"}
    /\ pass.kind = "refresh" =>
          pass.step \in {"list", "apply", "reap", "reaped"} \cup Applied
    /\ pass.step \in PullSteps /\ pass.kind # "refresh" => pass.push
    /\ \/ pass.step \notin PullSteps \ {"poll"}
       \/ pass.kind = "refresh"
       => pass.mark = 0
    /\ pass.step \in {"delete", "deleted"} => pass.kind = "events" /\ primed

(* The listing, and the child of it that is being applied.                 *)
NodeOf(l) == [id |-> l, name |-> links[l].name, c |-> links[l].c]

KidsApart ==
    /\ \A m, n \in pass.kids : m.name = n.name \/ m.id = n.id => m = n
    /\ pass.step \in Applied =>
          /\ pass.node \in pass.kids
          /\ \A l \in Links :
                Quiet(l) /\ l = pass.node.id => links[l].c = pass.staged

(* The row of a deletion that is half done.                                *)
DeletedIsDead ==
    pass.step = "deleted" /\ rows[pass.path] # None =>
        \A l \in Links : Live(l) => l # rows[pass.path].id

(* The push: rows it has yet to act upon are as it read them.              *)
PlanHolds ==
    pass.step \in Applying =>
        /\ \A p \in Paths : pass.moves[p] # None =>
              /\ pass.local[p] = None
              /\ pass.base[pass.moves[p]] = None /\ rows[pass.moves[p]] = None
              /\ pass.moves[p] \notin pass.todo
              /\ pass.base[p].hash = pass.local[pass.moves[p]].c
              /\ \/ rows[p] = pass.base[p]
                 \/ pass.step = "replace" /\ p = pass.path
              /\ \A q \in Paths : pass.moves[q] = pass.moves[p] => p = q
        /\ \A p \in pass.doomed :
              /\ pass.local[p] = None /\ pass.moves[p] = None
              /\ rows[p] = pass.base[p]
        /\ \A p \in pass.todo : rows[p] = pass.base[p]

ActsAsPlanned ==
    /\ pass.step = "drop" =>
          \A l \in Links : Quiet(l) => l # pass.base[pass.path].id
    /\ pass.step = "untrack" =>
          /\ pass.path \notin pass.doomed
          /\ pass.local[pass.path] = None /\ pass.moves[pass.path] = None
          /\ rows[pass.path] = pass.base[pass.path]
          /\ pass.base[pass.path] # None
          /\ \A l \in Links : Live(l) => l # pass.base[pass.path].id
    /\ pass.step = "upload" =>
          pass.path \notin pass.todo /\ rows[pass.path] = pass.base[pass.path]
    /\ pass.step = "track" => pass.path \notin pass.todo
    /\ pass.step \in {"trash", "untrack", "push", "upload", "track"} =>
          \A p \in Paths : pass.moves[p] = None

-----------------------------------------------------------------------------
(* Each quiet link has its row, or the pass is going to see to it: its     *)
(* node is still to be applied, or its revision is on disk beside a stale  *)
(* row, so that the push uploads it again.                                 *)
Differs(l) ==
    LET p == links[l].name IN
    /\ rows[p] # None /\ rows[p].hash # links[l].c
    /\ disk[p] # None /\ disk[p].c = links[l].c

AtRest ==
    /\ primed
    /\ \/ pass.step \in {"idle", "poll"}
       \/ pass.kind = "refresh"
       \/ pass.step \in {"delete", "deleted"} /\ ~pass.relist
    => \A l \in Links : Quiet(l) => Tracked(l)

Awaited(l) ==
    \/ NodeOf(l) \in pass.todo
    \/ pass.step \in Applied /\ pass.node = NodeOf(l)

Listed ==
    pass.step \in {"apply"} \cup Applied =>
        \A l \in Links : Quiet(l) =>
            /\ NodeOf(l) \in pass.kids
            /\ \/ pass.kind = "refresh"
               \/ Awaited(l) \/ Tracked(l) \/ Differs(l)

Kept ==
    pass.step \in {"reap", "reaped"} =>
        \A l \in Links : Quiet(l) =>
            /\ links[l].name \notin pass.doomed
            /\ pass.step = "reaped" => links[l].name # pass.path

Pulled ==
    \/ pass.step \in {"reap", "reaped"} /\ pass.kind # "refresh"
    \/ pass.step \in {"cursor", "rescan", "baseline"}
    => \A l \in Links : Quiet(l) => Tracked(l) \/ Differs(l)

ToUpload(l) ==
    LET p == links[l].name IN
    /\ Differs(l)
    /\ rows[p] = pass.base[p]
    /\ p \in pass.todo \/ (pass.step = "upload" /\ p = pass.path)

Pushed ==
    pass.step \in Applying =>
        \A l \in Links : Quiet(l) =>
            /\ Tracked(l) \/ ToUpload(l)
            /\ pass.step = "track" => links[l].name # pass.path

CInv ==
    /\ LinksOwned /\ UniqueNames /\ GoneIsDead /\ DelsAreDead
    /\ HashesOwned
    /\ UniqueInodes /\ RenamedIsExact /\ ScanIsExact
    /\ KindsApart /\ KidsApart /\ DeletedIsDead /\ PlanHolds /\ ActsAsPlanned
    /\ AtRest /\ Listed /\ Kept /\ Pulled /\ Pushed
-----------------------------------------------------------------------------
(* What a step may do to Drive: quiet links are as they were, a link comes *)
(* to life under a new id only, and nothing owned changes hands.           *)
DriveKeeps ==
    /\ \A l \in Links : Quiet(l)' => Quiet(l) /\ links'[l] = links[l]
    /\ \A l \in Links : Live(l)' => Live(l) \/ l \in NewLinks
    /\ \A id \in Links, c \in Contents : Owned(id, c) => Owned(id, c)'
    /\ LinksOwned' /\ UniqueNames' /\ GoneIsDead'

(* What Drive's part of the invariant is, for the steps below.             *)
DriveInv == TypeOK /\ CursorInFeed /\ LinksOwned /\ UniqueNames /\ GoneIsDead

(* A link that exists has a name, a revision and a flag.                   *)
LEMMA LinkTyped ==
    TypeOK => \A l \in Links : links[l] # None =>
                 /\ links[l] \in Link /\ links[l].name \in Paths
                 /\ links[l].c \in Contents /\ links[l].live \in BOOLEAN
  BY DEF TypeOK, Link

(* The events: those the pass answers for have been published.             *)
LEMMA FeedFacts ==
    ASSUME TypeOK, CursorInFeed
    PROVE  /\ Len(feed) \in Nat /\ pass.mark \in Nat /\ pass.mark <= Len(feed)
           /\ visible \in Nat /\ pass.mark <= visible /\ visible <= Len(feed)
           /\ \A i \in 1 .. Len(feed) :
                 /\ feed[i] \in Event
                 /\ feed[i].id \in Links /\ feed[i].gone \in BOOLEAN
<1>1. feed \in Seq(Event) /\ pass.mark \in Nat /\ visible \in Nat
  BY DEF TypeOK, Pass
<1>2. Len(feed) \in Nat /\ \A i \in 1 .. Len(feed) : feed[i] \in Event
  BY <1>1
<1>3. \A e \in Event : e.id \in Links /\ e.gone \in BOOLEAN
  BY DEF Event
<1> QED  BY <1>1, <1>2, <1>3 DEF CursorInFeed

(* One event more: the links it is not about are as quiet as before.       *)
LEMMA OneMoreEvent ==
    ASSUME TypeOK, CursorInFeed, NEW e \in Event,
           feed' = Append(feed, e), pass'.mark = pass.mark
    PROVE  /\ \A l \in Links : Later(l) => Later(l)'
           /\ Later(e.id)'
           /\ Len(feed') = Len(feed) + 1 /\ feed'[Len(feed) + 1] = e
           /\ \A i \in 1 .. Len(feed) : feed'[i] = feed[i]
<1>1. /\ Len(feed) \in Nat /\ pass.mark \in Nat /\ pass.mark <= Len(feed)
      /\ feed \in Seq(Event)
  BY FeedFacts DEF TypeOK
<1>2. /\ Len(feed') = Len(feed) + 1 /\ feed'[Len(feed) + 1] = e
      /\ \A i \in 1 .. Len(feed) : feed'[i] = feed[i]
  BY <1>1
<1>3. Later(e.id)'
  <2>1. Len(feed) + 1 \in pass'.mark + 1 .. Len(feed')
    BY <1>1, <1>2
  <2> QED  BY <1>2, <2>1 DEF Later
<1>4. ASSUME NEW l \in Links, Later(l) PROVE Later(l)'
  <2>1. PICK i \in pass.mark + 1 .. Len(feed) : feed[i].id = l
    BY <1>4 DEF Later
  <2>2. i \in 1 .. Len(feed) /\ i \in pass'.mark + 1 .. Len(feed')
    BY <1>1, <1>2
  <2> QED  BY <1>2, <2>1, <2>2 DEF Later
<1> QED  BY <1>2, <1>3, <1>4

(* Drive is left alone.                                                    *)
LEMMA SameDrive ==
    ASSUME DriveInv, UNCHANGED <<links, vault, twice, feed>>,
           pass'.mark = pass.mark
    PROVE  DriveKeeps
<1>1. \A l \in Links : Live(l)' <=> Live(l)
  BY DEF Live
<1>2. \A l \in Links : Quiet(l)' <=> Quiet(l)
  BY <1>1 DEF Quiet, Later
<1>3. \A id \in Links, c \in Contents : Owned(id, c) => Owned(id, c)'
  BY <1>1 DEF Owned
<1>4. LinksOwned'
  BY <1>1 DEF DriveInv, LinksOwned, Owned
<1>5. UniqueNames'
  BY <1>1 DEF DriveInv, UniqueNames
<1>6. GoneIsDead'
  BY <1>1 DEF DriveInv, GoneIsDead
<1> QED  BY <1>1, <1>2, <1>3, <1>4, <1>5, <1>6 DEF DriveKeeps

(* A revision is written, of the live link of that name or of a new one    *)
(* (DeviceWrites, Upload).                                                 *)
LEMMA WriteKeeps ==
    ASSUME DriveInv, NEW l \in Links, NEW p \in Paths, NEW c \in Contents,
           l \in LiveAs(p) \/ (LiveAs(p) = {} /\ l \in NewLinks),
           links' = [links EXCEPT ![l] = [name |-> p, c |-> c, live |-> TRUE]],
           feed' = Changed(l), vault' = vault \cup {c},
           twice' = twice \cup Repeated(l, c), pass'.mark = pass.mark
    PROVE  DriveKeeps /\ Owned(l, c)' /\ Later(l)'
<1> DEFINE r == [name |-> p, c |-> c, live |-> TRUE]
<1>t. TypeOK /\ CursorInFeed /\ LinksOwned /\ UniqueNames /\ GoneIsDead
  BY DEF DriveInv
<1>1. /\ links'[l] = r /\ r # None /\ r.name = p /\ r.c = c /\ r.live
      /\ \A k \in Links : k # l => links'[k] = links[k]
  <2>1. r \in Link
    BY DEF Link
  <2>2. r # None
    BY <2>1, NoneAssumption
  <2> HIDE DEF r
  <2>3. links'[l] = r /\ \A k \in Links : k # l => links'[k] = links[k]
    BY <1>t DEF TypeOK, r
  <2>4. r.name = p /\ r.c = c /\ r.live
    BY DEF r
  <2> QED  BY <2>2, <2>3, <2>4
<1> HIDE DEF r
<1>2. Live(l)' /\ \A k \in Links : k # l => (Live(k)' <=> Live(k))
  BY <1>1 DEF Live
<1>e. [gone |-> FALSE, id |-> l] \in Event
  BY DEF Event
<1>3. /\ \A k \in Links : Later(k) => Later(k)'
      /\ Later(l)'
      /\ Len(feed') = Len(feed) + 1 /\ feed'[Len(feed) + 1].gone = FALSE
      /\ \A i \in 1 .. Len(feed) : feed'[i] = feed[i]
  BY <1>t, <1>e, OneMoreEvent DEF Changed
<1>4. \A k \in Links : Quiet(k)' => Quiet(k) /\ links'[k] = links[k]
  <2> SUFFICES ASSUME NEW k \in Links, Quiet(k)'
               PROVE  Quiet(k) /\ links'[k] = links[k]
    OBVIOUS
  <2>1. k # l
    BY <1>3 DEF Quiet
  <2>2. links'[k] = links[k] /\ (Live(k)' <=> Live(k))
    BY <1>1, <1>2, <2>1
  <2>3. twice \subseteq twice'
    OBVIOUS
  <2> QED  BY <1>3, <2>2, <2>3 DEF Quiet
<1>5. \A k \in Links : Live(k)' => Live(k) \/ k \in NewLinks
  <2>1. l \in LiveAs(p) => Live(l)
    BY DEF LiveAs, Live
  <2> QED  BY <1>2, <2>1
<1>6. c \in vault => c \in twice' \/ (Live(l) /\ links[l].c = c)
  BY DEF Repeated, Live
<1>7. \A id \in Links, d \in Contents : Owned(id, d) => Owned(id, d)'
  <2> SUFFICES ASSUME NEW id \in Links, NEW d \in Contents, Owned(id, d)
               PROVE  Owned(id, d)'
    OBVIOUS
  <2>1. d \in vault'
    BY DEF Owned
  <2>2. ASSUME NEW k \in Links, Live(k)', links'[k].c = d, d \notin twice'
        PROVE  k = id
    <3>1. d \notin twice
      BY <2>2
    <3>2. CASE k # l
      BY <1>1, <1>2, <2>2, <3>1, <3>2 DEF Owned
    <3>3. CASE k = l
      <4>1. d = c /\ c \in vault
        BY <1>1, <2>2, <3>3 DEF Owned
      <4>2. Live(l) /\ links[l].c = c
        BY <1>6, <2>2, <4>1
      <4> QED  BY <3>1, <3>3, <4>1, <4>2 DEF Owned
    <3> QED  BY <3>2, <3>3
  <2> QED  BY <2>1, <2>2 DEF Owned
<1>8. Owned(l, c)'
  <2>1. ASSUME NEW k \in Links, Live(k)', links'[k].c = c, c \notin twice', k # l
        PROVE  FALSE
    <3>1. Live(k) /\ links[k].c = c /\ c \notin twice
      BY <1>1, <1>2, <2>1
    <3>2. Owned(k, c)
      BY <1>t, <3>1 DEF LinksOwned
    <3>3. Live(l) /\ links[l].c = c
      BY <1>6, <2>1, <3>2 DEF Owned
    <3> QED  BY <2>1, <3>1, <3>2, <3>3 DEF Owned
  <2>2. c \in vault'
    OBVIOUS
  <2> QED  BY <2>1, <2>2 DEF Owned
<1>9. LinksOwned'
  <2> SUFFICES ASSUME NEW k \in Links, Live(k)' PROVE Owned(k, links[k].c)'
    BY DEF LinksOwned
  <2>1. CASE k = l
    BY <1>1, <1>8, <2>1 DEF Owned
  <2>2. CASE k # l
    <3>1. Live(k) /\ links'[k] = links[k] /\ links[k].c \in Contents
      BY <1>1, <1>2, <1>t, <2>2, LinkTyped DEF Live
    <3>2. Owned(k, links[k].c)
      BY <1>t, <3>1 DEF LinksOwned
    <3>3. ASSUME NEW d \in Contents, d = links[k].c PROVE Owned(k, d)'
      BY <1>7, <3>2, <3>3
    <3> QED  BY <3>1, <3>3 DEF Owned
  <2> QED  BY <2>1, <2>2
<1>10. UniqueNames'
  <2> SUFFICES ASSUME NEW j \in Links, NEW k \in Links, Live(j)', Live(k)',
                      links'[j].name = links'[k].name, j # k
               PROVE  FALSE
    BY DEF UniqueNames
  <2>1. ASSUME NEW m \in Links, Live(m), m # l, links[m].name = p PROVE FALSE
    BY <1>t, <2>1 DEF LiveAs, Live, UniqueNames
  <2> QED  BY <1>1, <1>2, <1>t, <2>1 DEF UniqueNames
<1>11. GoneIsDead'
  <2> SUFFICES ASSUME NEW k \in Links, NEW i \in 1 .. Len(feed'),
                      feed'[i].gone, feed'[i].id = k
               PROVE  ~Live(k)'
    BY DEF GoneIsDead
  <2>0. Len(feed) \in Nat
    BY <1>t, FeedFacts
  <2>1. i \in 1 .. Len(feed)
    BY <1>3, <2>0
  <2>2. feed'[i] = feed[i] /\ ~Live(k)
    BY <1>3, <1>t, <2>1, FeedFacts DEF GoneIsDead
  <2>3. k # l
    BY <2>1, <2>2 DEF LiveAs, Live, NewLinks
  <2> QED  BY <1>2, <2>2, <2>3
<1> QED  BY <1>3, <1>4, <1>5, <1>7, <1>8, <1>9, <1>10, <1>11 DEF DriveKeeps

(* A link is trashed (DeviceTrashes, TrashRemote).                         *)
LEMMA TrashKeeps ==
    ASSUME DriveInv, NEW l \in Links, links[l] # None,
           links' = [links EXCEPT ![l].live = FALSE],
           feed' = IF links[l].live THEN Removed(l) ELSE feed,
           UNCHANGED <<vault, twice>>, pass'.mark = pass.mark
    PROVE  DriveKeeps /\ ~Live(l)'
<1>t. TypeOK /\ CursorInFeed /\ LinksOwned /\ UniqueNames /\ GoneIsDead
  BY DEF DriveInv
<1>1. /\ \A k \in Links : k # l => links'[k] = links[k]
      /\ links'[l].live = FALSE
  BY <1>t DEF TypeOK, Link
<1>2. /\ ~Live(l)'
      /\ \A k \in Links : Live(k)' => k # l /\ Live(k) /\ links'[k] = links[k]
  BY <1>1 DEF Live
<1>e. [gone |-> TRUE, id |-> l] \in Event
  BY DEF Event
<1>3. /\ \A k \in Links : Later(k) => Later(k)'
      /\ \A k \in Links, i \in 1 .. Len(feed') :
            \/ i \in 1 .. Len(feed) /\ feed'[i] = feed[i]
            \/ feed'[i].id = l
  <2>0. Len(feed) \in Nat
    BY <1>t, FeedFacts
  <2>1. CASE links[l].live
    <3>1. /\ \A k \in Links : Later(k) => Later(k)'
          /\ Len(feed') = Len(feed) + 1
          /\ feed'[Len(feed) + 1] = [gone |-> TRUE, id |-> l]
          /\ \A i \in 1 .. Len(feed) : feed'[i] = feed[i]
      BY <2>1, <1>t, <1>e, OneMoreEvent DEF Removed
    <3> QED  BY <2>0, <3>1
  <2>2. CASE ~links[l].live
    <3>1. feed' = feed
      BY <2>2
    <3> QED  BY <3>1 DEF Later
  <2>3. links[l].live \in BOOLEAN
    BY <1>t, LinkTyped
  <2> QED  BY <2>1, <2>2, <2>3
<1>5. GoneIsDead'
  <2> SUFFICES ASSUME NEW k \in Links, NEW i \in 1 .. Len(feed'),
                      feed'[i].gone, feed'[i].id = k
               PROVE  ~Live(k)'
    BY DEF GoneIsDead
  <2> QED  BY <1>t, <1>2, <1>3 DEF GoneIsDead
<1>6. \A k \in Links : Quiet(k)' => Quiet(k) /\ links'[k] = links[k]
  BY <1>2, <1>3 DEF Quiet
<1>7. \A id \in Links, d \in Contents : Owned(id, d) => Owned(id, d)'
  BY <1>2 DEF Owned
<1>8. LinksOwned'
  BY <1>t, <1>2 DEF LinksOwned, Owned
<1>9. UniqueNames'
  BY <1>t, <1>2 DEF UniqueNames
<1> QED  BY <1>2, <1>5, <1>6, <1>7, <1>8, <1>9 DEF DriveKeeps

(* A link is renamed (DeviceRenames, MoveRemote).                          *)
LEMMA RenameKeeps ==
    ASSUME DriveInv, NEW l \in Links, NEW p \in Paths, Live(l), LiveAs(p) = {},
           links' = [links EXCEPT ![l].name = p],
           feed' = Changed(l), UNCHANGED <<vault, twice>>,
           pass'.mark = pass.mark
    PROVE  DriveKeeps /\ Later(l)'
<1>t. TypeOK /\ CursorInFeed /\ LinksOwned /\ UniqueNames /\ GoneIsDead
  BY DEF DriveInv
<1>1. /\ \A k \in Links : k # l => links'[k] = links[k]
      /\ links'[l].name = p /\ links'[l].c = links[l].c
  BY <1>t DEF TypeOK, Link, Live
<1>2. /\ \A k \in Links : Live(k)' => Live(k)
      /\ \A k \in Links : links'[k] # None /\ links[k] # None
                            => links'[k].c = links[k].c
  BY <1>1 DEF Live
<1>e. [gone |-> FALSE, id |-> l] \in Event
  BY DEF Event
<1>3. /\ \A k \in Links : Later(k) => Later(k)'
      /\ Later(l)'
      /\ Len(feed') = Len(feed) + 1 /\ feed'[Len(feed) + 1].gone = FALSE
      /\ \A i \in 1 .. Len(feed) : feed'[i] = feed[i]
  BY <1>t, <1>e, OneMoreEvent DEF Changed
<1>4. \A k \in Links : Quiet(k)' => Quiet(k) /\ links'[k] = links[k]
  BY <1>1, <1>2, <1>3 DEF Quiet
<1>5. \A id \in Links, d \in Contents : Owned(id, d) => Owned(id, d)'
  BY <1>2 DEF Owned, Live
<1>6. LinksOwned'
  BY <1>t, <1>2 DEF LinksOwned, Owned, Live
<1>7. UniqueNames'
  BY <1>t, <1>1, <1>2 DEF UniqueNames, LiveAs, Live
<1>8. GoneIsDead'
  <2> SUFFICES ASSUME NEW k \in Links, NEW i \in 1 .. Len(feed'),
                      feed'[i].gone, feed'[i].id = k
               PROVE  ~Live(k)'
    BY DEF GoneIsDead
  <2>1. i \in 1 .. Len(feed)
    BY <1>t, <1>3, FeedFacts
  <2>2. feed'[i] = feed[i] /\ ~Live(k)
    BY <1>3, <1>t, <2>1, FeedFacts DEF GoneIsDead
  <2> QED  BY <1>2, <2>2
<1> QED  BY <1>2, <1>3, <1>4, <1>5, <1>6, <1>7, <1>8 DEF DriveKeeps

-----------------------------------------------------------------------------
(* A step that changes nothing but the pass leaves every link as it stood. *)
Still ==
    /\ \A l \in Links : /\ Live(l)' <=> Live(l)
                        /\ Quiet(l)' <=> Quiet(l)
                        /\ links'[l] = links[l] /\ NodeOf(l)' = NodeOf(l)
                        /\ Tracked(l)' <=> Tracked(l)
                        /\ Differs(l)' <=> Differs(l)
    /\ LinksOwned' /\ UniqueNames' /\ GoneIsDead' /\ UniqueInodes'
    /\ (\A id \in Links, c \in Contents : Paired(id, c)' => Paired(id, c))
          => HashesOwned'
    /\ pass.step \notin {"commit", "record"} => RenamedIsExact'

(* Nothing but the pass changes.                                           *)
LEMMA Idling ==
    ASSUME CInv, UNCHANGED <<disk, rows, links, vault, twice, feed>>,
           pass'.mark = pass.mark
    PROVE  Still
<1>1. \A l \in Links : (Live(l)' <=> Live(l)) /\ (Quiet(l)' <=> Quiet(l))
  BY DEF Live, Quiet, Later
<1>2. \A l \in Links : /\ links'[l] = links[l] /\ NodeOf(l)' = NodeOf(l)
                       /\ Tracked(l)' <=> Tracked(l)
                       /\ Differs(l)' <=> Differs(l)
  BY DEF NodeOf, Tracked, Differs
<1>3. LinksOwned' /\ UniqueNames' /\ GoneIsDead' /\ UniqueInodes'
  BY <1>1 DEF CInv, LinksOwned, Owned, UniqueNames, GoneIsDead, UniqueInodes
<1>4. \A id \in Links, c \in Contents : Owned(id, c)' <=> Owned(id, c)
  BY <1>1 DEF Owned
<1>5. (\A id \in Links, c \in Contents : Paired(id, c)' => Paired(id, c))
          => HashesOwned'
  BY <1>4 DEF CInv, HashesOwned
<1>6. pass.step \notin {"commit", "record"} => RenamedIsExact'
  BY DEF CInv, RenamedIsExact
<1> QED  BY <1>1, <1>2, <1>3, <1>5, <1>6 DEF Still

(* A pass starts with no locals.                                           *)
LEMMA StartCursor ==
    ASSUME TypeOK, Locals, CInv, CursorPrecautions,
           NEW kind \in Kinds, Start(kind)
    PROVE  CInv'
<1>1. kind \in {"sync", "refresh"} /\ pass.mark = 0 /\ pass.step = "idle"
  BY DEF CursorPrecautions, CInv, KindsApart, Start, PullSteps
<1>2. /\ pass'.step = IF kind = "refresh" THEN "list" ELSE "poll"
      /\ pass'.kind = kind /\ pass'.push = (kind = "sync") /\ pass'.mark = 0
      /\ pass'.dels = {} /\ pass'.kids = {}
      /\ pass'.base = [p \in Paths |-> None]
  BY <1>1 DEF Start, NoPass
<1>3. Still
  BY <1>1, <1>2, Idling DEF Start, machine, drive, events, ghosts
<1>4. \A id \in Links, c \in Contents : Paired(id, c)' => Paired(id, c)
  BY <1>2 DEF Paired, Start, machine, Applied
<1>5. DelsAreDead' /\ KindsApart' /\ KidsApart' /\ DeletedIsDead'
  BY <1>1, <1>2 DEF DelsAreDead, KindsApart, KidsApart, DeletedIsDead, Applied,
     PullSteps
<1>6. ScanIsExact' /\ PlanHolds' /\ ActsAsPlanned' /\ Pushed'
  BY <1>2 DEF ScanIsExact, PlanHolds, ActsAsPlanned, Pushed, Applying, PushSteps
<1>7. AtRest' /\ Listed' /\ Kept' /\ Pulled'
  BY <1>1, <1>2, <1>3 DEF AtRest, Listed, Kept, Pulled, Still, CInv, Applied,
     Start, machine
<1> QED  BY <1>1, <1>3, <1>4, <1>5, <1>6, <1>7 DEF CInv, Still

(* The batch: a link all of whose events are deletions is not live, so the *)
(* others are quiet for the new mark only if they were before.             *)
LEMMA PollEventsCursor ==
    ASSUME TypeOK, Locals, CInv, PollEvents PROVE CInv'
<1> DEFINE dels == {e.id : e \in {b \in {feed[i] : i \in 1 .. visible} : b.gone}}
           relist == \E e \in {feed[i] : i \in 1 .. visible} : ~e.gone
<1>1. /\ pass.step = "poll" /\ primed /\ pass.kind = "sync" /\ pass.push
      /\ pass.mark = 0 /\ CursorInFeed
  BY DEF PollEvents, CInv, KindsApart, PullSteps, Locals
<1>2. /\ pass'.step = "delete" /\ pass'.kind = "events" /\ pass'.mark = visible
      /\ pass'.dels = dels /\ pass'.relist = relist /\ pass'.push = pass.push
      /\ pass'.kids = pass.kids /\ pass'.base = pass.base
  BY DEF PollEvents, TypeOK, Pass
<1>3. UNCHANGED <<disk, rows, primed, links, vault, twice, feed>>
  BY DEF PollEvents, machine, drive, events, ghosts
<1>4. /\ visible \in Nat /\ visible <= Len(feed) /\ Len(feed) \in Nat
      /\ \A i \in 1 .. Len(feed) : feed[i].id \in Links /\ feed[i].gone \in BOOLEAN
  BY <1>1, FeedFacts
<1>5. \A l \in Links : (Live(l)' <=> Live(l)) /\ (Tracked(l)' <=> Tracked(l))
  BY <1>3 DEF Live, Tracked
<1>6. \A l \in Links : l \in dels => ~Live(l)
  BY <1>1, <1>4 DEF CInv, GoneIsDead
<1>7. ~relist => \A l \in Links : Quiet(l)' => Quiet(l)
  <2> SUFFICES ASSUME ~relist, NEW l \in Links, Quiet(l)' PROVE Quiet(l)
    OBVIOUS
  <2>1. Live(l) /\ links[l].c \notin twice
    BY <1>3, <1>5 DEF Quiet
  <2>2. \A i \in 1 .. Len(feed) : feed[i].id = l => i <= visible
    BY <1>2, <1>3, <1>4 DEF Quiet, Later
  <2>3. \A i \in 1 .. visible : feed[i].gone
    BY <1>4
  <2>4. \A i \in 1 .. Len(feed) : feed[i].id # l
    BY <1>4, <2>1, <2>2, <2>3 DEF CInv, GoneIsDead
  <2> QED  BY <1>1, <1>4, <2>1, <2>4 DEF Quiet, Later
<1> HIDE DEF dels, relist
<1>8. LinksOwned' /\ UniqueNames' /\ GoneIsDead' /\ UniqueInodes'
  BY <1>3, <1>5 DEF CInv, LinksOwned, Owned, UniqueNames, GoneIsDead, UniqueInodes
<1>9. HashesOwned' /\ RenamedIsExact' /\ ScanIsExact'
  BY <1>1, <1>2, <1>3, <1>5 DEF CInv, HashesOwned, Paired, Owned, RenamedIsExact,
     ScanIsExact, PushSteps, Applied
<1>10. DelsAreDead'
  BY <1>2, <1>4, <1>5, <1>6 DEF DelsAreDead, dels
<1>11. KindsApart' /\ KidsApart' /\ DeletedIsDead'
  BY <1>1, <1>2, <1>3 DEF CInv, KindsApart, KidsApart, DeletedIsDead, Applied,
     PullSteps
<1>12. PlanHolds' /\ ActsAsPlanned' /\ Pushed'
  BY <1>2 DEF PlanHolds, ActsAsPlanned, Pushed, Applying, PushSteps
<1>13. AtRest' /\ Listed' /\ Kept' /\ Pulled'
  BY <1>1, <1>2, <1>3, <1>5, <1>7 DEF CInv, AtRest, Listed, Kept, Pulled, Applied
<1> QED  BY <1>8, <1>9, <1>10, <1>11, <1>12, <1>13 DEF CInv

(* A walk takes the mark and promises nothing yet.                         *)
LEMMA StartWalkCursor ==
    ASSUME TypeOK, Locals, CInv, StartWalk PROVE CInv'
<1>1. /\ pass.step = "poll" /\ pass.kind = "sync" /\ pass.push
      /\ pass.mark = 0 /\ CursorInFeed
  BY DEF StartWalk, CInv, KindsApart, PullSteps, Locals
<1>2. /\ pass'.step = "list" /\ pass'.kind = "walk" /\ pass'.push = pass.push
      /\ pass'.dels = pass.dels /\ pass'.kids = pass.kids
      /\ pass'.base = pass.base
  BY DEF StartWalk, TypeOK, Pass
<1>3. UNCHANGED <<disk, rows, primed, links, vault, twice, feed>>
  BY DEF StartWalk, machine, drive, events, ghosts
<1>4. \A l \in Links : Live(l)' <=> Live(l)
  BY <1>3 DEF Live
<1>5. LinksOwned' /\ UniqueNames' /\ GoneIsDead' /\ UniqueInodes'
  BY <1>3, <1>4 DEF CInv, LinksOwned, Owned, UniqueNames, GoneIsDead, UniqueInodes
<1>6. HashesOwned' /\ RenamedIsExact' /\ ScanIsExact' /\ DelsAreDead'
  BY <1>1, <1>2, <1>3, <1>4 DEF CInv, HashesOwned, Paired, Owned, RenamedIsExact,
     ScanIsExact, PushSteps, Applied, DelsAreDead
<1>7. KindsApart' /\ KidsApart' /\ DeletedIsDead'
  BY <1>1, <1>2, <1>3 DEF CInv, KindsApart, KidsApart, DeletedIsDead, Applied,
     PullSteps
<1>8. PlanHolds' /\ ActsAsPlanned' /\ Pushed'
  BY <1>2 DEF PlanHolds, ActsAsPlanned, Pushed, Applying, PushSteps
<1>9. AtRest' /\ Listed' /\ Kept' /\ Pulled'
  BY <1>1, <1>2 DEF AtRest, Listed, Kept, Pulled, Applied
<1> QED  BY <1>5, <1>6, <1>7, <1>8, <1>9 DEF CInv

(* The pass ends, after an error or at its end.                            *)
LEMMA EndCursor ==
    ASSUME TypeOK, Locals, CInv, UNCHANGED <<machine, drive, events, ghosts>>,
           pass' = NoPass, pass.mark = 0, pass.step \notin {"commit", "record"},
           primed => \A l \in Links : Quiet(l) => Tracked(l)
    PROVE  CInv'
<1>1. /\ pass'.step = "idle" /\ pass'.kind = "sync" /\ pass'.mark = 0
      /\ pass'.dels = {} /\ pass'.kids = {}
      /\ pass'.base = [p \in Paths |-> None]
  BY DEF NoPass
<1>2. Still /\ UNCHANGED <<disk, rows, primed>>
  BY <1>1, Idling DEF machine, drive, events, ghosts
<1>3. \A id \in Links, c \in Contents : Paired(id, c)' => Paired(id, c)
  BY <1>1, <1>2 DEF Paired, Applied
<1>4. DelsAreDead' /\ KindsApart' /\ KidsApart' /\ DeletedIsDead'
  BY <1>1 DEF DelsAreDead, KindsApart, KidsApart, DeletedIsDead, Applied,
     PullSteps
<1>5. ScanIsExact' /\ PlanHolds' /\ ActsAsPlanned' /\ Pushed'
  BY <1>1 DEF ScanIsExact, PlanHolds, ActsAsPlanned, Pushed, Applying, PushSteps
<1>6. AtRest' /\ Listed' /\ Kept' /\ Pulled'
  BY <1>1, <1>2 DEF AtRest, Listed, Kept, Pulled, Still, Applied
<1> QED  BY <1>2, <1>3, <1>4, <1>5, <1>6 DEF CInv, Still

(* The poll fails and the pass is over.                                    *)
LEMMA PollFailsCursor ==
    ASSUME TypeOK, Locals, CInv, PollFails PROVE CInv'
<1>1. pass.step = "poll" /\ pass.mark = 0 /\ pass' = NoPass
  BY DEF PollFails, CInv, KindsApart, PullSteps
<1>2. primed => \A l \in Links : Quiet(l) => Tracked(l)
  BY <1>1 DEF CInv, AtRest
<1> QED  BY <1>1, <1>2, EndCursor DEF PollFails

(* With nothing to list, each quiet link has its row.                      *)
LEMMA DeletesDoneCursor ==
    ASSUME TypeOK, Locals, CInv, DeletesDone PROVE CInv'
<1>1. pass.step = "delete" /\ pass.kind = "events" /\ primed /\ pass.push
  BY DEF DeletesDone, CInv, KindsApart, PullSteps
<1>2. /\ pass'.step = IF pass.relist THEN "list" ELSE "cursor"
      /\ \A f \in {"kind", "push", "mark", "dels", "kids", "base"} :
            pass'[f] = pass[f]
  BY DEF DeletesDone, Goto, TypeOK, Pass
<1>3. Still /\ UNCHANGED <<disk, rows, primed>>
  BY <1>2, Idling DEF DeletesDone, machine, drive, events, ghosts
<1>4. \A id \in Links, c \in Contents : Paired(id, c)' => Paired(id, c)
  BY <1>2, <1>3 DEF Paired, Applied
<1>5. DelsAreDead' /\ KindsApart' /\ KidsApart' /\ DeletedIsDead'
  BY <1>1, <1>2, <1>3 DEF CInv, DelsAreDead, KindsApart, KidsApart,
     DeletedIsDead, Applied, PullSteps, Still
<1>6. ScanIsExact' /\ PlanHolds' /\ ActsAsPlanned' /\ Pushed'
  BY <1>2 DEF ScanIsExact, PlanHolds, ActsAsPlanned, Pushed, Applying, PushSteps
<1>7. AtRest' /\ Listed' /\ Kept' /\ Pulled'
  BY <1>1, <1>2, <1>3 DEF CInv, AtRest, Listed, Kept, Pulled, Still, Applied
<1> QED  BY <1>1, <1>3, <1>4, <1>5, <1>6, <1>7 DEF CInv, Still

(* The listing shows each live link.                                       *)
LEMMA ListCursor == ASSUME TypeOK, Locals, CInv, List PROVE CInv'
<1> DEFINE kids == {[id |-> l, name |-> links[l].name, c |-> links[l].c] :
                      l \in {x \in Links : links[x] # None /\ links[x].live}}
<1>1. pass.step = "list" /\ pass.kind \in {"events", "walk", "refresh"}
  BY DEF List, CInv, KindsApart, PullSteps
<1>2. /\ \A n \in kids : \E l \in Links : Live(l) /\ n = NodeOf(l)
      /\ \A l \in Links : Live(l) => NodeOf(l) \in kids
  BY DEF Live, NodeOf
<1> HIDE DEF kids
<1>3. /\ pass'.step = "apply" /\ pass'.kids = kids /\ pass'.todo = kids
      /\ \A f \in {"kind", "push", "mark", "dels", "relist", "base"} :
            pass'[f] = pass[f]
  BY DEF List, TypeOK, Pass, kids
<1>4. Still /\ UNCHANGED <<disk, rows, primed>>
  BY <1>3, Idling DEF List, machine, drive, events, ghosts
<1>5. \A id \in Links, c \in Contents : Paired(id, c)' => Paired(id, c)
  BY <1>3, <1>4 DEF Paired, Applied
<1>6. DelsAreDead' /\ KindsApart' /\ DeletedIsDead'
  BY <1>1, <1>3, <1>4 DEF CInv, DelsAreDead, KindsApart, DeletedIsDead, Applied,
     PullSteps, Still
<1>7. KidsApart'
  BY <1>2, <1>3 DEF CInv, KidsApart, UniqueNames, NodeOf, Applied
<1>8. ScanIsExact' /\ PlanHolds' /\ ActsAsPlanned' /\ Pushed'
  BY <1>3 DEF ScanIsExact, PlanHolds, ActsAsPlanned, Pushed, Applying, PushSteps
<1>9. AtRest' /\ Listed' /\ Kept' /\ Pulled'
  BY <1>1, <1>2, <1>3, <1>4 DEF CInv, AtRest, Listed, Awaited, Kept, Pulled,
     Still, Applied, Quiet
<1> QED  BY <1>1, <1>4, <1>5, <1>6, <1>7, <1>8, <1>9 DEF CInv, Still

(* A child with the row's digest is the row's own link, unless its         *)
(* revision has been held twice.                                           *)
LEMMA ApplySkipCursor ==
    ASSUME TypeOK, Locals, CInv, NEW n \in pass.todo, ApplySkip(n) PROVE CInv'
<1>1. /\ pass.step = "apply" /\ Settled(n)
      /\ pass.kind \in {"events", "walk", "refresh"}
  BY DEF ApplySkip, CInv, KindsApart, PullSteps
<1>2. /\ pass'.todo = pass.todo \ {n}
      /\ \A f \in {"step", "kind", "push", "mark", "dels", "relist", "kids",
                   "base"} : pass'[f] = pass[f]
  BY DEF ApplySkip, TypeOK, Pass
<1>3. Still /\ UNCHANGED <<disk, rows, primed>>
  BY <1>2, Idling DEF ApplySkip, machine, drive, events, ghosts
<1>4. \A id \in Links, c \in Contents : Paired(id, c)' => Paired(id, c)
  BY <1>1, <1>2, <1>3 DEF Paired, Applied
<1>5. DelsAreDead' /\ KindsApart' /\ KidsApart' /\ DeletedIsDead'
  BY <1>1, <1>2, <1>3 DEF CInv, DelsAreDead, KindsApart, KidsApart,
     DeletedIsDead, Applied, PullSteps, Still
<1>6. ScanIsExact' /\ PlanHolds' /\ ActsAsPlanned' /\ Pushed'
  BY <1>1, <1>2 DEF ScanIsExact, PlanHolds, ActsAsPlanned, Pushed, Applying,
     PushSteps
<1>7. \A l \in Links : Quiet(l) /\ n = NodeOf(l) => Tracked(l) \/ Differs(l)
  <2> SUFFICES ASSUME NEW l \in Links, Quiet(l), n = NodeOf(l),
                      rows[links[l].name].hash = links[l].c
               PROVE  rows[links[l].name].id = l
    BY <1>1 DEF Settled, NodeOf, Tracked, Differs
  <2>1. links[l].name \in Paths /\ links[l].c \in Contents
    BY LinkTyped DEF Quiet, Live
  <2>2. rows[links[l].name] # None /\ rows[links[l].name].id \in Links
    BY <1>1, <2>1 DEF Settled, NodeOf, TypeOK, Row
  <2>3. Owned(rows[links[l].name].id, links[l].c)
    BY <2>1, <2>2 DEF CInv, HashesOwned, Paired
  <2> QED  BY <2>1, <2>2, <2>3 DEF Owned, Quiet
<1>8. AtRest' /\ Kept' /\ Pulled'
  BY <1>1, <1>2, <1>3 DEF CInv, AtRest, Kept, Pulled, Still
<1>9. Listed'
  BY <1>1, <1>2, <1>3, <1>7 DEF CInv, Listed, Awaited, Still, Applied
<1> QED  BY <1>1, <1>3, <1>4, <1>5, <1>6, <1>8, <1>9 DEF CInv, Still

(* The revision downloaded is the link's.                                  *)
LEMMA DownloadCursor ==
    ASSUME TypeOK, Locals, CInv, NEW n \in pass.todo, Download(n) PROVE CInv'
<1>1. /\ pass.step = "apply" /\ pass.kind \in {"events", "walk", "refresh"}
      /\ pass.todo \subseteq pass.kids /\ n \in pass.kids /\ n \in Node
      /\ n.id \in Links /\ links[n.id] # None /\ links[n.id].live
  BY DEF Download, CInv, KindsApart, PullSteps, Locals, ApplyLocals, KnownLinks,
     TypeOK, Pass, Node
<1>2. /\ pass'.todo = pass.todo \ {n} /\ pass'.node = n
      /\ pass'.staged = links[n.id].c /\ pass'.step = "preserve"
      /\ \A f \in {"kind", "push", "mark", "dels", "relist", "kids", "base"} :
            pass'[f] = pass[f]
  BY DEF Download, TypeOK, Pass
<1>3. Still /\ UNCHANGED <<disk, rows, primed, links>>
  BY <1>2, Idling DEF Download, machine, drive, events, ghosts
<1>4. HashesOwned'
  <2>1. Owned(n.id, links[n.id].c)
    BY <1>1 DEF CInv, LinksOwned, Live
  <2>2. \A id \in Links, c \in Contents :
            Paired(id, c)' => Paired(id, c) \/ (id = n.id /\ c = links[n.id].c)
    BY <1>1, <1>2, <1>3 DEF Paired, Applied
  <2>3. \A id \in Links, c \in Contents : Owned(id, c) => Owned(id, c)'
    BY <1>3 DEF Owned, Still, Download, drive, ghosts
  <2> QED  BY <2>1, <2>2, <2>3 DEF CInv, HashesOwned
<1>5. DelsAreDead' /\ KindsApart' /\ DeletedIsDead'
  BY <1>1, <1>2, <1>3 DEF CInv, DelsAreDead, KindsApart, DeletedIsDead, Applied,
     PullSteps, Still
<1>6. KidsApart'
  BY <1>1, <1>2, <1>3 DEF CInv, KidsApart, Still
<1>7. ScanIsExact' /\ PlanHolds' /\ ActsAsPlanned' /\ Pushed'
  BY <1>1, <1>2 DEF ScanIsExact, PlanHolds, ActsAsPlanned, Pushed, Applying,
     PushSteps
<1>8. AtRest' /\ Kept' /\ Pulled'
  BY <1>1, <1>2, <1>3 DEF CInv, AtRest, Kept, Pulled, Still
<1>9. Listed'
  BY <1>1, <1>2, <1>3 DEF CInv, Listed, Awaited, Still, Applied
<1> QED  BY <1>1, <1>3, <1>4, <1>5, <1>6, <1>7, <1>8, <1>9 DEF CInv, Still

(* A download that fails for good: the link is not live, so not quiet.     *)
LEMMA DownloadGoneCursor ==
    ASSUME TypeOK, Locals, CInv, NEW n \in pass.todo, DownloadGone(n)
    PROVE  CInv'
<1>1. pass.step = "apply" /\ pass.kind \in {"events", "walk", "refresh"}
  BY DEF DownloadGone, DownloadError, CInv, KindsApart, PullSteps
<1>2. /\ pass'.todo = pass.todo \ {n}
      /\ \A f \in {"step", "kind", "push", "mark", "dels", "relist", "kids",
                   "base"} : pass'[f] = pass[f]
  BY DEF DownloadGone, DownloadError, TypeOK, Pass
<1>3. Still /\ UNCHANGED <<disk, rows, primed>>
  BY <1>2, Idling DEF DownloadGone, DownloadError, machine, drive, events, ghosts
<1>4. \A id \in Links, c \in Contents : Paired(id, c)' => Paired(id, c)
  BY <1>1, <1>2, <1>3 DEF Paired, Applied
<1>5. DelsAreDead' /\ KindsApart' /\ KidsApart' /\ DeletedIsDead'
  BY <1>1, <1>2, <1>3 DEF CInv, DelsAreDead, KindsApart, KidsApart,
     DeletedIsDead, Applied, PullSteps, Still
<1>6. ScanIsExact' /\ PlanHolds' /\ ActsAsPlanned' /\ Pushed'
  BY <1>1, <1>2 DEF ScanIsExact, PlanHolds, ActsAsPlanned, Pushed, Applying,
     PushSteps
<1>7. \A l \in Links : Quiet(l) => n # NodeOf(l)
  BY DEF DownloadGone, Quiet, Live, NodeOf
<1>8. AtRest' /\ Kept' /\ Pulled'
  BY <1>1, <1>2, <1>3 DEF CInv, AtRest, Kept, Pulled, Still
<1>9. Listed'
  BY <1>1, <1>2, <1>3, <1>7 DEF CInv, Listed, Awaited, Still, Applied
<1> QED  BY <1>1, <1>3, <1>4, <1>5, <1>6, <1>8, <1>9 DEF CInv, Still

(* A row that is not in the listing is no quiet link's.                    *)
LEMMA FindStaleCursor ==
    ASSUME TypeOK, Locals, CInv, FindStale PROVE CInv'
<1>1. /\ pass.step = "apply" /\ pass.todo = {}
      /\ pass.kind \in {"events", "walk", "refresh"}
  BY DEF FindStale, CInv, KindsApart, PullSteps
<1>2. /\ pass'.step = "reap" /\ pass'.kids = {}
      /\ \A p \in pass'.doomed : \A n \in pass.kids : n.name # p
      /\ \A f \in {"kind", "push", "mark", "dels", "relist", "base"} :
            pass'[f] = pass[f]
  BY DEF FindStale, TypeOK, Pass
<1>3. Still /\ UNCHANGED <<disk, rows, primed>>
  BY <1>2, Idling DEF FindStale, machine, drive, events, ghosts
<1>4. \A id \in Links, c \in Contents : Paired(id, c)' => Paired(id, c)
  BY <1>2, <1>3 DEF Paired, Applied
<1>5. DelsAreDead' /\ KindsApart' /\ KidsApart' /\ DeletedIsDead'
  BY <1>1, <1>2, <1>3 DEF CInv, DelsAreDead, KindsApart, KidsApart,
     DeletedIsDead, Applied, PullSteps, Still
<1>6. ScanIsExact' /\ PlanHolds' /\ ActsAsPlanned' /\ Pushed'
  BY <1>2 DEF ScanIsExact, PlanHolds, ActsAsPlanned, Pushed, Applying, PushSteps
<1>7. \A l \in Links : Quiet(l) => NodeOf(l) \in pass.kids
  BY <1>1 DEF CInv, Listed
<1>8. Kept'
  BY <1>2, <1>3, <1>7 DEF Kept, Still, NodeOf
<1>9. AtRest' /\ Listed' /\ Pulled'
  BY <1>1, <1>2, <1>3 DEF CInv, AtRest, Listed, Awaited, Pulled, Still, Applied
<1> QED  BY <1>1, <1>3, <1>4, <1>5, <1>6, <1>8, <1>9 DEF CInv, Still

(* The pull is over, or the refresh.                                       *)
LEMMA ReapDoneCursor ==
    ASSUME TypeOK, Locals, CInv, ReapDone PROVE CInv'
<1>1. pass.step = "reap" /\ pass.kind \in {"events", "walk", "refresh"}
  BY DEF ReapDone, CInv, KindsApart, PullSteps
<1>2. CASE pass.kind = "refresh"
  <2>1. /\ pass' = NoPass /\ pass.mark = 0
        /\ primed => \A l \in Links : Quiet(l) => Tracked(l)
    BY <1>2 DEF ReapDone, CInv, KindsApart, AtRest
  <2> QED  BY <1>1, <2>1, EndCursor DEF ReapDone
<1>3. CASE pass.kind # "refresh"
  <2>1. /\ pass'.step = "cursor"
        /\ \A f \in {"kind", "push", "mark", "dels", "kids", "base"} :
              pass'[f] = pass[f]
    BY <1>3 DEF ReapDone, TypeOK, Pass
  <2>2. Still /\ UNCHANGED <<disk, rows, primed>>
    BY <2>1, Idling DEF ReapDone, machine, drive, events, ghosts
  <2>3. \A id \in Links, c \in Contents : Paired(id, c)' => Paired(id, c)
    BY <2>1, <2>2 DEF Paired, Applied
  <2>4. DelsAreDead' /\ KindsApart' /\ KidsApart' /\ DeletedIsDead'
    BY <1>1, <1>3, <2>1, <2>2 DEF CInv, DelsAreDead, KindsApart, KidsApart,
       DeletedIsDead, Applied, PullSteps, Still
  <2>5. ScanIsExact' /\ PlanHolds' /\ ActsAsPlanned' /\ Pushed'
    BY <2>1 DEF ScanIsExact, PlanHolds, ActsAsPlanned, Pushed, Applying, PushSteps
  <2>6. AtRest' /\ Listed' /\ Kept' /\ Pulled'
    BY <1>1, <1>3, <2>1, <2>2 DEF CInv, AtRest, Listed, Kept, Pulled, Still,
       Applied
  <2> QED  BY <1>1, <2>2, <2>3, <2>4, <2>5, <2>6 DEF CInv, Still
<1> QED  BY <1>2, <1>3

(* The scan before the push sees the folder as it is.                      *)
LEMMA RescanCursor == ASSUME TypeOK, Locals, CInv, Rescan PROVE CInv'
<1>1. pass.step = "rescan" /\ pass.mark = 0 /\ pass.kind # "refresh"
  BY DEF Rescan, CInv, KindsApart, PullSteps, Applied
<1>2. /\ pass'.step = "baseline" /\ pass'.local = disk
      /\ \A f \in {"kind", "push", "mark", "dels", "kids", "base"} :
            pass'[f] = pass[f]
  BY DEF Rescan, TypeOK, Pass
<1>3. Still /\ UNCHANGED <<disk, rows, primed>>
  BY <1>2, Idling DEF Rescan, machine, drive, events, ghosts
<1>4. \A id \in Links, c \in Contents : Paired(id, c)' => Paired(id, c)
  BY <1>2, <1>3 DEF Paired, Applied
<1>5. DelsAreDead' /\ KindsApart' /\ KidsApart' /\ DeletedIsDead'
  BY <1>1, <1>2, <1>3 DEF CInv, DelsAreDead, KindsApart, KidsApart,
     DeletedIsDead, Applied, PullSteps, Still
<1>6. ScanIsExact' /\ PlanHolds' /\ ActsAsPlanned' /\ Pushed'
  BY <1>2, <1>3 DEF ScanIsExact, PlanHolds, ActsAsPlanned, Pushed, Applying,
     PushSteps
<1>7. AtRest' /\ Listed' /\ Kept' /\ Pulled'
  BY <1>1, <1>2, <1>3 DEF CInv, AtRest, Listed, Kept, Pulled, Still, Applied
<1> QED  BY <1>1, <1>3, <1>4, <1>5, <1>6, <1>7 DEF CInv, Still

(* The plan of the push: a move is of the revision its row has.            *)
LEMMA BaselineCursor == ASSUME TypeOK, Locals, CInv, Baseline PROVE CInv'
<1>1. /\ pass.step = "baseline" /\ pass.mark = 0 /\ pass.kind # "refresh"
      /\ pass.local = disk
  BY DEF Baseline, CInv, KindsApart, ScanIsExact, PullSteps, PushSteps, Applied
<1>2. PICK m \in Matchings(rows), r \in [Paths -> Contents \cup {None}] :
         /\ r \in ReadHashes(rows, m)
         /\ LET moved == {p \in DOMAIN m : m[p] # None} IN
            pass' = [pass EXCEPT
                !.step = "move", !.base = rows, !.read = r,
                !.moves = [p \in Paths |-> IF p \in moved THEN m[p] ELSE None],
                !.doomed = DOMAIN m \ moved,
                !.todo = {p \in Paths : pass.local[p] # None}
                            \ {m[p] : p \in moved}]
  BY DEF Baseline, ReadHashes
<1>3. /\ m \in [Missing(rows) -> Candidates(rows) \cup {None}]
      /\ \A p, q \in Missing(rows) : m[p] = m[q] /\ m[p] # None => p = q
      /\ \A p \in Missing(rows) :
            m[p] # None => Matches(rows[p], m[p])
      /\ \A p \in Paths : r[p] # None => disk[p] # None /\ r[p] = disk[p].c
  BY <1>2 DEF Matchings, ReadHashes, HeldAt
<1>4. /\ \A p \in Missing(rows) : /\ p \in Paths /\ rows[p] # None
                                  /\ pass.local[p] = None
      /\ \A p \in Candidates(rows) : /\ p \in Paths /\ rows[p] = None
                                     /\ pass.local[p] # None
  BY DEF Missing, Candidates
<1>5. /\ pass'.step = "move" /\ pass'.base = rows /\ pass'.read = r
      /\ pass'.moves =
            [p \in Paths |-> IF p \in Missing(rows) THEN m[p] ELSE None]
      /\ pass'.doomed = {p \in Missing(rows) : m[p] = None}
      /\ pass'.todo = {p \in Paths : pass.local[p] # None}
                         \ {m[p] : p \in {q \in Missing(rows) : m[q] # None}}
      /\ \A f \in {"kind", "push", "mark", "dels", "kids", "local"} :
            pass'[f] = pass[f]
  BY <1>2, <1>3 DEF TypeOK, Pass, ReadHashes
<1>6. Still /\ UNCHANGED <<disk, rows, primed>>
  BY <1>5, Idling DEF Baseline, machine, drive, events, ghosts
<1>7. \A id \in Links, c \in Contents : Paired(id, c)' => Paired(id, c)
  BY <1>5, <1>6 DEF Paired, Applied
<1>8. DelsAreDead' /\ KindsApart' /\ KidsApart' /\ DeletedIsDead'
  BY <1>1, <1>5, <1>6 DEF CInv, DelsAreDead, KindsApart, KidsApart,
     DeletedIsDead, Applied, PullSteps, Still
<1>9. ScanIsExact' /\ ActsAsPlanned'
  BY <1>1, <1>3, <1>5, <1>6 DEF ScanIsExact, ActsAsPlanned
<1>10. PlanHolds'
  <2>1. \A p \in Missing(rows) : m[p] # None => rows[p].hash = pass.local[m[p]].c
    BY <1>1, <1>3, <1>4 DEF CInv, RenamedIsExact, Matches, SameBytes
  <2> QED  BY <1>3, <1>4, <1>5, <1>6, <2>1 DEF PlanHolds
<1>11. Pushed'
  <2>1. \A l \in Links : Quiet(l) => Tracked(l) \/ Differs(l)
    BY <1>1 DEF CInv, Pulled
  <2>2. \A l \in Links : Quiet(l) => links[l].name \in Paths
    BY LinkTyped DEF Quiet, Live
  <2>3. ASSUME NEW p \in Paths, rows[p] # None, disk[p] # None
        PROVE  p \in pass'.todo
    BY <1>1, <1>3, <1>4, <1>5, <2>3
  <2>4. \A l \in Links : Quiet(l) /\ Differs(l) => ToUpload(l)'
    BY <1>5, <1>6, <2>2, <2>3 DEF ToUpload, Differs, Still
  <2> QED  BY <1>5, <1>6, <2>1, <2>4 DEF Pushed, Still
<1>12. AtRest' /\ Listed' /\ Kept' /\ Pulled'
  BY <1>1, <1>5 DEF AtRest, Listed, Kept, Pulled, Applied
<1> QED  BY <1>1, <1>6, <1>7, <1>8, <1>9, <1>10, <1>11, <1>12 DEF CInv, Still

(* A request of the push that fails, and a step that only takes a path off *)
(* one of its lists.                                                       *)
LEMMA PushOn ==
    ASSUME TypeOK, Locals, CInv,
           UNCHANGED <<machine, drive, events, twice>>,
           pass.step \in Applying,
           pass'.step \in Applying \ {"drop", "replace", "untrack", "upload",
                                      "track"},
           \A f \in {"kind", "push", "mark", "dels", "kids", "base", "local", "read"} :
              pass'[f] = pass[f],
           pass.step # "replace",
           \A p \in Paths : pass'.moves[p] \in {pass.moves[p], None},
           pass'.doomed \subseteq pass.doomed, pass'.todo \subseteq pass.todo,
           pass'.step # "move" => \A p \in Paths : pass'.moves[p] = None,
           \A l \in Links :
              Quiet(l) /\ ToUpload(l) => links[l].name \in pass'.todo
    PROVE  CInv'
<1>1. pass.mark = 0 /\ pass.kind # "refresh"
  BY DEF CInv, KindsApart, PullSteps, PushSteps, Applied, Applying
<1>2. Still /\ UNCHANGED <<disk, rows, primed>>
  BY Idling DEF machine, drive, events
<1>3. \A id \in Links, c \in Contents : Paired(id, c)' => Paired(id, c)
  BY <1>2 DEF Paired, Applied, Applying, PushSteps
<1>4. DelsAreDead' /\ KindsApart' /\ KidsApart' /\ DeletedIsDead'
  BY <1>1, <1>2 DEF CInv, DelsAreDead, KindsApart, KidsApart, DeletedIsDead,
     Applied, Applying, PushSteps, PullSteps, Still
<1>5. ScanIsExact' /\ ActsAsPlanned'
  BY <1>2 DEF CInv, ScanIsExact, ActsAsPlanned, Applying, PushSteps
<1>6. PlanHolds'
  <2>1. pass'.base = pass.base /\ pass'.local = pass.local /\ rows' = rows
    BY <1>2
  <2>2. \A p \in Paths : pass'.moves[p] # None => pass'.moves[p] = pass.moves[p]
    OBVIOUS
  <2>3. pass.doomed \subseteq Paths
    BY DEF TypeOK, Pass
  <2> QED  BY <2>1, <2>2, <2>3 DEF CInv, PlanHolds
<1>7. Pushed'
  BY <1>2 DEF CInv, Pushed, ToUpload, Still
<1>8. AtRest' /\ Listed' /\ Kept' /\ Pulled'
  BY <1>1 DEF AtRest, Listed, Kept, Pulled, Applied, Applying, PushSteps
<1>9. pass.step \notin {"commit", "record"}
  BY DEF Applying, PushSteps
<1> QED  BY <1>2, <1>3, <1>4, <1>5, <1>6, <1>7, <1>8, <1>9 DEF CInv, Still

(* A move that Drive refuses, or that fails.                               *)
LEMMA MoveErrorCursor ==
    ASSUME TypeOK, Locals, CInv, NEW p \in Paths, MoveError(p) PROVE CInv'
<1>1. /\ pass.step = "move" /\ pass'.step = "move"
      /\ pass'.moves = [pass.moves EXCEPT ![p] = None]
      /\ \A f \in {"kind", "push", "mark", "dels", "kids", "base", "local", "read",
                   "doomed", "todo"} : pass'[f] = pass[f]
  BY DEF MoveError, TypeOK, Pass
<1>2. \A q \in Paths : pass'.moves[q] \in {pass.moves[q], None}
  BY <1>1 DEF TypeOK, Pass
<1>3. \A l \in Links : ToUpload(l) => links[l].name \in pass.todo
  BY <1>1 DEF ToUpload
<1> QED  BY <1>1, <1>2, <1>3, PushOn DEF MoveError, ghosts, Applying, PushSteps

(* From the moves to the deletions.                                        *)
LEMMA MovesDoneCursor == ASSUME TypeOK, Locals, CInv, MovesDone PROVE CInv'
<1>1. /\ pass.step = "move" /\ pass'.step = "trash"
      /\ \A p \in Paths : pass.moves[p] = None
      /\ \A f \in {"kind", "push", "mark", "dels", "kids", "base", "local", "read",
                   "moves", "doomed", "todo"} : pass'[f] = pass[f]
  BY DEF MovesDone, Goto, TypeOK, Pass
<1>2. \A l \in Links : ToUpload(l) => links[l].name \in pass.todo
  BY <1>1 DEF ToUpload
<1> QED  BY <1>1, <1>2, PushOn DEF MovesDone, ghosts, Applying, PushSteps

(* A deletion that fails.                                                  *)
LEMMA TrashFailsCursor ==
    ASSUME TypeOK, Locals, CInv, NEW p \in Paths, TrashFails(p) PROVE CInv'
<1>1. /\ pass.step = "trash" /\ pass'.step = "trash"
      /\ pass'.doomed = pass.doomed \ {p}
      /\ \A f \in {"kind", "push", "mark", "dels", "kids", "base", "local", "read",
                   "moves", "todo"} : pass'[f] = pass[f]
  BY DEF TrashFails, TypeOK, Pass
<1>2. \A q \in Paths : pass.moves[q] = None
  BY <1>1 DEF CInv, ActsAsPlanned
<1>3. \A l \in Links : ToUpload(l) => links[l].name \in pass.todo
  BY <1>1 DEF ToUpload
<1> QED  BY <1>1, <1>2, <1>3, PushOn DEF TrashFails, ghosts, Applying, PushSteps

(* From the deletions to the uploads.                                      *)
LEMMA TrashDoneCursor == ASSUME TypeOK, Locals, CInv, TrashDone PROVE CInv'
<1>1. /\ pass.step = "trash" /\ pass'.step = "push"
      /\ \A f \in {"kind", "push", "mark", "dels", "kids", "base", "local", "read",
                   "moves", "doomed", "todo"} : pass'[f] = pass[f]
  BY DEF TrashDone, Goto, TypeOK, Pass
<1>2. \A q \in Paths : pass.moves[q] = None
  BY <1>1 DEF CInv, ActsAsPlanned
<1>3. \A l \in Links : ToUpload(l) => links[l].name \in pass.todo
  BY <1>1 DEF ToUpload
<1> QED  BY <1>1, <1>2, <1>3, PushOn DEF TrashDone, ghosts, Applying, PushSteps

(* A file that agrees with its row is not one a link waits for.            *)
LEMMA PushSkipCursor ==
    ASSUME TypeOK, Locals, CInv, NEW p \in Paths, PushSkip(p) PROVE CInv'
<1>1. /\ pass.step = "push" /\ pass'.step = "push"
      /\ pass'.todo = pass.todo \ {p}
      /\ \A f \in {"kind", "push", "mark", "dels", "kids", "base", "local", "read",
                   "moves", "doomed"} : pass'[f] = pass[f]
  BY DEF PushSkip, TypeOK, Pass
<1>2. \A q \in Paths : pass.moves[q] = None
  BY <1>1 DEF CInv, ActsAsPlanned
<1>3. \A l \in Links : ToUpload(l) => /\ links[l].name \in pass.todo
                                      /\ links[l].name # p
  <2>1. pass.read[p] # None => disk[p] # None /\ pass.read[p] = disk[p].c
    BY <1>1 DEF CInv, ScanIsExact, PushSteps
  <2>2. disk[p] # None => HashToPush(p) = disk[p].c /\ disk[p].c # None
    BY <2>1, NoneAssumption DEF HashToPush, TypeOK, File
  <2> QED  BY <1>1, <2>2 DEF ToUpload, Differs, PushSkip
<1> QED  BY <1>1, <1>2, <1>3, PushOn DEF PushSkip, ghosts, Applying, PushSteps

(* The file that is going to be uploaded.                                  *)
LEMMA PushHashCursor ==
    ASSUME TypeOK, Locals, CInv, NEW p \in Paths, PushHash(p) PROVE CInv'
<1>1. /\ pass.step = "push" /\ pass.mark = 0 /\ pass.kind # "refresh"
      /\ p \in pass.todo /\ disk[p] # None /\ HashToPush(p) = disk[p].c
  BY DEF PushHash, HashToPush, CInv, KindsApart, ScanIsExact, PullSteps,
     PushSteps, Applied
<1>2. /\ pass'.step = "upload" /\ pass'.todo = pass.todo \ {p}
      /\ pass'.path = p /\ pass'.hash = disk[p].c
      /\ \A f \in {"kind", "push", "mark", "dels", "kids", "base", "local", "read",
                   "moves", "doomed"} : pass'[f] = pass[f]
  BY <1>1 DEF PushHash, TypeOK, Pass
<1>3. Still /\ UNCHANGED <<disk, rows, primed>>
  BY <1>2, Idling DEF PushHash, machine, drive, events, ghosts
<1>4. \A id \in Links, c \in Contents : Paired(id, c)' => Paired(id, c)
  BY <1>2, <1>3 DEF Paired, Applied
<1>5. DelsAreDead' /\ KindsApart' /\ KidsApart' /\ DeletedIsDead'
  BY <1>1, <1>2, <1>3 DEF CInv, DelsAreDead, KindsApart, KidsApart,
     DeletedIsDead, Applied, PullSteps, Still
<1>6. ScanIsExact' /\ PlanHolds' /\ ActsAsPlanned'
  BY <1>1, <1>2, <1>3 DEF CInv, ScanIsExact, PlanHolds, ActsAsPlanned, Applying,
     PushSteps
<1>7. Pushed'
  BY <1>1, <1>2, <1>3 DEF CInv, Pushed, ToUpload, Still, Applying, PushSteps
<1>8. AtRest' /\ Listed' /\ Kept' /\ Pulled'
  BY <1>1, <1>2 DEF AtRest, Listed, Kept, Pulled, Applied
<1> QED  BY <1>1, <1>3, <1>4, <1>5, <1>6, <1>7, <1>8 DEF CInv, Still

(* The push runs on the folder it scanned: what it uploads is there.       *)
LEMMA UploadGoneCursor == ASSUME CInv, UploadGone PROVE FALSE
  BY DEF UploadGone, UploadError, CInv, ScanIsExact

(* With nothing left to upload, each quiet link has its row.               *)
LEMMA PushDoneCursor == ASSUME TypeOK, Locals, CInv, PushDone PROVE CInv'
<1>1. pass.step = "push" /\ pass.mark = 0 /\ pass' = NoPass
  BY DEF PushDone, CInv, KindsApart, PullSteps
<1>2. \A l \in Links : Quiet(l) => Tracked(l)
  BY <1>1 DEF PushDone, CInv, Pushed, ToUpload, Applying, PushSteps
<1> QED  BY <1>1, <1>2, EndCursor DEF PushDone

(* The events up to the mark are dropped: what was later still is.         *)
LEMMA SaveCursorCursor == ASSUME TypeOK, Locals, CInv, SaveCursor PROVE CInv'
<1>1. /\ pass.step = "cursor" /\ pass.kind # "refresh" /\ pass.push
      /\ CursorInFeed
  BY DEF SaveCursor, CInv, KindsApart, PullSteps, Applied, Locals
<1>2. /\ pass'.step = "rescan" /\ pass'.kind = "sync" /\ pass'.mark = 0
      /\ pass'.dels = {} /\ pass'.kids = {}
      /\ pass'.base = [p \in Paths |-> None]
  BY <1>1 DEF SaveCursor, NoPass
<1>3. UNCHANGED <<disk, rows, links, vault, twice>>
  BY DEF SaveCursor, drive, ghosts
<1>4. /\ Len(feed) \in Nat /\ pass.mark \in Nat /\ pass.mark <= Len(feed)
      /\ feed \in Seq(Event)
  BY <1>1, FeedFacts DEF TypeOK
<1>5. /\ Len(feed') = Len(feed) - pass.mark
      /\ \A i \in 1 .. Len(feed) - pass.mark : feed'[i] = feed[i + pass.mark]
  BY <1>4 DEF SaveCursor
<1>6. \A l \in Links : (Live(l)' <=> Live(l)) /\ (Later(l)' <=> Later(l))
  <2> SUFFICES ASSUME NEW l \in Links PROVE Later(l)' <=> Later(l)
    BY <1>3 DEF Live
  <2>1. ASSUME Later(l)' PROVE Later(l)
    <3>1. PICK i \in 1 .. Len(feed') : feed'[i].id = l
      BY <1>2, <2>1 DEF Later
    <3>2. i + pass.mark \in pass.mark + 1 .. Len(feed)
      BY <1>4, <1>5
    <3> QED  BY <1>5, <3>1, <3>2 DEF Later
  <2>2. ASSUME Later(l) PROVE Later(l)'
    <3>1. PICK i \in pass.mark + 1 .. Len(feed) : feed[i].id = l
      BY <2>2 DEF Later
    <3>2. /\ i - pass.mark \in 1 .. Len(feed')
          /\ (i - pass.mark) + pass.mark = i
      BY <1>4, <1>5
    <3>3. feed'[i - pass.mark] = feed[i]
      BY <1>5, <3>2
    <3> QED  BY <1>2, <3>1, <3>2, <3>3 DEF Later
  <2> QED  BY <2>1, <2>2
<1>7. \A l \in Links : (Quiet(l)' <=> Quiet(l)) /\ (Tracked(l)' <=> Tracked(l))
                           /\ (Differs(l)' <=> Differs(l))
  BY <1>3, <1>6 DEF Quiet, Tracked, Differs
<1>8. LinksOwned' /\ UniqueNames' /\ UniqueInodes' /\ RenamedIsExact'
  BY <1>1, <1>3, <1>6 DEF CInv, LinksOwned, Owned, UniqueNames, UniqueInodes,
     RenamedIsExact
<1>9. GoneIsDead'
  <2> SUFFICES ASSUME NEW l \in Links, NEW i \in 1 .. Len(feed'),
                      feed'[i].gone, feed'[i].id = l
               PROVE  ~Live(l)'
    BY DEF GoneIsDead
  <2>1. i + pass.mark \in 1 .. Len(feed) /\ feed'[i] = feed[i + pass.mark]
    BY <1>4, <1>5
  <2> QED  BY <1>6, <2>1 DEF CInv, GoneIsDead
<1>10. HashesOwned'
  BY <1>2, <1>3, <1>6 DEF CInv, HashesOwned, Paired, Owned, Applied
<1>11. DelsAreDead' /\ KindsApart' /\ KidsApart' /\ DeletedIsDead'
  BY <1>2 DEF DelsAreDead, KindsApart, KidsApart, DeletedIsDead, Applied,
     PullSteps
<1>12. ScanIsExact' /\ PlanHolds' /\ ActsAsPlanned' /\ Pushed'
  BY <1>2 DEF ScanIsExact, PlanHolds, ActsAsPlanned, Pushed, Applying, PushSteps
<1>13. AtRest' /\ Listed' /\ Kept' /\ Pulled'
  BY <1>1, <1>2, <1>7 DEF CInv, AtRest, Listed, Kept, Pulled, Applied
<1> QED  BY <1>8, <1>9, <1>10, <1>11, <1>12, <1>13 DEF CInv

-----------------------------------------------------------------------------
(* Another device, or Drive publishing: the machine stands still.          *)
LEMMA DriveMoves ==
    ASSUME TypeOK, Locals, CInv, DriveKeeps,
           UNCHANGED <<disk, rows, primed, pass>>
    PROVE  CInv'
<1>1. /\ LinksOwned' /\ UniqueNames' /\ GoneIsDead'
      /\ UniqueInodes' /\ RenamedIsExact' /\ ScanIsExact' /\ KindsApart'
  BY DEF CInv, DriveKeeps, UniqueInodes, RenamedIsExact, ScanIsExact, KindsApart
<1>2. /\ \A l \in Links : Live(l)' => Live(l) \/ l \in NewLinks
      /\ \A id \in Links, c \in Contents : Owned(id, c) => Owned(id, c)'
  BY DEF DriveKeeps
<1>3. HashesOwned'
  BY <1>2 DEF CInv, HashesOwned, Paired
<1>4. DelsAreDead' /\ DeletedIsDead'
  <2>1. \A l \in NewLinks : l \notin pass.dels
    BY DEF NewLinks
  <2>2. \A l \in NewLinks : \A p \in Paths : rows[p] # None => rows[p].id # l
    BY DEF NewLinks
  <2>3. pass.step = "deleted" => pass.path \in Paths
    BY DEF TypeOK, Pass, Locals, PathLocals
  <2> QED  BY <1>2, <2>1, <2>2, <2>3 DEF CInv, DelsAreDead, DeletedIsDead
<1>5. \A l \in Links : Quiet(l)' =>
          /\ Quiet(l) /\ links'[l] = links[l] /\ NodeOf(l)' = NodeOf(l)
          /\ Tracked(l) => Tracked(l)'
          /\ Differs(l) => Differs(l)'
          /\ ToUpload(l) => ToUpload(l)'
          /\ Awaited(l) => Awaited(l)'
  BY DEF DriveKeeps, NodeOf, Tracked, Differs, ToUpload, Awaited
<1>6. KidsApart' /\ Kept'
  BY <1>5 DEF CInv, KidsApart, Kept
<1>7. PlanHolds'
  BY DEF CInv, PlanHolds
<1>8. ActsAsPlanned'
  <2>1. \A l \in NewLinks :
            \A p \in Paths : pass.base[p] # None => pass.base[p].id # l
    BY DEF NewLinks
  <2>2. pass.step \in {"drop", "untrack"} => pass.path \in Paths
    BY DEF TypeOK, Pass, Locals, PathLocals
  <2> QED  BY <1>2, <1>5, <2>1, <2>2 DEF CInv, ActsAsPlanned
<1>9. AtRest' /\ Listed' /\ Pulled' /\ Pushed'
  BY <1>5 DEF CInv, AtRest, Listed, Pulled, Pushed
<1> QED  BY <1>1, <1>3, <1>4, <1>6, <1>7, <1>8, <1>9 DEF CInv

(* What the other devices do to a link comes with an event.                *)
LEMMA DeviceCursor ==
    ASSUME TypeOK, Locals, CInv, Device PROVE CInv'
<1>d. DriveInv
  BY DEF CInv, DriveInv, Locals
<1>1. ASSUME NEW p \in Files, NEW c \in Uploadable, DeviceWrites(p, c)
      PROVE  CInv'
  <2>1. c \in Contents /\ p \in Paths
    BY OneOfIn DEF Uploadable, NewContents, TypeOK, Paths
  <2>2. PICK l \in (IF LiveAs(p) # {} THEN LiveAs(p) ELSE OneOf(NewLinks)) :
          /\ links' = [links EXCEPT ![l] = [name |-> p, c |-> c, live |-> TRUE]]
          /\ feed' = Changed(l) /\ twice' = twice \cup Repeated(l, c)
    BY <1>1 DEF DeviceWrites
  <2>3. l \in Links /\ (l \in LiveAs(p) \/ (LiveAs(p) = {} /\ l \in NewLinks))
    BY OneOfIn DEF LiveAs, NewLinks
  <2>4. DriveKeeps
    BY <1>1, <1>d, <2>1, <2>2, <2>3, WriteKeeps DEF DeviceWrites
  <2> QED  BY <1>1, <2>4, DriveMoves DEF DeviceWrites, machine
<1>2. ASSUME NEW l \in Links, DeviceTrashes(l) PROVE CInv'
  <2>1. DriveKeeps
    BY <1>2, <1>d, TrashKeeps DEF DeviceTrashes, ghosts
  <2> QED  BY <1>2, <2>1, DriveMoves DEF DeviceTrashes, machine
<1>3. ASSUME NEW l \in Links, NEW p \in Files, DeviceRenames(l, p) PROVE CInv'
  <2>1. DriveKeeps
    BY <1>3, <1>d, RenameKeeps DEF DeviceRenames, ghosts, Live, Paths
  <2> QED  BY <1>3, <2>1, DriveMoves DEF DeviceRenames, machine
<1> QED  BY <1>1, <1>2, <1>3 DEF Device

(* Drive publishes an event.                                               *)
LEMMA PublishCursor ==
    ASSUME TypeOK, Locals, CInv, Publish PROVE CInv'
<1>1. DriveKeeps
  BY SameDrive DEF Publish, drive, ghosts, DriveInv, CInv, Locals
<1> QED  BY <1>1, DriveMoves DEF Publish, machine

(* The local user, between passes.                                         *)
LEMMA UserCursor ==
    ASSUME TypeOK, Locals, CInv, CursorPrecautions, User PROVE CInv'
<1>1. /\ pass.step = "idle" /\ FreeRenames = FALSE
      /\ UNCHANGED <<rows, primed, links, vault, twice, feed, pass>>
  BY DEF User, UserWrites, UserDeletes, UserRenames, UserMayAct, drive, events,
     CursorPrecautions
<1>2. UniqueInodes' /\ RenamedIsExact'
  <2>0. Files \subseteq Paths /\ disk \in [Paths -> File \cup {None}]
    BY DEF Paths, TypeOK
  <2>1. ASSUME NEW p \in Files, NEW c \in OneOf(NewContents), UserWrites(p, c)
        PROVE  UniqueInodes' /\ RenamedIsExact'
    <3>1. ASSUME NEW i \in OneOf(NewInodes),
                 disk' = [disk EXCEPT ![p] = [c |-> c, ino |-> i]]
          PROVE  UniqueInodes' /\ RenamedIsExact'
      <4>1. i \in NewInodes
        BY OneOfIn
      <4> QED  BY <1>1, <2>0, <3>1, <4>1 DEF NewInodes, CInv, UniqueInodes,
               RenamedIsExact
    <3>2. ASSUME disk[p] # None, ~Renamed(p), disk' = [disk EXCEPT ![p].c = c]
          PROVE  UniqueInodes' /\ RenamedIsExact'
      <4>1. /\ disk'[p].ino = disk[p].ino
            /\ \A q \in Paths : q # p => disk'[q] = disk[q]
        BY <2>0, <3>2 DEF File
      <4> QED  BY <1>1, <2>0, <3>2, <4>1 DEF Renamed, CInv, UniqueInodes,
               RenamedIsExact
    <3> QED  BY <1>1, <2>1, <3>1, <3>2 DEF UserWrites
  <2>2. ASSUME NEW p \in Files, UserDeletes(p)
        PROVE  UniqueInodes' /\ RenamedIsExact'
    BY <1>1, <2>0, <2>2 DEF UserDeletes, CInv, UniqueInodes, RenamedIsExact
  <2>3. ASSUME NEW p \in Files, NEW q \in Files, UserRenames(p, q)
        PROVE  UniqueInodes' /\ RenamedIsExact'
    <3>1. /\ disk[p] # None /\ disk[q] = None /\ p \in Paths /\ q \in Paths
          /\ disk'[q] = disk[p] /\ disk'[p] = None
          /\ \A r \in Paths \ {p, q} : disk'[r] = disk[r]
          /\ \A r \in Paths : rows[r] # None /\ rows[r].ino = disk[p].ino
                                 => rows[r].hash = disk[p].c
      BY <1>1, <2>0, <2>3 DEF UserRenames
    <3> QED  BY <1>1, <3>1 DEF CInv, UniqueInodes, RenamedIsExact
  <2> QED  BY <2>1, <2>2, <2>3 DEF User
<1>3. \A l \in Links : /\ (Live(l)' <=> Live(l)) /\ (Quiet(l)' <=> Quiet(l))
                       /\ (Tracked(l)' <=> Tracked(l))
  BY <1>1 DEF Live, Quiet, Later, Tracked
<1>4. LinksOwned' /\ UniqueNames' /\ GoneIsDead' /\ DelsAreDead' /\ HashesOwned'
  BY <1>1, <1>3 DEF CInv, LinksOwned, Owned, UniqueNames, GoneIsDead,
     DelsAreDead, HashesOwned, Paired
<1>5. ScanIsExact' /\ KindsApart' /\ DeletedIsDead' /\ PlanHolds'
         /\ ActsAsPlanned' /\ KidsApart'
  BY <1>1 DEF CInv, ScanIsExact, KindsApart, DeletedIsDead, PlanHolds,
     ActsAsPlanned, KidsApart, PushSteps, PullSteps, Applying, Applied
<1>6. AtRest' /\ Listed' /\ Kept' /\ Pulled' /\ Pushed'
  BY <1>1, <1>3 DEF CInv, AtRest, Listed, Kept, Pulled, Pushed, PushSteps,
     KindsApart, Applying, Applied
<1> QED  BY <1>2, <1>4, <1>5, <1>6 DEF CInv

-----------------------------------------------------------------------------
(* A step on the folder or the baseline leaves Drive as it was.            *)
Calm ==
    /\ \A l \in Links : /\ Live(l)' <=> Live(l)
                        /\ Quiet(l)' <=> Quiet(l)
                        /\ links'[l] = links[l] /\ NodeOf(l)' = NodeOf(l)
    /\ LinksOwned' /\ UniqueNames' /\ GoneIsDead'
    /\ \A id \in Links, c \in Contents : Owned(id, c)' <=> Owned(id, c)

(* Neither Drive nor the mark changes.                                     *)
LEMMA Calming ==
    ASSUME CInv, UNCHANGED <<links, vault, twice, feed>>, pass'.mark = pass.mark
    PROVE  Calm
<1>1. \A l \in Links : (Live(l)' <=> Live(l)) /\ (Quiet(l)' <=> Quiet(l))
  BY DEF Live, Quiet, Later
<1>2. LinksOwned' /\ UniqueNames' /\ GoneIsDead'
  BY <1>1 DEF CInv, LinksOwned, Owned, UniqueNames, GoneIsDead
<1> QED  BY <1>1, <1>2 DEF Calm, NodeOf, Owned

(* The first half of a deletion: the row is a dead link's.                 *)
LEMMA DeleteByIDCursor ==
    ASSUME TypeOK, Locals, CInv, NEW l \in Links, DeleteByID(l) PROVE CInv'
<1>1. pass.step = "delete" /\ pass.kind = "events" /\ primed /\ pass.push
  BY DEF DeleteByID, CInv, KindsApart, PullSteps
<1>2. /\ pass'.dels = pass.dels \ {l}
      /\ \A f \in {"kind", "push", "mark", "relist", "kids", "base"} :
            pass'[f] = pass[f]
      /\ pass'.step \in {"delete", "deleted"}
  BY <1>1 DEF DeleteByID, TypeOK, Pass
<1>3. /\ \A p \in Paths : disk'[p] \in {disk[p], None}
      /\ pass'.step = "deleted" /\ rows[pass'.path] # None
            => rows[pass'.path].id = l
  <2>0. pass \in Pass /\ disk \in [Paths -> File \cup {None}]
    BY DEF TypeOK
  <2>1. CASE pass' = [pass EXCEPT !.dels = @ \ {l}] /\ UNCHANGED disk
    BY <1>1, <2>0, <2>1 DEF Pass
  <2>2. CASE \E p \in Paths :
               /\ rows[p] # None /\ rows[p].id = l /\ TrashLocal(p)
               /\ pass' = [pass EXCEPT !.dels = @ \ {l}, !.path = p,
                                       !.step = "deleted"]
    <3>1. PICK p \in Paths :
               /\ rows[p] # None /\ rows[p].id = l /\ TrashLocal(p)
               /\ pass' = [pass EXCEPT !.dels = @ \ {l}, !.path = p,
                                       !.step = "deleted"]
      BY <2>2
    <3>2. \A q \in Paths : disk'[q] \in {disk[q], None}
      BY <2>0, <3>1 DEF TrashLocal
    <3>3. pass'.path = p
      BY <2>0, <3>1 DEF Pass
    <3> QED  BY <3>1, <3>2, <3>3
  <2> QED  BY <2>1, <2>2 DEF DeleteByID
<1>4. Calm /\ UNCHANGED <<rows, primed>>
  BY <1>2, Calming DEF DeleteByID, drive, events, ghosts
<1>5. UniqueInodes' /\ RenamedIsExact' /\ ScanIsExact'
  BY <1>1, <1>2, <1>3, <1>4 DEF CInv, UniqueInodes, RenamedIsExact, ScanIsExact,
     PushSteps
<1>6. HashesOwned'
  BY <1>1, <1>2, <1>4 DEF CInv, HashesOwned, Paired, Calm, Applied
<1>7. DelsAreDead' /\ KindsApart' /\ KidsApart' /\ DeletedIsDead'
  <2>1. ~Live(l)
    BY DEF DeleteByID, CInv, DelsAreDead
  <2> QED  BY <1>1, <1>2, <1>3, <1>4, <2>1 DEF CInv, DelsAreDead, KindsApart,
           KidsApart, DeletedIsDead, Applied, PullSteps, Calm
<1>8. PlanHolds' /\ ActsAsPlanned' /\ Pushed'
  BY <1>2 DEF PlanHolds, ActsAsPlanned, Pushed, Applying, PushSteps
<1>9. AtRest' /\ Listed' /\ Kept' /\ Pulled'
  BY <1>1, <1>2, <1>4 DEF CInv, AtRest, Listed, Kept, Pulled, Tracked, Calm,
     Applied
<1> QED  BY <1>4, <1>5, <1>6, <1>7, <1>8, <1>9 DEF CInv, Calm

(* The same of a row that is not in the listing.                           *)
LEMMA ReapCursor ==
    ASSUME TypeOK, Locals, CInv, NEW p \in Paths, Reap(p) PROVE CInv'
<1>1. /\ pass.step = "reap" /\ p \in pass.doomed
      /\ pass.kind \in {"events", "walk", "refresh"}
  BY DEF Reap, CInv, KindsApart, PullSteps
<1>2. /\ pass'.step = "reaped" /\ pass'.path = p
      /\ pass'.doomed = pass.doomed \ {p}
      /\ \A f \in {"kind", "push", "mark", "dels", "relist", "kids", "base"} :
            pass'[f] = pass[f]
      /\ disk' = [disk EXCEPT ![p] = None]
  BY DEF Reap, TrashLocal, TypeOK, Pass
<1>3. Calm /\ UNCHANGED <<rows, primed>>
  BY <1>2, Calming DEF Reap, drive, events, ghosts
<1>4. UniqueInodes' /\ RenamedIsExact' /\ ScanIsExact'
  BY <1>1, <1>2, <1>3 DEF CInv, UniqueInodes, RenamedIsExact, ScanIsExact,
     PushSteps, TypeOK
<1>5. HashesOwned'
  BY <1>1, <1>2, <1>3 DEF CInv, HashesOwned, Paired, Calm, Applied
<1>6. DelsAreDead' /\ KindsApart' /\ KidsApart' /\ DeletedIsDead'
  BY <1>1, <1>2, <1>3 DEF CInv, DelsAreDead, KindsApart, KidsApart,
     DeletedIsDead, Applied, PullSteps, Calm
<1>7. PlanHolds' /\ ActsAsPlanned' /\ Pushed'
  BY <1>2 DEF PlanHolds, ActsAsPlanned, Pushed, Applying, PushSteps
<1>8. Kept' /\ \A l \in Links : Quiet(l) => links[l].name # p
  BY <1>1, <1>2, <1>3 DEF CInv, Kept, Calm
<1>9. AtRest' /\ Listed' /\ Pulled'
  BY <1>1, <1>2, <1>3, <1>8 DEF CInv, AtRest, Listed, Pulled, Tracked, Differs,
     Calm, Applied, TypeOK
<1> QED  BY <1>3, <1>4, <1>5, <1>6, <1>7, <1>8, <1>9 DEF CInv, Calm

(* The second half: no quiet link loses its row.                           *)
LEMMA ForgetCursor == ASSUME TypeOK, Locals, CInv, Forget PROVE CInv'
<1> DEFINE p == pass.path
<1>1. /\ pass.step \in {"deleted", "reaped"} /\ p \in Paths
      /\ pass.kind \in {"events", "walk", "refresh"}
      /\ pass.step = "deleted" => pass.kind = "events" /\ primed
  BY DEF Forget, CInv, KindsApart, PullSteps, TypeOK, Pass, Locals, PathLocals
<1>2. /\ pass'.step = IF pass.step = "deleted" THEN "delete" ELSE "reap"
      /\ \A f \in {"kind", "push", "mark", "dels", "relist", "kids", "base",
                   "doomed"} : pass'[f] = pass[f]
      /\ rows' = [rows EXCEPT ![p] = None]
  BY DEF Forget, TypeOK, Pass
<1> HIDE DEF p
<1>3. Calm /\ UNCHANGED <<disk, primed>>
  BY <1>2, Calming DEF Forget, drive, events, ghosts
<1>4. UniqueInodes' /\ RenamedIsExact' /\ ScanIsExact'
  BY <1>1, <1>2, <1>3 DEF CInv, UniqueInodes, RenamedIsExact, ScanIsExact,
     PushSteps, TypeOK
<1>5. HashesOwned'
  BY <1>1, <1>2, <1>3 DEF CInv, HashesOwned, Paired, Calm, Applied, TypeOK
<1>6. DelsAreDead' /\ KindsApart' /\ KidsApart' /\ DeletedIsDead'
  BY <1>1, <1>2, <1>3 DEF CInv, DelsAreDead, KindsApart, KidsApart,
     DeletedIsDead, Applied, PullSteps, Calm
<1>7. PlanHolds' /\ ActsAsPlanned' /\ Pushed'
  BY <1>2 DEF PlanHolds, ActsAsPlanned, Pushed, Applying, PushSteps
<1>8. \A l \in Links : Quiet(l) /\ Tracked(l) => links[l].name # p
  BY <1>1 DEF CInv, Kept, DeletedIsDead, Tracked, Quiet, p
<1>9. pass.step = "reaped" => \A l \in Links : Quiet(l) => links[l].name # p
  BY DEF CInv, Kept, p
<1>10. AtRest' /\ Listed' /\ Kept' /\ Pulled'
  BY <1>1, <1>2, <1>3, <1>8, <1>9 DEF CInv, AtRest, Listed, Kept, Pulled,
     Tracked, Differs, Calm, Applied, TypeOK
<1> QED  BY <1>3, <1>4, <1>5, <1>6, <1>7, <1>10 DEF CInv, Calm

(* The conflict copy: the file of no other link is taken.                  *)
LEMMA PreserveCursor == ASSUME TypeOK, Locals, CInv, Preserve PROVE CInv'
<1> DEFINE p == pass.node.name
<1>1. /\ pass.step = "preserve" /\ pass.node \in pass.kids /\ p \in Paths
      /\ pass.kind \in {"events", "walk", "refresh"}
  BY DEF Preserve, CInv, KindsApart, KidsApart, PullSteps, Applied, Locals,
     ApplyLocals, Node
<1>2. /\ pass'.step = "commit"
      /\ \A f \in {"kind", "push", "mark", "dels", "relist", "kids", "base",
                   "todo", "node", "staged"} : pass'[f] = pass[f]
  BY DEF Preserve, Goto, TypeOK, Pass
<1>3. Calm /\ UNCHANGED <<rows, primed>>
  BY <1>2, Calming DEF Preserve, drive, events, ghosts
<1>4. \/ disk' = disk
      \/ \E k \in Paths : /\ k # p /\ disk[k] = None /\ rows[k] = None
                          /\ disk'[k] = disk[p] /\ disk'[p] = None
                          /\ \A q \in Paths \ {k, p} : disk'[q] = disk[q]
  <2>1. CASE disk' = disk
    BY <2>1
  <2>2. CASE disk[p] # None /\ \E k \in OneOf(NewCopies) :
                disk' = [disk EXCEPT ![k] = disk[p], ![p] = None]
    <3>1. PICK k \in NewCopies :
             disk' = [disk EXCEPT ![k] = disk[p], ![p] = None]
      BY <2>2, OneOfIn
    <3>2. k \in Paths /\ disk[k] = None /\ rows[k] = None
      BY DEF NewCopies, Paths
    <3> QED  BY <1>1, <2>2, <3>1, <3>2 DEF TypeOK
  <2> QED  BY <2>1, <2>2 DEF Preserve
<1> HIDE DEF p
<1>5. UniqueInodes'
  BY <1>1, <1>4 DEF CInv, UniqueInodes
<1>6. RenamedIsExact' /\ ScanIsExact'
  BY <1>1, <1>2, <1>3, <1>4 DEF CInv, RenamedIsExact, ScanIsExact, PushSteps, p
<1>7. HashesOwned'
  BY <1>1, <1>2, <1>3 DEF CInv, HashesOwned, Paired, Calm, Applied
<1>8. DelsAreDead' /\ KindsApart' /\ KidsApart' /\ DeletedIsDead'
  BY <1>1, <1>2, <1>3 DEF CInv, DelsAreDead, KindsApart, KidsApart,
     DeletedIsDead, Applied, PullSteps, Calm
<1>9. PlanHolds' /\ ActsAsPlanned' /\ Pushed'
  BY <1>2 DEF PlanHolds, ActsAsPlanned, Pushed, Applying, PushSteps
<1>10. AtRest' /\ Kept' /\ Pulled'
  BY <1>1, <1>2, <1>3 DEF CInv, AtRest, Kept, Pulled, Tracked, Calm, Applied
<1>11. Listed'
  <2> SUFFICES ASSUME NEW l \in Links, Quiet(l), pass.kind # "refresh",
                      ~Tracked(l), Differs(l), ~Awaited(l)
               PROVE  Differs(l)'
    BY <1>1, <1>2, <1>3 DEF CInv, Listed, Awaited, Tracked, Calm, Applied
  <2>1. NodeOf(l) \in pass.kids /\ pass.node # NodeOf(l)
    BY <1>1 DEF CInv, Listed, Awaited, Applied
  <2>2. links[l].name # p /\ links[l].name \in Paths
    BY <1>1, <2>1, LinkTyped DEF CInv, KidsApart, NodeOf, p, Quiet, Live
  <2> QED  BY <1>3, <1>4, <2>2 DEF Differs, Calm
<1> QED  BY <1>3, <1>5, <1>6, <1>7, <1>8, <1>9, <1>10, <1>11 DEF CInv, Calm

(* The download takes its path, which is no other link's.                  *)
LEMMA CommitCursor == ASSUME TypeOK, Locals, CInv, Commit PROVE CInv'
<1> DEFINE p == pass.node.name
<1>1. /\ pass.step = "commit" /\ pass.node \in pass.kids /\ p \in Paths
      /\ pass.kind \in {"events", "walk", "refresh"}
  BY DEF Commit, CInv, KindsApart, KidsApart, PullSteps, Applied, Locals,
     ApplyLocals, Node
<1>2. /\ pass'.step = "record"
      /\ \A f \in {"kind", "push", "mark", "dels", "relist", "kids", "base",
                   "todo", "node", "staged"} : pass'[f] = pass[f]
  BY DEF Commit, Goto, TypeOK, Pass
<1>3. Calm /\ UNCHANGED <<rows, primed>>
  BY <1>2, Calming DEF Commit, drive, events, ghosts
<1>4. PICK i \in NewInodes :
         disk' = [disk EXCEPT ![p] = [c |-> pass.staged, ino |-> i]]
  BY OneOfIn DEF Commit
<1>5. /\ disk'[p].ino = i /\ disk'[p] # None
      /\ \A q \in Paths \ {p} : disk'[q] = disk[q]
  <2>1. pass.staged \in Contents
    BY <1>1 DEF TypeOK, Pass, Locals, ApplyLocals
  <2>2. [c |-> pass.staged, ino |-> i] \in File
    BY <2>1 DEF File, NewInodes
  <2> QED  BY <1>1, <1>4, <2>2, NoneAssumption DEF TypeOK
<1>6. \A q \in Paths : /\ disk[q] # None => disk[q].ino # i
                       /\ rows[q] # None => rows[q].ino # i
  BY DEF NewInodes
<1> HIDE DEF p
<1>7. UniqueInodes'
  BY <1>5, <1>6 DEF CInv, UniqueInodes
<1>8. RenamedIsExact' /\ ScanIsExact'
  BY <1>1, <1>2, <1>3, <1>5, <1>6 DEF CInv, RenamedIsExact, ScanIsExact,
     PushSteps, p
<1>9. HashesOwned'
  BY <1>1, <1>2, <1>3 DEF CInv, HashesOwned, Paired, Calm, Applied
<1>10. DelsAreDead' /\ KindsApart' /\ KidsApart' /\ DeletedIsDead'
  BY <1>1, <1>2, <1>3 DEF CInv, DelsAreDead, KindsApart, KidsApart,
     DeletedIsDead, Applied, PullSteps, Calm
<1>11. PlanHolds' /\ ActsAsPlanned' /\ Pushed'
  BY <1>2 DEF PlanHolds, ActsAsPlanned, Pushed, Applying, PushSteps
<1>12. AtRest' /\ Kept' /\ Pulled'
  BY <1>1, <1>2, <1>3 DEF CInv, AtRest, Kept, Pulled, Tracked, Calm, Applied
<1>13. Listed'
  <2> SUFFICES ASSUME NEW l \in Links, Quiet(l), pass.kind # "refresh",
                      ~Tracked(l), Differs(l), ~Awaited(l)
               PROVE  Differs(l)'
    BY <1>1, <1>2, <1>3 DEF CInv, Listed, Awaited, Tracked, Calm, Applied
  <2>1. NodeOf(l) \in pass.kids /\ pass.node # NodeOf(l)
    BY <1>1 DEF CInv, Listed, Awaited, Applied
  <2>2. links[l].name # p /\ links[l].name \in Paths
    BY <1>1, <2>1, LinkTyped DEF CInv, KidsApart, NodeOf, p, Quiet, Live
  <2> QED  BY <1>3, <1>5, <2>2 DEF Differs, Calm
<1> QED  BY <1>3, <1>7, <1>8, <1>9, <1>10, <1>11, <1>12, <1>13 DEF CInv, Calm

(* The row of the download is its link's.                                  *)
LEMMA RecordCursor == ASSUME TypeOK, Locals, CInv, Record PROVE CInv'
<1> DEFINE p == pass.node.name
<1>1. /\ pass.step = "record" /\ pass.node \in pass.kids /\ p \in Paths
      /\ pass.node.id \in Links /\ pass.staged \in Contents
      /\ pass.kind \in {"events", "walk", "refresh"} /\ disk[p] # None
  BY DEF Record, CInv, KindsApart, KidsApart, PullSteps, Applied, Locals,
     ApplyLocals, Node, ScanIsExact, TypeOK, Pass
<1>2. /\ pass'.step = "apply"
      /\ \A f \in {"kind", "push", "mark", "dels", "relist", "kids", "base",
                   "todo"} : pass'[f] = pass[f]
  BY DEF Record, TypeOK, Pass
<1>3. Calm /\ UNCHANGED <<disk, primed>>
  BY <1>2, Calming DEF Record, drive, events, ghosts
<1>4. /\ rows'[p] # None /\ rows'[p].id = pass.node.id
      /\ rows'[p].hash = pass.staged /\ rows'[p].ino = disk[p].ino
      /\ \A q \in Paths \ {p} : rows'[q] = rows[q]
  <2>1. PICK s \in {disk[p].c}
                       \cup (IF disk[p].c = pass.staged THEN {} ELSE {None}) :
           rows' = [rows EXCEPT ![p] =
                      [id |-> pass.node.id, hash |-> pass.staged,
                       stamp |-> s, ino |-> disk[p].ino]]
    BY <1>1 DEF Record
  <2>2. disk[p].c \in Contents /\ disk[p].ino \in Inodes
    BY <1>1 DEF TypeOK, File
  <2>3. [id |-> pass.node.id, hash |-> pass.staged, stamp |-> s,
         ino |-> disk[p].ino] \in Row
    BY <1>1, <2>1, <2>2 DEF Row
  <2> QED  BY <1>1, <2>1, <2>3, NoneAssumption DEF TypeOK
<1> HIDE DEF p
<1>5. UniqueInodes' /\ RenamedIsExact' /\ ScanIsExact'
  BY <1>1, <1>2, <1>3, <1>4 DEF CInv, UniqueInodes, RenamedIsExact, ScanIsExact,
     PushSteps, p
<1>6. HashesOwned'
  BY <1>1, <1>2, <1>3, <1>4 DEF CInv, HashesOwned, Paired, Calm, Applied
<1>7. DelsAreDead' /\ KindsApart' /\ KidsApart' /\ DeletedIsDead'
  BY <1>1, <1>2, <1>3 DEF CInv, DelsAreDead, KindsApart, KidsApart,
     DeletedIsDead, Applied, PullSteps, Calm
<1>8. PlanHolds' /\ ActsAsPlanned' /\ Pushed'
  BY <1>2 DEF PlanHolds, ActsAsPlanned, Pushed, Applying, PushSteps
<1>9. \A l \in Links : Quiet(l) /\ (pass.node = NodeOf(l) \/ links[l].name = p)
         => Tracked(l)'
  <2> SUFFICES ASSUME NEW l \in Links, Quiet(l),
                      pass.node = NodeOf(l) \/ links[l].name = p
               PROVE  Tracked(l)'
    OBVIOUS
  <2>1. NodeOf(l) \in pass.kids
    BY <1>1 DEF CInv, Listed, Applied
  <2>2. pass.node = NodeOf(l)
    BY <1>1, <2>1 DEF CInv, KidsApart, NodeOf, p
  <2>3. pass.node.id = l /\ links[l].name = p /\ links[l].c = pass.staged
    BY <1>1, <2>2 DEF CInv, KidsApart, NodeOf, p, Applied
  <2> QED  BY <1>3, <1>4, <2>3 DEF Tracked, Calm
<1>10. \A l \in Links : Quiet(l) => links[l].name \in Paths
  BY LinkTyped DEF Quiet, Live
<1>11. \A l \in Links : Quiet(l) /\ Tracked(l) => Tracked(l)'
  BY <1>3, <1>4, <1>9, <1>10 DEF Tracked, Calm
<1>12. Listed'
  <2>1. \A l \in Links : Quiet(l) /\ Differs(l) => Tracked(l)' \/ Differs(l)'
    BY <1>3, <1>4, <1>9, <1>10 DEF Differs, Calm
  <2> QED  BY <1>1, <1>2, <1>3, <1>9, <1>11, <2>1 DEF CInv, Listed, Awaited,
           Calm, Applied
<1>13. AtRest' /\ Kept' /\ Pulled'
  BY <1>1, <1>2, <1>3, <1>11 DEF CInv, AtRest, Kept, Pulled, Calm, Applied
<1> QED  BY <1>3, <1>5, <1>6, <1>7, <1>8, <1>12, <1>13 DEF CInv, Calm

-----------------------------------------------------------------------------
(* A step of the push that writes a row or asks something of Drive: what   *)
(* it leaves alone, once its own parts of the invariant are shown.         *)
LEMMA PushStepCursor ==
    ASSUME TypeOK, Locals, CInv, DriveKeeps,
           UNCHANGED <<disk, primed>>,
           pass.step \in Applying, pass'.step \in Applying,
           \A f \in {"kind", "push", "mark", "dels", "kids", "base", "local", "read"} :
              pass'[f] = pass[f],
           pass'.step \in {"upload", "track"} =>
              /\ disk[pass'.path] # None /\ pass'.hash = disk[pass'.path].c,
           HashesOwned', RenamedIsExact', PlanHolds', ActsAsPlanned', Pushed'
    PROVE  CInv'
<1>1. pass.mark = 0 /\ pass.kind # "refresh"
  BY DEF CInv, KindsApart, PullSteps, PushSteps, Applied, Applying
<1>2. LinksOwned' /\ UniqueNames' /\ GoneIsDead'
  BY DEF DriveKeeps
<1>3. DelsAreDead'
  <2>1. \A l \in NewLinks : l \notin pass.dels
    BY DEF NewLinks
  <2> QED  BY <2>1 DEF CInv, DelsAreDead, DriveKeeps
<1>4. UniqueInodes' /\ ScanIsExact'
  BY DEF CInv, UniqueInodes, ScanIsExact, Applying, PushSteps
<1>5. KindsApart' /\ KidsApart' /\ DeletedIsDead'
  BY <1>1 DEF CInv, KindsApart, KidsApart, DeletedIsDead, Applied, Applying,
     PushSteps, PullSteps
<1>6. AtRest' /\ Listed' /\ Kept' /\ Pulled'
  BY <1>1 DEF AtRest, Listed, Kept, Pulled, Applied, Applying, PushSteps
<1> QED  BY <1>2, <1>3, <1>4, <1>5, <1>6 DEF CInv

(* A rename in Drive: its event makes the link unquiet.                    *)
LEMMA MoveRemoteCursor ==
    ASSUME TypeOK, Locals, CInv, NEW p \in Paths, MoveRemote(p) PROVE CInv'
<1>1. /\ pass.step = "move" /\ pass.moves[p] \in Paths
      /\ pass.base[p] # None /\ pass.base[p].id \in Links
      /\ links[pass.base[p].id] # None
  BY DEF MoveRemote, Locals, PushLocals, KnownLinks, Applying, PushSteps,
     TypeOK, Pass, Row
<1>2. PICK l \in Links, t \in Paths : l = pass.base[p].id /\ t = pass.moves[p]
  BY <1>1
<1>3. /\ Live(l) /\ LiveAs(t) = {}
      /\ links' = [links EXCEPT ![l].name = t] /\ feed' = Changed(l)
      /\ UNCHANGED <<disk, rows, primed, vault, twice>>
  BY <1>1, <1>2 DEF MoveRemote, Live, machine, ghosts
<1>4. /\ pass'.step = "drop" /\ pass'.path = p
      /\ \A f \in {"kind", "push", "mark", "dels", "kids", "base", "local", "read",
                   "moves", "doomed", "todo"} : pass'[f] = pass[f]
  BY DEF MoveRemote, TypeOK, Pass
<1>5. DriveKeeps /\ Later(l)'
  BY <1>3, <1>4, RenameKeeps DEF DriveInv, CInv, Locals
<1>6. HashesOwned'
  BY <1>1, <1>3, <1>4, <1>5 DEF CInv, HashesOwned, Paired, DriveKeeps, Applied
<1>7. RenamedIsExact'
  BY <1>1, <1>3, <1>4 DEF CInv, RenamedIsExact
<1>8. PlanHolds'
  BY <1>1, <1>3, <1>4 DEF CInv, PlanHolds, Applying, PushSteps
<1>9. ActsAsPlanned'
  BY <1>2, <1>4, <1>5 DEF ActsAsPlanned, Quiet
<1>10. Pushed'
  <2>1. \A k \in Links : Quiet(k)' => Quiet(k) /\ links'[k] = links[k]
    BY <1>5 DEF DriveKeeps
  <2>2. \A k \in Links : Quiet(k) => Tracked(k) \/ ToUpload(k)
    BY <1>1 DEF CInv, Pushed, Applying, PushSteps
  <2>3. \A k \in Links : links'[k] = links[k] =>
            /\ Tracked(k) => Tracked(k)'
            /\ ToUpload(k) => ToUpload(k)'
    BY <1>1, <1>3, <1>4 DEF ToUpload, Tracked, Differs
  <2> QED  BY <1>4, <2>1, <2>2, <2>3 DEF Pushed
<1> QED  BY <1>1, <1>3, <1>4, <1>5, <1>6, <1>7, <1>8, <1>9, <1>10,
         PushStepCursor DEF Applying, PushSteps

(* The row of the old name was the renamed link's alone.                   *)
LEMMA DropRowCursor == ASSUME TypeOK, Locals, CInv, DropRow PROVE CInv'
<1> DEFINE p == pass.path
<1>1. /\ pass.step = "drop" /\ p \in Paths /\ pass.moves[p] # None
      /\ rows' = [rows EXCEPT ![p] = None]
      /\ UNCHANGED <<disk, primed, links, vault, twice, feed>>
  BY DEF DropRow, Locals, PushLocals, PathLocals, Applying, PushSteps, TypeOK,
     Pass, drive, events, ghosts
<1>2. /\ pass'.step = "replace" /\ pass'.path = p
      /\ \A f \in {"kind", "push", "mark", "dels", "kids", "base", "local", "read",
                   "moves", "doomed", "todo"} : pass'[f] = pass[f]
  BY DEF DropRow, Goto, TypeOK, Pass
<1>3. Calm /\ DriveKeeps
  BY <1>1, <1>2, Calming, SameDrive DEF CInv, DriveInv, Locals
<1>4. /\ disk[p] = None /\ rows[p] = pass.base[p]
      /\ p \notin pass.doomed /\ p \notin pass.todo
      /\ \A l \in Links : Quiet(l) => l # pass.base[p].id
  BY <1>1 DEF CInv, PlanHolds, ScanIsExact, ActsAsPlanned, Locals, PushLocals,
     Applying, PushSteps
<1> HIDE DEF p
<1>5. /\ rows'[p] = None
      /\ \A q \in Paths \ {p} : rows'[q] = rows[q]
  BY <1>1 DEF TypeOK
<1>6. HashesOwned'
  BY <1>1, <1>2, <1>3, <1>5 DEF CInv, HashesOwned, Paired, Calm, Applied
<1>7. RenamedIsExact'
  BY <1>1, <1>2, <1>5 DEF CInv, RenamedIsExact
<1>8. PlanHolds'
  <2>1. pass.doomed \subseteq Paths
    BY DEF TypeOK, Pass
  <2>2. pass.todo \subseteq Paths
    BY <1>1 DEF Locals, PushLocals, Applying, PushSteps
  <2>3. \A q \in Paths : pass.moves[q] # None => pass.moves[q] \in Paths
    BY DEF TypeOK, Pass
  <2> QED  BY <1>1, <1>2, <1>4, <1>5, <2>1, <2>2, <2>3 DEF CInv, PlanHolds,
           Applying, PushSteps
<1>9. ActsAsPlanned'
  BY <1>2 DEF ActsAsPlanned
<1>10. Pushed'
  <2>1. \A l \in Links : Quiet(l) => links[l].name \in Paths
    BY LinkTyped DEF Quiet, Live
  <2>2. \A l \in Links : Quiet(l) => links[l].name # p
    BY <1>1, <1>4 DEF CInv, Pushed, Tracked, ToUpload, Differs, Applying,
       PushSteps
  <2> QED  BY <1>1, <1>2, <1>3, <1>5, <2>1, <2>2 DEF CInv, Pushed, ToUpload,
           Tracked, Differs, Calm, Applying, PushSteps
<1> QED  BY <1>1, <1>2, <1>3, <1>6, <1>7, <1>8, <1>9, <1>10, PushStepCursor
         DEF Applying, PushSteps

(* The row of the new name: no quiet link has that name.                   *)
LEMMA ReplaceRowCursor == ASSUME TypeOK, Locals, CInv, ReplaceRow PROVE CInv'
<1> DEFINE p == pass.path
           t == pass.moves[p]
<1>1. /\ pass.step = "replace" /\ p \in Paths /\ t \in Paths
      /\ pass.base[p] # None /\ disk[t] # None /\ pass.local = disk
      /\ UNCHANGED <<disk, primed, links, vault, twice, feed>>
  BY DEF ReplaceRow, Locals, PushLocals, PathLocals, Applying, PushSteps, TypeOK,
     Pass, drive, events, ghosts, CInv, ScanIsExact
<1>2. /\ pass.base[p].hash = disk[t].c /\ rows[t] = None
      /\ t \notin pass.todo
      /\ \A q \in Paths : pass.moves[q] = t => q = p
  BY <1>1, NoneAssumption DEF CInv, PlanHolds, Applying, PushSteps
<1>3. /\ rows'[t] # None /\ rows'[t].id = pass.base[p].id
      /\ rows'[t].hash = pass.base[p].hash /\ rows'[t].ino = disk[t].ino
      /\ \A q \in Paths \ {t} : rows'[q] = rows[q]
  <2>1. PICK h \in {pass.base[p].hash, disk[t].c} :
           rows' = [rows EXCEPT ![t] =
                      [id |-> pass.base[p].id, hash |-> h, stamp |-> disk[t].c,
                       ino |-> disk[t].ino]]
    <3>1. pass.read[t] \in {None, disk[t].c}
      BY <1>1 DEF CInv, ScanIsExact, PushSteps
    <3> QED  BY <1>1, <3>1 DEF ReplaceRow
  <2>2. /\ pass.base[p].id \in Links /\ pass.base[p].hash \in Contents
        /\ disk[t].c \in Contents /\ disk[t].ino \in Inodes
    BY <1>1 DEF TypeOK, Pass, Row, File
  <2>3. [id |-> pass.base[p].id, hash |-> h, stamp |-> disk[t].c,
         ino |-> disk[t].ino] \in Row
    BY <2>1, <2>2 DEF Row
  <2> QED  BY <1>1, <1>2, <2>1, <2>3, NoneAssumption DEF TypeOK
<1>4. /\ pass'.step = "move" /\ pass'.moves = [pass.moves EXCEPT ![p] = None]
      /\ \A f \in {"kind", "push", "mark", "dels", "kids", "base", "local", "read",
                   "doomed", "todo"} : pass'[f] = pass[f]
  BY DEF ReplaceRow, TypeOK, Pass
<1>5. /\ pass'.moves[p] = None
      /\ \A q \in Paths \ {p} : pass'.moves[q] = pass.moves[q]
  BY <1>1, <1>4 DEF TypeOK, Pass
<1>6. Calm /\ DriveKeeps
  BY <1>1, <1>4, Calming, SameDrive DEF CInv, DriveInv, Locals
<1>7. HashesOwned'
  <2>1. \A id \in Links, c \in Contents : Paired(id, c)' => Paired(id, c)
    BY <1>1, <1>3, <1>4 DEF Paired, Applied
  <2> QED  BY <1>6, <2>1 DEF CInv, HashesOwned, Calm
<1>8. RenamedIsExact'
  BY <1>1, <1>3, <1>4 DEF CInv, RenamedIsExact, UniqueInodes
<1>9. PlanHolds'
  <2>1. /\ pass.doomed \subseteq Paths /\ pass.todo \subseteq Paths
        /\ \A q \in Paths : pass.moves[q] # None => pass.moves[q] \in Paths
        /\ \A q \in pass.doomed : q # t
    BY <1>1 DEF Locals, PushLocals, Applying, PushSteps, TypeOK, Pass, CInv,
       PlanHolds
  <2>2. \A q \in Paths : pass'.moves[q] # None =>
            /\ q # p /\ q # t /\ pass'.moves[q] = pass.moves[q]
            /\ pass.moves[q] # t
    BY <1>1, <1>2, <1>5 DEF CInv, PlanHolds, Applying, PushSteps
  <2>3. \A q \in Paths : pass'.moves[q] # None =>
            /\ pass.local[q] = None /\ pass.base[pass.moves[q]] = None
            /\ rows'[pass.moves[q]] = None /\ pass.moves[q] \notin pass.todo
            /\ pass.base[q].hash = pass.local[pass.moves[q]].c
            /\ rows'[q] = pass.base[q]
            /\ \A r \in Paths : pass'.moves[r] = pass.moves[q] => q = r
    BY <1>1, <1>3, <1>5, <2>1, <2>2 DEF CInv, PlanHolds, Applying,
       PushSteps
  <2>4. \A q \in pass.doomed : /\ pass.local[q] = None /\ rows'[q] = pass.base[q]
                               /\ pass'.moves[q] = None
    BY <1>1, <1>3, <1>5, <2>1 DEF CInv, PlanHolds, Applying, PushSteps
  <2>5. \A q \in pass.todo : rows'[q] = pass.base[q]
    BY <1>1, <1>2, <1>3, <2>1 DEF CInv, PlanHolds, Applying, PushSteps, t
  <2> QED  BY <1>4, <2>2, <2>3, <2>4, <2>5 DEF PlanHolds
<1> HIDE DEF p, t
<1>10. ActsAsPlanned'
  BY <1>4 DEF ActsAsPlanned
<1>11. Pushed'
  <2>1. \A l \in Links : Quiet(l) => links[l].name \in Paths
    BY LinkTyped DEF Quiet, Live
  <2>2. \A l \in Links : Quiet(l) => links[l].name # t
    BY <1>1, <1>2 DEF CInv, Pushed, Tracked, ToUpload, Differs, Applying,
       PushSteps
  <2> QED  BY <1>1, <1>3, <1>4, <1>6, <2>1, <2>2 DEF CInv, Pushed, ToUpload,
           Tracked, Differs, Calm, Applying, PushSteps
<1> QED  BY <1>1, <1>4, <1>6, <1>7, <1>8, <1>9, <1>10, <1>11, PushStepCursor
         DEF Applying, PushSteps

(* A deletion in Drive: the link is dead.                                  *)
LEMMA TrashRemoteCursor ==
    ASSUME TypeOK, Locals, CInv, NEW p \in Paths, TrashRemote(p) PROVE CInv'
<1>1. /\ pass.step = "trash" /\ p \in pass.doomed
      /\ pass.base[p] # None /\ pass.base[p].id \in Links
      /\ links[pass.base[p].id] # None
  BY DEF TrashRemote, Locals, PushLocals, KnownLinks, Applying, PushSteps,
     TypeOK, Pass, Row
<1>2. PICK l \in Links : l = pass.base[p].id
  BY <1>1
<1>3. /\ links' = [links EXCEPT ![l].live = FALSE] /\ links[l] # None
      /\ feed' = IF links[l].live THEN Removed(l) ELSE feed
      /\ UNCHANGED <<disk, rows, primed, vault, twice>>
  BY <1>1, <1>2 DEF TrashRemote, machine, ghosts
<1>4. /\ pass'.step = "untrack" /\ pass'.path = p
      /\ pass'.doomed = pass.doomed \ {p}
      /\ \A f \in {"kind", "push", "mark", "dels", "kids", "base", "local", "read",
                   "moves", "todo"} : pass'[f] = pass[f]
  BY DEF TrashRemote, TypeOK, Pass
<1>5. DriveKeeps /\ ~Live(l)'
  BY <1>3, <1>4, TrashKeeps DEF DriveInv, CInv, Locals
<1>6. HashesOwned'
  BY <1>1, <1>3, <1>4, <1>5 DEF CInv, HashesOwned, Paired, DriveKeeps, Applied
<1>7. RenamedIsExact'
  BY <1>1, <1>3, <1>4 DEF CInv, RenamedIsExact
<1>8. PlanHolds'
  BY <1>1, <1>3, <1>4 DEF CInv, PlanHolds, Applying, PushSteps
<1>9. ActsAsPlanned'
  BY <1>1, <1>2, <1>3, <1>4, <1>5 DEF CInv, ActsAsPlanned, PlanHolds, Applying,
     PushSteps
<1>10. Pushed'
  <2>1. \A k \in Links : Quiet(k)' => Quiet(k) /\ links'[k] = links[k]
    BY <1>5 DEF DriveKeeps
  <2>2. \A k \in Links : Quiet(k) => Tracked(k) \/ ToUpload(k)
    BY <1>1 DEF CInv, Pushed, Applying, PushSteps
  <2>3. \A k \in Links : links'[k] = links[k] =>
            /\ Tracked(k) => Tracked(k)'
            /\ ToUpload(k) => ToUpload(k)'
    BY <1>1, <1>3, <1>4 DEF ToUpload, Tracked, Differs
  <2> QED  BY <1>4, <2>1, <2>2, <2>3 DEF Pushed
<1> QED  BY <1>1, <1>3, <1>4, <1>5, <1>6, <1>7, <1>8, <1>9, <1>10,
         PushStepCursor DEF Applying, PushSteps

(* Its row was its own.                                                    *)
LEMMA UntrackCursor == ASSUME TypeOK, Locals, CInv, Untrack PROVE CInv'
<1> DEFINE p == pass.path
<1>1. /\ pass.step = "untrack" /\ p \in Paths
      /\ rows' = [rows EXCEPT ![p] = None]
      /\ UNCHANGED <<disk, primed, links, vault, twice, feed>>
  BY DEF Untrack, Locals, PathLocals, TypeOK, Pass, drive, events, ghosts
<1>2. /\ pass'.step = "trash"
      /\ \A f \in {"kind", "push", "mark", "dels", "kids", "base", "local", "read",
                   "moves", "doomed", "todo"} : pass'[f] = pass[f]
  BY DEF Untrack, TypeOK, Pass
<1>3. Calm /\ DriveKeeps
  BY <1>1, <1>2, Calming, SameDrive DEF CInv, DriveInv, Locals
<1>4. /\ disk[p] = None /\ rows[p] = pass.base[p]
      /\ p \notin pass.doomed /\ p \notin pass.todo
      /\ \A q \in Paths : pass.moves[q] = None
      /\ \A l \in Links : Live(l) => l # pass.base[p].id
  BY <1>1 DEF CInv, ScanIsExact, ActsAsPlanned, Locals, PushLocals, Applying,
     PushSteps
<1> HIDE DEF p
<1>5. /\ rows'[p] = None
      /\ \A q \in Paths \ {p} : rows'[q] = rows[q]
  BY <1>1 DEF TypeOK
<1>6. HashesOwned'
  BY <1>1, <1>2, <1>3, <1>5 DEF CInv, HashesOwned, Paired, Calm, Applied
<1>7. RenamedIsExact'
  BY <1>1, <1>2, <1>5 DEF CInv, RenamedIsExact
<1>8. PlanHolds'
  <2>1. pass.doomed \subseteq Paths
    BY DEF TypeOK, Pass
  <2>2. pass.todo \subseteq Paths
    BY <1>1 DEF Locals, PushLocals, Applying, PushSteps
  <2> QED  BY <1>1, <1>2, <1>4, <1>5, <2>1, <2>2 DEF CInv, PlanHolds, Applying,
           PushSteps
<1>9. ActsAsPlanned'
  BY <1>2, <1>4 DEF ActsAsPlanned
<1>10. Pushed'
  <2>1. \A l \in Links : Quiet(l) => links[l].name \in Paths /\ Live(l)
    BY LinkTyped DEF Quiet, Live
  <2>2. \A l \in Links : Quiet(l) => links[l].name # p
    BY <1>1, <1>4, <2>1 DEF CInv, Pushed, Tracked, ToUpload, Differs, Applying,
       PushSteps
  <2> QED  BY <1>1, <1>2, <1>3, <1>5, <2>1, <2>2 DEF CInv, Pushed, ToUpload,
           Tracked, Differs, Calm, Applying, PushSteps
<1> QED  BY <1>1, <1>2, <1>3, <1>6, <1>7, <1>8, <1>9, <1>10, PushStepCursor
         DEF Applying, PushSteps

(* An upload: its event makes the link of that name unquiet.               *)
LEMMA UploadCursor == ASSUME TypeOK, Locals, CInv, Upload PROVE CInv'
<1>0. /\ pass.step = "upload" /\ pass.path \in Paths
      /\ disk[pass.path] # None /\ disk[pass.path].c \in Contents
  BY DEF Upload, Locals, PathLocals, TypeOK, Pass, File
<1>p. PICK p \in Paths, c \in Contents : p = pass.path /\ c = disk[p].c
  BY <1>0
<1>1. /\ pass.step = "upload" /\ disk[p] # None
      /\ pass.hash = c /\ p \notin pass.todo
      /\ UNCHANGED <<disk, rows, primed>> /\ vault' = vault \cup {c}
  BY <1>0, <1>p DEF Upload, machine, CInv, ScanIsExact, ActsAsPlanned
<1>2. PICK l \in (IF LiveAs(p) # {} THEN LiveAs(p) ELSE OneOf(NewLinks)) :
         /\ links' = [links EXCEPT ![l] = [name |-> p, c |-> c, live |-> TRUE]]
         /\ feed' = Changed(l)
         /\ pass' = [pass EXCEPT !.step = "track", !.id = l]
         /\ twice' = twice \cup Repeated(l, c)
  BY <1>p DEF Upload
<1>3. l \in Links /\ (l \in LiveAs(p) \/ (LiveAs(p) = {} /\ l \in NewLinks))
  BY OneOfIn DEF LiveAs, NewLinks
<1>4. /\ pass'.step = "track" /\ pass'.id = l
      /\ \A f \in {"kind", "push", "mark", "dels", "kids", "base", "local", "read",
                   "moves", "doomed", "todo", "path", "hash"} :
            pass'[f] = pass[f]
  BY <1>2 DEF TypeOK, Pass
<1>5. DriveKeeps /\ Owned(l, c)' /\ Later(l)'
  BY <1>1, <1>2, <1>3, <1>4, WriteKeeps DEF DriveInv, CInv, Locals
<1>6. HashesOwned'
  <2>1. \A id \in Links, d \in Contents :
            Paired(id, d)' => Paired(id, d) \/ (id = l /\ d = c)
    BY <1>1, <1>3, <1>4 DEF Paired, Applied
  <2> QED  BY <1>5, <2>1 DEF CInv, HashesOwned, DriveKeeps
<1>7. RenamedIsExact'
  BY <1>1, <1>4 DEF CInv, RenamedIsExact
<1>8. PlanHolds'
  BY <1>1, <1>4 DEF CInv, PlanHolds, Applying, PushSteps
<1>9. ActsAsPlanned'
  BY <1>1, <1>p, <1>4 DEF CInv, ActsAsPlanned
<1>10. Pushed'
  <2>1. \A k \in Links : Quiet(k)' => Quiet(k) /\ links'[k] = links[k]
    BY <1>5 DEF DriveKeeps
  <2>2. \A k \in Links : Quiet(k)' => links[k].name # p
    <3> SUFFICES ASSUME NEW k \in Links, Quiet(k)', links[k].name = p
                 PROVE  FALSE
      OBVIOUS
    <3>1. k # l
      BY <1>5 DEF Quiet
    <3>2. k \in LiveAs(p) /\ Live(k)
      BY <2>1 DEF LiveAs, Quiet, Live
    <3>3. l \in LiveAs(p)
      BY <1>3, <3>2
    <3> QED  BY <3>1, <3>2, <3>3 DEF CInv, UniqueNames, LiveAs, Live
  <2>3. pass'.path = p
    BY <1>p, <1>4
  <2> QED  BY <1>1, <1>p, <1>4, <2>1, <2>2, <2>3 DEF CInv, Pushed, ToUpload,
           Tracked, Differs, Applying, PushSteps
<1>11. disk[pass'.path] # None /\ pass'.hash = disk[pass'.path].c
  BY <1>1, <1>p, <1>4
<1> QED  BY <1>1, <1>4, <1>5, <1>6, <1>7, <1>8, <1>9, <1>10, <1>11,
         PushStepCursor DEF Applying, PushSteps

(* The row of the upload: no quiet link has that name.                     *)
LEMMA TrackCursor == ASSUME TypeOK, Locals, CInv, Track PROVE CInv'
<1> DEFINE p == pass.path
<1>1. /\ pass.step = "track" /\ p \in Paths /\ disk[p] # None
      /\ pass.local = disk /\ pass.id \in Links /\ pass.hash \in Contents
      /\ p \notin pass.todo /\ \A q \in Paths : pass.moves[q] = None
      /\ UNCHANGED <<disk, primed, links, vault, twice, feed>>
  BY DEF Track, Locals, PathLocals, PushLocals, TypeOK, Pass, drive, events,
     ghosts, CInv, ScanIsExact, ActsAsPlanned, PushSteps
<1>2. /\ pass'.step = "push"
      /\ \A f \in {"kind", "push", "mark", "dels", "kids", "base", "local", "read",
                   "moves", "doomed", "todo"} : pass'[f] = pass[f]
  BY DEF Track, TypeOK, Pass
<1>3. Calm /\ DriveKeeps
  BY <1>1, <1>2, Calming, SameDrive DEF CInv, DriveInv, Locals
<1>4. /\ rows'[p] # None /\ rows'[p].id = pass.id
      /\ rows'[p].hash = pass.hash /\ rows'[p].ino = disk[p].ino
      /\ \A q \in Paths \ {p} : rows'[q] = rows[q]
  <2>1. disk[p].c \in Contents /\ disk[p].ino \in Inodes
    BY <1>1 DEF TypeOK, File
  <2>2. [id |-> pass.id, hash |-> pass.hash, stamp |-> disk[p].c,
         ino |-> disk[p].ino] \in Row
    BY <1>1, <2>1 DEF Row
  <2> QED  BY <1>1, <2>2, NoneAssumption DEF Track, TypeOK
<1>5. \A l \in Links : Quiet(l) => links[l].name # p
  BY <1>1 DEF CInv, Pushed, Applying, PushSteps
<1> HIDE DEF p
<1>6. HashesOwned'
  <2>1. \A id \in Links, c \in Contents : Paired(id, c)' => Paired(id, c)
    BY <1>1, <1>2, <1>4 DEF Paired, Applied
  <2> QED  BY <1>3, <2>1 DEF CInv, HashesOwned, Calm
<1>7. RenamedIsExact'
  BY <1>1, <1>2, <1>4 DEF CInv, RenamedIsExact, UniqueInodes
<1>8. PlanHolds'
  <2>1. pass.doomed \subseteq Paths
    BY DEF TypeOK, Pass
  <2>2. pass.todo \subseteq Paths
    BY <1>1 DEF Locals, PushLocals, Applying, PushSteps
  <2> QED  BY <1>1, <1>2, <1>4, <2>1, <2>2 DEF CInv, PlanHolds, Applying,
           PushSteps
<1>9. ActsAsPlanned'
  BY <1>1, <1>2 DEF ActsAsPlanned
<1>10. Pushed'
  <2>1. \A l \in Links : Quiet(l) => links[l].name \in Paths
    BY LinkTyped DEF Quiet, Live
  <2> QED  BY <1>1, <1>2, <1>3, <1>4, <1>5, <2>1 DEF CInv, Pushed, ToUpload,
           Tracked, Differs, Calm, Applying, PushSteps
<1> QED  BY <1>1, <1>2, <1>3, <1>6, <1>7, <1>8, <1>9, <1>10, PushStepCursor
         DEF Applying, PushSteps

-----------------------------------------------------------------------------
(* No link, no row and no pass.                                            *)
LEMMA CursorInit == Init => CInv
<1> SUFFICES ASSUME Init PROVE CInv
  OBVIOUS
<1>1. /\ pass.step = "idle" /\ pass.kind = "sync" /\ pass.mark = 0
      /\ pass.dels = {} /\ pass.kids = {}
      /\ \A p \in Paths : pass.base[p] = None /\ rows[p] = None /\ disk[p] = None
      /\ \A l \in Links : ~Live(l)
      /\ Len(feed) = 0 /\ primed = FALSE
  BY DEF Init, NoPass, Live
<1>2. LinksOwned /\ UniqueNames /\ GoneIsDead /\ DelsAreDead /\ HashesOwned
  BY <1>1 DEF LinksOwned, UniqueNames, GoneIsDead, DelsAreDead, HashesOwned,
     Paired, Applied
<1>3. UniqueInodes /\ RenamedIsExact /\ ScanIsExact
  BY <1>1 DEF UniqueInodes, RenamedIsExact, ScanIsExact, PushSteps
<1>4. KindsApart /\ KidsApart /\ DeletedIsDead
  BY <1>1 DEF KindsApart, KidsApart, DeletedIsDead, PullSteps, Applied
<1>5. PlanHolds /\ ActsAsPlanned /\ Pushed
  BY <1>1 DEF PlanHolds, ActsAsPlanned, Pushed, Applying, PushSteps
<1>6. AtRest /\ Listed /\ Kept /\ Pulled
  BY <1>1 DEF AtRest, Listed, Kept, Pulled, Applied
<1> QED  BY <1>2, <1>3, <1>4, <1>5, <1>6 DEF CInv

(* The requests that fail under the precautions.                           *)
LEMMA FailureCursor ==
    ASSUME TypeOK, Locals, CInv, CursorPrecautions, Failure PROVE CInv'
<1>1. /\ "list" \notin Faults /\ "download" \notin Faults
      /\ "rename" \notin Faults /\ "upload" \notin Faults
      /\ "crash" \notin Faults
  BY DEF CursorPrecautions
<1>2. CASE PollFails
  BY <1>2, PollFailsCursor
<1>3. ASSUME NEW p \in Paths, MoveFails(p) PROVE CInv'
  BY <1>3, MoveErrorCursor DEF MoveFails
<1>4. ASSUME NEW p \in Paths, TrashFails(p) PROVE CInv'
  BY <1>4, TrashFailsCursor
<1> QED  BY <1>1, <1>2, <1>3, <1>4 DEF Failure, ListFails, DownloadFails,
         CommitFails, UploadFails, Crash, Fault

(* The steps of the pull.                                                  *)
LEMMA PullCursor == ASSUME TypeOK, Locals, CInv, Pull PROVE CInv'
  BY PollEventsCursor, StartWalkCursor, DeletesDoneCursor, ForgetCursor,
     ListCursor, DeleteByIDCursor, ApplySkipCursor, DownloadCursor,
     DownloadGoneCursor, PreserveCursor, CommitCursor, RecordCursor,
     FindStaleCursor, ReapCursor, ReapDoneCursor, SaveCursorCursor DEF Pull

(* The steps of the push.                                                  *)
LEMMA PushCursor == ASSUME TypeOK, Locals, CInv, Push PROVE CInv'
  BY RescanCursor, BaselineCursor, MoveRemoteCursor, MoveErrorCursor,
     DropRowCursor, ReplaceRowCursor, MovesDoneCursor, TrashRemoteCursor,
     UntrackCursor, TrashDoneCursor, PushSkipCursor, PushHashCursor,
     UploadCursor, UploadGoneCursor, TrackCursor, PushDoneCursor
     DEF Push, MoveRefused

(* Every step preserves the invariant.                                     *)
LEMMA CursorStep ==
    ASSUME CursorPrecautions
    PROVE  TypeOK /\ Locals /\ CInv /\ [Next]_vars => CInv'
<1> SUFFICES ASSUME TypeOK, Locals, CInv, [Next]_vars PROVE CInv'
  OBVIOUS
<1>1. CASE UNCHANGED vars
  <2>1. DriveKeeps
    BY <1>1, SameDrive DEF vars, drive, events, ghosts, DriveInv, CInv, Locals
  <2> QED  BY <1>1, <2>1, DriveMoves DEF vars, machine
<1>2. ASSUME NEW kind \in Kinds, Start(kind) PROVE CInv'
  BY <1>2, StartCursor
<1> QED  BY <1>1, <1>2, PullCursor, PushCursor, FailureCursor, UserCursor,
         DeviceCursor, PublishCursor DEF Next, StartRefused

(* A saved cursor means applied (FullMirror, applyEvents): between passes, *)
(* whatever the other devices did in their course, each live link with no  *)
(* event still to be read has the row of its name and revision.            *)
THEOREM CursorTrustworthy ==
    ASSUME CursorPrecautions
    PROVE  Spec => []CursorMeansApplied
<1>1. Init => TypeOK /\ Locals /\ CInv
  BY TypingInit, CursorInit
<1>2. TypeOK /\ Locals /\ CInv /\ [Next]_vars => TypeOK' /\ Locals' /\ CInv'
  BY TypingStep, CursorStep
<1>3. TypeOK /\ Locals /\ CInv => CursorMeansApplied
  <2> SUFFICES ASSUME TypeOK, Locals, CInv, pass.step = "idle", primed,
                      NEW l \in Links, Live(l), ~Unread(l),
                      links[l].c \notin twice
               PROVE  Tracked(l)
    BY DEF CursorMeansApplied, Live
  <2>1. Quiet(l)
    BY FeedFacts DEF Quiet, Later, Unread, Locals
  <2> QED  BY <2>1 DEF CInv, AtRest
<1> QED  BY <1>1, <1>2, <1>3, PTL DEF Spec
=============================================================================
