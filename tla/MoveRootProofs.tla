--------------------------- MODULE MoveRootProofs ---------------------------
(***************************************************************************)
(* No move loses a file, and moves that rename never disturb the Drive,    *)
(* for any set of files and folders and any setting of the deletion guard. *)
(***************************************************************************)
EXTENDS MoveRoot, TLAPS

(* The original is removed only while the copy holds all that is left.     *)
CopiedFirst == at = "remove" => tree[from] \subseteq tree[to]

(* Until a rename is refused, or takes the folder from under a pass, there *)
(* is one folder with everything in it.  A pass that has not compared yet  *)
(* looks at that folder, and so finds nothing to trash.                    *)
OneFolder ==
    ~crossed /\ ~undercut =>
        /\ at \notin {"copy", "verify", "remove"}
        /\ base = Files
        /\ \A f \in Files : remote[f] = "whole"
        /\ \A r \in Roots : torn[r] = {} /\ tree[r] \in {{}, Files}
        /\ \E r \in Roots : tree[r] = Files
        /\ pass.at \in {"pull", "scan"} => tree[daemon] = Files
        /\ pass.at = "scan" => pass.left \cup pass.found = Files
        /\ pass.at = "trash" => pass.left = {}

MovesElsewhere == at # "idle" => from # to

DaemonPasses == pass.at # "off" => daemon # None

IInv ==
    /\ TypeOK /\ FilesSurvive /\ MovesElsewhere /\ CopiedFirst
    /\ OneFolder /\ DaemonPasses

LEMMA InitHolds == Init => IInv
<1> SUFFICES ASSUME Init PROVE IInv
    OBVIOUS
<1>1. TypeOK
    BY HomeAssumption DEF Init, TypeOK, NoPass
<1>2. FilesSurvive /\ MovesElsewhere /\ CopiedFirst /\ OneFolder
      /\ DaemonPasses
    BY HomeAssumption DEF Init, FilesSurvive, MovesElsewhere, CopiedFirst,
       OneFolder, DaemonPasses, NoPass
<1> QED BY <1>1, <1>2 DEF IInv

LEMMA NoPassType ==
    NoPass \in [at : {"off", "pull", "scan", "trash", "upload"},
               left : SUBSET Files, found : SUBSET Files]
BY DEF NoPass

LEMMA TypeStep == TypeOK /\ DaemonPasses /\ [Next]_vars => TypeOK'
<1> SUFFICES ASSUME TypeOK, DaemonPasses, [Next]_vars PROVE TypeOK'
    OBVIOUS
<1> USE NoPassType DEF TypeOK, disk, drive, conf, move, fate
<1>1. ASSUME NEW r \in Roots, Confirm(r) PROVE TypeOK'
    BY <1>1 DEF Confirm
<1>2. CASE StopDaemon \/ StopFails
    BY <1>2 DEF StopDaemon, StopFails
<1>3. CASE MigrateFails
    BY <1>3 DEF MigrateFails, Restart
<1>4. CASE Rename
    BY <1>4 DEF Rename
<1>5. CASE RenameRefused
    BY <1>5 DEF RenameRefused, Present
<1>6. ASSUME NEW f \in Files, CopyOpen(f) PROVE TypeOK'
    BY <1>6 DEF CopyOpen
<1>7. ASSUME NEW f \in Files, CopyClose(f) PROVE TypeOK'
    BY <1>7 DEF CopyClose
<1>8. ASSUME NEW f \in Files, Remove(f) PROVE TypeOK'
    BY <1>8 DEF Remove
<1>9. CASE CopyDone \/ Verify \/ RemoveDone
    BY <1>9 DEF CopyDone, Verify, RemoveDone
<1>10. CASE SaveRoot \/ SaveFails
    BY <1>10 DEF SaveRoot, SaveFails, Restart
<1>11. CASE SaveSettings \/ StartDaemon \/ DaemonEnds \/ Reopen
    BY <1>11 DEF SaveSettings, StartDaemon, DaemonEnds, Reopen
<1>12. CASE PassBegins \/ PassLists \/ PassCompares \/ PassPushes \/ PassEnds
  <2>1. CASE PassBegins
      BY <2>1 DEF PassBegins, NoPass
  <2>2. CASE PassLists
      BY <2>2 DEF PassLists, Present, DaemonPasses
  <2>3. CASE PassCompares
      BY <2>3 DEF PassCompares
  <2>4. CASE PassPushes
      BY <2>4 DEF PassPushes
  <2>5. CASE PassEnds
      BY <2>5 DEF PassEnds
  <2> QED BY <1>12, <2>1, <2>2, <2>3, <2>4, <2>5
<1>14. ASSUME NEW f \in Files,
              PassFinds(f) \/ PassTrashes(f) \/ PassUploads(f) \/ PassWarns(f)
       PROVE  TypeOK'
  <2>1. CASE PassFinds(f)
      BY <2>1 DEF PassFinds
  <2>2. CASE PassTrashes(f)
      BY <2>2 DEF PassTrashes
  <2>3. CASE PassUploads(f)
      BY <2>3 DEF PassUploads
  <2>4. CASE PassWarns(f)
      BY <2>4 DEF PassWarns
  <2> QED BY <1>14, <2>1, <2>2, <2>3, <2>4
<1>13. CASE UNCHANGED vars
    BY <1>13 DEF vars
<1> QED BY <1>1, <1>2, <1>3, <1>4, <1>5, <1>6, <1>7, <1>8, <1>9, <1>10, <1>11,
           <1>12, <1>13, <1>14 DEF Next, Migrate, Pass

(* A step that touches neither the folders nor the Drive, and no pass but  *)
(* to end it.                                                              *)
LEMMA QuietHolds ==
    ASSUME IInv, TypeOK', UNCHANGED <<disk, drive, fate, from, to>>,
           at' = at \/ at' = "idle",
           \/ pass' = NoPass
           \/ pass' = pass /\ (daemon' = daemon \/ daemon = None)
    PROVE  IInv'
<1>1. FilesSurvive' /\ MovesElsewhere' /\ CopiedFirst'
    BY DEF IInv, disk, FilesSurvive, MovesElsewhere, CopiedFirst
<1>2. DaemonPasses'
    BY HomeAssumption DEF IInv, DaemonPasses, NoPass, TypeOK
<1>3. OneFolder'
    BY DEF IInv, disk, drive, fate, OneFolder, NoPass, DaemonPasses
<1> QED BY <1>1, <1>2, <1>3 DEF IInv

(* A step of a pass that touches neither side, and whose next stage knows  *)
(* what it has to.                                                         *)
LEMMA PassHolds ==
    ASSUME IInv, TypeOK', UNCHANGED <<disk, drive, daemon, move, fate>>,
           pass.at # "off",
           ~crossed /\ ~undercut =>
                /\ pass'.at \in {"pull", "scan"} => tree[daemon] = Files
                /\ pass'.at = "scan" => pass'.left \cup pass'.found = Files
                /\ pass'.at = "trash" => pass'.left = {}
    PROVE  IInv'
<1>1. FilesSurvive' /\ MovesElsewhere' /\ CopiedFirst'
    BY DEF IInv, disk, move, FilesSurvive, MovesElsewhere, CopiedFirst
<1>2. DaemonPasses'
    BY DEF IInv, DaemonPasses
<1>3. OneFolder'
    BY DEF IInv, disk, drive, move, fate, OneFolder
<1> QED BY <1>1, <1>2, <1>3 DEF IInv

LEMMA StepHolds == IInv /\ [Next]_vars => IInv'
<1> SUFFICES ASSUME IInv, [Next]_vars PROVE IInv'
    OBVIOUS
<1>t. TypeOK'
    BY TypeStep DEF IInv
<1> USE DEF IInv
<1>1. ASSUME NEW r \in Roots, Confirm(r) PROVE IInv'
    BY <1>1, <1>t DEF Confirm, ValidateSyncRoot, disk, drive, fate,
       FilesSurvive, MovesElsewhere, CopiedFirst, OneFolder, DaemonPasses
<1>2. CASE StopDaemon
    BY <1>2, <1>t DEF StopDaemon, disk, drive, fate, NoPass, FilesSurvive,
       MovesElsewhere, CopiedFirst, OneFolder, DaemonPasses
<1>3. CASE StopFails \/ MigrateFails
    BY <1>3, <1>t, QuietHolds DEF StopFails, MigrateFails, Restart
<1>4. CASE Rename
  <2>1. from # to /\ from \in Roots /\ to \in Roots /\ Present(to) = {}
      BY <1>4 DEF Rename, MovesElsewhere, TypeOK, ValidateSyncRoot
  <2>2. tree'[to] = tree[from] /\ tree'[from] = {}
        /\ \A r \in Roots \ {from, to} : tree'[r] = tree[r]
      BY <1>4, <2>1 DEF Rename, TypeOK
  <2>3. torn'[to] = torn[from] /\ torn'[from] = {}
        /\ \A r \in Roots \ {from, to} : torn'[r] = torn[r]
      BY <1>4, <2>1 DEF Rename, TypeOK
  <2>4. FilesSurvive'
    <3> SUFFICES ASSUME NEW f \in Files PROVE \E r \in Roots : f \in tree'[r]
        BY DEF FilesSurvive
    <3>1. PICK r \in Roots : f \in tree[r]
        BY DEF FilesSurvive
    <3>2. r # to
        BY <2>1, <3>1 DEF Present
    <3> QED BY <2>1, <2>2, <3>1, <3>2
  <2>5. MovesElsewhere' /\ CopiedFirst' /\ DaemonPasses'
      BY <1>4, <2>1 DEF Rename, MovesElsewhere, CopiedFirst, DaemonPasses
  <2>6. OneFolder'
    <3>1. CASE crossed \/ undercut
        BY <3>1, <1>4 DEF Rename, OneFolder
    <3>2. CASE ~crossed /\ ~undercut /\ undercut'
        BY <3>2 DEF OneFolder
    <3>3. CASE ~crossed /\ ~undercut /\ ~undercut'
      <4>1. PICK r \in Roots : tree[r] = Files
          BY <3>3 DEF OneFolder
      <4>2. \E q \in Roots : tree'[q] = Files
        <5>1. CASE r = to
            BY <4>1, <5>1, <2>1, <2>2 DEF Present, TypeOK
        <5>2. CASE r = from
            BY <4>1, <5>2, <2>1, <2>2
        <5>3. CASE r \notin {from, to}
            BY <4>1, <5>3, <2>2
        <5> QED BY <5>1, <5>2, <5>3
      <4>3. \A q \in Roots : torn'[q] = {} /\ tree'[q] \in {{}, Files}
          BY <2>1, <2>2, <2>3, <3>3 DEF OneFolder
      <4>4. pass.at \in {"pull", "scan"} => tree'[daemon] = Files
        <5> SUFFICES ASSUME pass.at \in {"pull", "scan"}
                     PROVE  tree'[daemon] = Files
            OBVIOUS
        <5>1. daemon # from
            BY <1>4, <3>3 DEF Rename, TypeOK
        <5>2. tree[daemon] = Files /\ daemon \in Roots
            BY <3>3 DEF OneFolder, DaemonPasses, TypeOK
        <5>3. CASE daemon = to
          <6>1. Files = {}
              BY <5>2, <5>3, <2>1 DEF Present
          <6> QED BY <6>1, <2>1, <2>2, <5>3 DEF TypeOK
        <5> QED BY <5>1, <5>2, <5>3, <2>2
      <4>5. UNCHANGED <<drive, daemon, pass>> /\ at' = "save"
          BY <1>4 DEF Rename
      <4> QED BY <4>2, <4>3, <4>4, <4>5, <3>3 DEF OneFolder, drive
    <3> QED BY <3>1, <3>2, <3>3
  <2> QED BY <1>t, <2>4, <2>5, <2>6
<1>5. CASE RenameRefused
    BY <1>5, <1>t DEF RenameRefused, disk, drive, FilesSurvive,
       MovesElsewhere, CopiedFirst, OneFolder, DaemonPasses
<1>c. ASSUME at = "copy", UNCHANGED <<drive, fate, from, to, pass, daemon>>,
             at' = "copy", \A r \in Roots : tree[r] \subseteq tree'[r]
      PROVE  IInv'
    BY <1>c, <1>t DEF fate, FilesSurvive, MovesElsewhere, CopiedFirst,
       OneFolder, DaemonPasses
<1>6. ASSUME NEW f \in Files, CopyOpen(f) PROVE IInv'
    BY <1>6, <1>c DEF CopyOpen, move
<1>7. ASSUME NEW f \in Files, CopyClose(f) PROVE IInv'
    BY <1>7, <1>c DEF CopyClose, TypeOK, disk
<1>8. ASSUME NEW f \in Files, Remove(f) PROVE IInv'
  <2>1. from # to /\ at = "remove" /\ tree[from] \subseteq tree[to]
        /\ from \in Roots /\ to \in Roots
      BY <1>8 DEF Remove, MovesElsewhere, CopiedFirst, TypeOK
  <2>2. tree'[from] = tree[from] \ {f}
        /\ \A r \in Roots \ {from} : tree'[r] = tree[r]
      BY <1>8, <2>1 DEF Remove, TypeOK
  <2>3. FilesSurvive'
    <3> SUFFICES ASSUME NEW g \in Files PROVE \E r \in Roots : g \in tree'[r]
        BY DEF FilesSurvive
    <3>1. PICK r \in Roots : g \in tree[r]
        BY DEF FilesSurvive
    <3> QED BY <2>1, <2>2, <3>1
  <2>4. MovesElsewhere' /\ CopiedFirst' /\ OneFolder' /\ DaemonPasses'
      BY <1>8, <2>1, <2>2 DEF Remove, MovesElsewhere, CopiedFirst, OneFolder,
         DaemonPasses, move, fate
  <2> QED BY <1>t, <2>3, <2>4
<1>9. CASE CopyDone \/ Verify \/ RemoveDone
    BY <1>9, <1>t DEF CopyDone, Verify, RemoveDone, disk, drive, fate,
       FilesSurvive, MovesElsewhere, CopiedFirst, OneFolder, DaemonPasses
<1>10. CASE SaveRoot \/ SaveFails
    BY <1>10, <1>t, QuietHolds DEF SaveRoot, SaveFails, Restart
<1>11. CASE SaveSettings \/ StartDaemon \/ DaemonEnds \/ Reopen
    BY <1>11, <1>t, QuietHolds DEF SaveSettings, StartDaemon, DaemonEnds,
       Reopen, move
<1>12. CASE PassBegins
  <2>1. ~crossed /\ ~undercut => tree[daemon] = Files
    <3> SUFFICES ASSUME ~crossed, ~undercut PROVE tree[daemon] = Files
        OBVIOUS
    <3>1. base = Files /\ daemon \in Roots /\ CheckRoot(daemon)
        BY <1>12 DEF PassBegins, OneFolder, TypeOK
    <3>2. Present(daemon) = tree[daemon] /\ tree[daemon] \in {{}, Files}
        BY <3>1 DEF OneFolder, Present
    <3> QED BY <3>1, <3>2 DEF CheckRoot
  <2>2. pass' = [NoPass EXCEPT !.at = "pull"]
        /\ UNCHANGED <<disk, drive, daemon, move, fate>> /\ daemon # None
      BY <1>12 DEF PassBegins
  <2>3. pass'.at = "pull"
      BY <2>2 DEF NoPass
  <2>4. FilesSurvive' /\ MovesElsewhere' /\ CopiedFirst' /\ DaemonPasses'
      BY <2>2 DEF disk, move, FilesSurvive, MovesElsewhere, CopiedFirst,
         DaemonPasses
  <2>5. OneFolder'
      BY <2>1, <2>2, <2>3 DEF disk, drive, move, fate, OneFolder
  <2> QED BY <1>t, <2>4, <2>5
<1>13. CASE PassLists
  <2>1. daemon \in Roots /\ pass.at = "pull"
      BY <1>13 DEF PassLists, DaemonPasses, TypeOK
  <2>2. ~crossed /\ ~undercut => tree[daemon] = Files /\ torn[daemon] = {}
      BY <2>1 DEF OneFolder
  <2>3. pass'.at = "scan" /\ pass'.left = Present(daemon)
        /\ pass'.found = {}
      BY <1>13 DEF PassLists
  <2> QED BY <2>1, <2>2, <2>3, <1>13, <1>t, PassHolds DEF PassLists, Present
<1>14. ASSUME NEW f \in Files, PassFinds(f) PROVE IInv'
  <2>1. daemon \in Roots /\ pass.at = "scan"
      BY <1>14 DEF PassFinds, DaemonPasses, TypeOK
  <2>2. pass'.at = "scan" /\ pass'.left = pass.left \ {f}
        /\ pass'.found = pass.found \cup ({f} \cap Present(daemon))
      BY <1>14 DEF PassFinds, TypeOK
  <2>3. ~crossed /\ ~undercut =>
            tree[daemon] = Files /\ pass'.left \cup pass'.found = Files
      BY <2>1, <2>2 DEF OneFolder, Present
  <2> QED BY <2>1, <2>2, <2>3, <1>14, <1>t, PassHolds DEF PassFinds
<1>15. CASE PassCompares
  <2>1. pass.at = "scan" /\ pass.left = {}
        /\ UNCHANGED <<disk, drive, daemon, move, fate>>
      BY <1>15 DEF PassCompares
  <2>2. CASE pass' = NoPass
      BY <2>1, <2>2, <1>t, PassHolds DEF NoPass
  <2>3. CASE pass' = [pass EXCEPT !.at = "trash", !.left = base \ pass.found]
    <3>1. pass'.at = "trash" /\ pass'.left = base \ pass.found
        BY <2>3 DEF TypeOK
    <3>2. ~crossed /\ ~undercut => base \ pass.found = {}
        BY <2>1 DEF OneFolder
    <3> QED BY <2>1, <3>1, <3>2, <1>t, PassHolds
  <2> QED BY <2>2, <2>3, <1>15 DEF PassCompares
<1>16. CASE PassPushes \/ PassEnds
  <2>1. pass'.at \in {"upload", "off"} /\ pass.at # "off"
        /\ UNCHANGED <<disk, drive, daemon, move, fate>>
      BY <1>16 DEF PassPushes, PassEnds, NoPass
  <2> QED BY <2>1, <1>t, PassHolds
<1>17. ASSUME NEW f \in Files, PassWarns(f) PROVE IInv'
  <2>1. pass'.at = pass.at /\ pass'.left = pass.left \ {f}
        /\ pass.at \in {"trash", "upload"}
        /\ UNCHANGED <<disk, drive, daemon, move, fate>>
      BY <1>17 DEF PassWarns, TypeOK
  <2>2. ~crossed /\ ~undercut => (pass'.at = "trash" => pass'.left = {})
      BY <2>1 DEF OneFolder
  <2> QED BY <2>1, <2>2, <1>t, PassHolds
<1>18. ASSUME NEW f \in Files, PassTrashes(f) \/ PassUploads(f) PROVE IInv'
  <2>1. pass'.at = pass.at /\ pass.at \in {"trash", "upload"}
        /\ pass'.left = pass.left \ {f}
        /\ UNCHANGED <<disk, conf, daemon, move, fate>>
      BY <1>18 DEF PassTrashes, PassUploads, TypeOK
  <2>2. FilesSurvive' /\ MovesElsewhere' /\ CopiedFirst' /\ DaemonPasses'
      BY <2>1 DEF disk, move, FilesSurvive, MovesElsewhere, CopiedFirst,
         DaemonPasses
  <2>3. CASE crossed \/ undercut
      BY <2>1, <2>2, <2>3, <1>t DEF OneFolder, fate
  <2>4. CASE ~crossed /\ ~undercut
    <3>1. PassUploads(f)
        BY <2>4, <1>18 DEF PassTrashes, OneFolder
    <3>2. daemon \in Roots /\ f \in Present(daemon) /\ torn[daemon] = {}
        BY <2>1, <2>4, <3>1 DEF PassUploads, OneFolder, DaemonPasses, TypeOK
    <3>3. remote' = [remote EXCEPT ![f] = "whole"] /\ base' = base \cup {f}
          /\ pass.at = "upload"
        BY <3>1, <3>2 DEF PassUploads, Present
    <3>4. base' = Files /\ \A g \in Files : remote'[g] = "whole"
        BY <2>4, <3>3 DEF OneFolder, TypeOK
    <3> QED BY <2>1, <2>2, <2>4, <3>3, <3>4, <1>t
            DEF OneFolder, disk, move, fate
  <2> QED BY <2>3, <2>4
<1>19. CASE UNCHANGED vars
    BY <1>19, <1>t, QuietHolds DEF vars, move
<1> QED BY <1>1, <1>2, <1>3, <1>4, <1>5, <1>6, <1>7, <1>8, <1>9, <1>10, <1>11,
           <1>12, <1>13, <1>14, <1>15, <1>16, <1>17, <1>18, <1>19
        DEF Next, Migrate, Pass

(* No move, or chain of moves, that is cut short anywhere leaves a file    *)
(* without a whole copy (migrate.go:43-44).                                *)
THEOREM NothingLost == Spec => []FilesSurvive
<1>1. IInv => FilesSurvive
    BY DEF IInv
<1> QED BY <1>1, InitHolds, StepHolds, PTL DEF Spec

(* Renames are atomic for a daemon whose pass checks the folder after them *)
(* or has scanned it before: whatever starts or stops it in between,       *)
(* nothing in the Drive changes (migrate.go:37-38, guards.go:22-30).  The  *)
(* one rename that is left out falls between a pass's checkRoot and the    *)
(* end of its second scan.                                                 *)
THEOREM RenameTheorem == Spec => []RenamesAreSafe
<1>1. IInv => RenamesAreSafe
    BY DEF IInv, OneFolder, RenamesAreSafe, Untouched
<1> QED BY <1>1, InitHolds, StepHolds, PTL DEF Spec
=============================================================================
