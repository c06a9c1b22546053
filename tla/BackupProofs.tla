---------------------------- MODULE BackupProofs ----------------------------
(***************************************************************************)
(* What a clean verdict of pdrive backup may be relied on for, for any     *)
(* number of files, folders and contents.                                  *)
(*                                                                         *)
(* The verdict is given at the end and speaks of the walk, so the          *)
(* invariant carries the walk along: each file listed is still to be       *)
(* visited, or the user has been warned of it, or its entry is right       *)
(* (Accounted).  Right means: on disk under its hash, and in a content the *)
(* Drive held unless the entry itself says otherwise.                      *)
(***************************************************************************)
EXTENDS Backup, TLAPS

Running == phase \notin Ended

(* The history is complete while a run goes on.                            *)
HistoryKept ==
    Running => \A f \in Files : /\ remote[f] # None => remote[f] \in held[f]
                                /\ listed[f] # None => listed[f] \in held[f]

(* Only listed files are visited, and only a visited one is downloaded.    *)
VisitsListed ==
    /\ \A f \in visit : listed[f] # None
    /\ tmp # None => tmp.file \in visit /\ tmp.content \in held[tmp.file]

Right(f) ==
    /\ entries[f] # None
    /\ disk[f] = entries[f].sum
    /\ \/ disk[f] \in held[f]
       \/ entries[f].match = "mismatch"
       \/ resume /\ entries[f].match = "absent"

Accounted ==
    Running => \A f \in Files :
                 listed[f] # None /\ f \notin visit \cup warned => Right(f)

(* The order in which a run ends.                                          *)
EndsInOrder ==
    /\ phase \in {"manifest", "sums", "verifying"} => visit = {} /\ tmp = None
    /\ phase \in {"sums", "verifying"} => manifest = entries
    /\ phase = "verifying" => sums = SumsOf(entries)

(* A destination that is not there holds nothing, and a run makes it.      *)
MadeFirst ==
    /\ ~made => disk = Nothing
    /\ Running => made

IInv == /\ TypeOK /\ NoTruncatedFile /\ HistoryKept /\ VisitsListed
        /\ Accounted /\ EndsInOrder /\ MadeFirst /\ FreshRunsAlone

(* A destination nobody has written to.                                    *)
LEMMA InitHolds == Init => IInv
<1> SUFFICES ASSUME Init PROVE IInv
    OBVIOUS
<1>1. TypeOK
    BY DEF Init, TypeOK, Nothing, Phases, Ended
<1>2. NoTruncatedFile
    BY NoneAssumption DEF Init, NoTruncatedFile, Nothing
<1>3. HistoryKept /\ VisitsListed /\ Accounted /\ EndsInOrder
    BY DEF Init, HistoryKept, VisitsListed, Accounted, EndsInOrder, Running,
           Ended
<1>4. MadeFirst /\ FreshRunsAlone
    BY DEF Init, MadeFirst, FreshRunsAlone, Running, Ended
<1> QED BY <1>1, <1>2, <1>3, <1>4 DEF IInv

(* What Record writes is an entry.                                         *)
LEMMA CompareType ==
    ASSUME NEW s, NEW g
    PROVE  CompareDigest(s, g) \in {"match", "mismatch", "absent"}
BY DEF CompareDigest

LEMMA RecordType ==
    ASSUME TypeOK, NEW f \in Files, NEW s \in Contents \cup {Partial}, NEW g,
           Record(f, s, g)
    PROVE  /\ entries' \in [Files -> Entry \cup {None}]
           /\ entries'[f] = [sum |-> s, match |-> CompareDigest(s, g)]
           /\ entries'[f] # None
           /\ \A h \in Files : h # f => entries'[h] = entries[h]
<1>1. [sum |-> s, match |-> CompareDigest(s, g)] \in Entry
    BY CompareType DEF Entry
<1>2. None \notin Entry
    BY NoneAssumption
<1> QED BY <1>1, <1>2 DEF TypeOK, Record

(* TypeOK is preserved by every step.                                      *)
LEMMA TypeStep == TypeOK /\ [Next]_vars => TypeOK'
<1> SUFFICES ASSUME TypeOK, [Next]_vars PROVE TypeOK'
    OBVIOUS
<1> USE DEF TypeOK, Phases, Ended
<1>e. ASSUME NEW p \in Ended, Exit(p), UNCHANGED <<remote, copy>>
      PROVE  TypeOK'
    BY <1>e DEF Exit, Nothing, copy
<1>1. ASSUME NEW f \in Files, NEW c \in Contents \cup {None}, Edit(f, c)
      PROVE  TypeOK'
    BY <1>1 DEF Edit, copy
<1>2. ASSUME NEW f \in Files, NEW c \in Contents \cup {None}, Rot(f, c)
      PROVE  TypeOK'
    BY <1>2 DEF Rot, run
<1>3. ASSUME NEW r \in BOOLEAN, Start(r) PROVE TypeOK'
    BY <1>3 DEF Start, Nothing
<1>4. ASSUME NEW d \in Folders, ListFolder(d) PROVE TypeOK'
    BY <1>4 DEF ListFolder, copy
<1>5. ASSUME NEW f \in Files, Refuse(f) PROVE TypeOK'
    BY <1>5 DEF Refuse, Visiting, copy
<1>6. ASSUME NEW f \in Files, Skip(f) PROVE TypeOK'
  <2>1. PICK a \in AttrsOf(listed[f]) :
             ExistingFile(f, a.size) /\ Record(f, disk[f], a.digest)
      BY <1>6 DEF Skip
  <2>2. disk[f] \in Contents \cup {Partial}
      BY <2>1 DEF ExistingFile
  <2>3. entries' \in [Files -> Entry \cup {None}]
      BY <2>1, <2>2, RecordType
  <2> QED BY <1>6, <2>3 DEF Skip, Visiting, copy
<1>7. ASSUME NEW f \in Files, Download(f) PROVE TypeOK'
  <2>1. PICK a \in AttrsOf(listed[f]) : OpenPart(f, a)
      BY <1>7 DEF Download
  <2>2. a.digest \in Contents \cup {None}
      BY <1>7, ContentAssumption DEF Download, Visiting, AttrsOf
  <2>3. remote[f] \in Contents
      BY <1>7 DEF Download
  <2>4. tmp' \in Part
      BY <2>1, <2>2, <2>3 DEF OpenPart, Part
  <2> QED BY <1>7, <2>1, <2>4 DEF Download, Visiting, OpenPart
<1>8. CASE Downloaded
  <2>1. tmp.file \in Files /\ tmp.content \in Contents
      BY <1>8 DEF Downloaded, Part
  <2>2. entries' \in [Files -> Entry \cup {None}]
      BY <1>8, <2>1, RecordType DEF Downloaded
  <2>3. disk' \in [Files -> Contents \cup {Partial, None}]
      BY <1>8, <2>1 DEF Downloaded
  <2>4. warned' \subseteq Files
      BY <1>8, <2>1 DEF Downloaded
  <2> QED BY <1>8, <2>2, <2>3, <2>4 DEF Downloaded
<1>9. CASE DownloadFails
    BY <1>9 DEF DownloadFails, FailFile, copy
<1>10. CASE Abort
    BY <1>10, <1>e DEF Abort
<1>11. CASE WalkDone
    BY <1>11 DEF WalkDone, copy, run
<1>12. CASE WriteManifest
    BY <1>12 DEF WriteManifest, run
<1>13. CASE WriteSums
  <2>1. SumsOf(entries) \in [Files -> Contents \cup {Partial, None}]
      BY DEF SumsOf, Entry
  <2> QED BY <1>13, <2>1 DEF WriteSums, run
<1>14. CASE VerifyBackup
    BY <1>14, <1>e DEF VerifyBackup
<1>15. CASE VerifyOnly
    BY <1>15 DEF VerifyOnly, copy, run
<1>16. CASE UNCHANGED vars
    BY <1>16 DEF vars, copy, run
<1> QED BY <1>1, <1>2, <1>3, <1>4, <1>5, <1>6, <1>7, <1>8, <1>9, <1>10, <1>11,
           <1>12, <1>13, <1>14, <1>15, <1>16 DEF Next

(* A step of the user, of verify, or of nobody: the run is not touched.    *)
LEMMA EditHolds ==
    ASSUME IInv, TypeOK', NEW f \in Files, NEW c \in Contents \cup {None},
           Edit(f, c)
    PROVE  IInv'
<1> USE DEF IInv, Edit, copy
<1>a. \A h \in Files : held[h] \subseteq held'[h]
    BY DEF TypeOK
<1>1. NoTruncatedFile' /\ MadeFirst' /\ FreshRunsAlone' /\ EndsInOrder'
    BY DEF NoTruncatedFile, MadeFirst, FreshRunsAlone, EndsInOrder, Running
<1>2. HistoryKept'
    BY <1>a DEF HistoryKept, Running, TypeOK
<1>3. VisitsListed'
    BY <1>a DEF VisitsListed, TypeOK, Part
<1>4. Accounted'
    BY <1>a DEF Accounted, Right, Running
<1> QED BY <1>1, <1>2, <1>3, <1>4

(* The end of a run, however it ends.                                      *)
LEMMA ExitHolds ==
    ASSUME IInv, TypeOK', NEW p \in Ended, Exit(p), UNCHANGED <<remote, copy>>
    PROVE  IInv'
<1> USE DEF IInv, Exit, copy
<1>1. NoTruncatedFile' /\ HistoryKept' /\ Accounted' /\ FreshRunsAlone'
    BY DEF NoTruncatedFile, HistoryKept, Accounted, FreshRunsAlone, Running
<1>2. VisitsListed' /\ EndsInOrder' /\ MadeFirst'
    BY DEF VisitsListed, EndsInOrder, MadeFirst, Running, Ended
<1> QED BY <1>1, <1>2

(* Rot only strikes when nothing runs.                                     *)
LEMMA RotHolds ==
    ASSUME IInv, TypeOK', NEW f \in Files, NEW c \in Contents \cup {None},
           Rot(f, c)
    PROVE  IInv'
<1> USE DEF IInv, Rot, run
<1>1. NoTruncatedFile'
    BY ContentAssumption, NoneAssumption DEF NoTruncatedFile, TypeOK
<1>2. MadeFirst'
    BY DEF MadeFirst, Running, Nothing
<1>3. HistoryKept' /\ VisitsListed' /\ Accounted' /\ EndsInOrder'
      /\ FreshRunsAlone'
    BY DEF HistoryKept, VisitsListed, Accounted, EndsInOrder, FreshRunsAlone,
           Running, Ended
<1> QED BY <1>1, <1>2, <1>3

(* A run begins with nothing listed, on a destination it may use.          *)
LEMMA StartHolds ==
    ASSUME IInv, TypeOK', NEW r \in BOOLEAN, Start(r)
    PROVE  IInv'
<1> USE DEF IInv, Start
<1>1. NoTruncatedFile' /\ MadeFirst'
    BY DEF NoTruncatedFile, MadeFirst
<1>2. HistoryKept' /\ VisitsListed' /\ Accounted' /\ EndsInOrder'
    BY DEF HistoryKept, VisitsListed, Accounted, EndsInOrder, Nothing
<1>3. FreshRunsAlone'
    BY DEF FreshRunsAlone, CheckDest, MadeFirst, Nothing
<1> QED BY <1>1, <1>2, <1>3

LEMMA ListHolds ==
    ASSUME IInv, TypeOK', NEW d \in Folders, ListFolder(d)
    PROVE  IInv'
<1> USE DEF IInv, ListFolder, copy
<1>a. Running /\ Running'
    BY DEF Running, Ended
<1>1. NoTruncatedFile' /\ MadeFirst' /\ FreshRunsAlone'
    BY <1>a DEF NoTruncatedFile, MadeFirst, FreshRunsAlone, Running
<1>2. HistoryKept'
    BY <1>a DEF HistoryKept
<1>3. VisitsListed'
    BY DEF VisitsListed, TypeOK
<1>4. Accounted'
    BY <1>a DEF Accounted, Right
<1>5. EndsInOrder'
    BY DEF EndsInOrder
<1> QED BY <1>1, <1>2, <1>3, <1>4, <1>5

(* A file the user is warned of leaves the walk with no entry.             *)
LEMMA WarnHolds ==
    ASSUME IInv, TypeOK', phase = "walking", NEW f \in Files,
           UNCHANGED <<remote, copy, phase, resume, todo, listed, entries,
                       held>>,
           tmp' = None, visit' = visit \ {f}, warned' = warned \cup {f}
    PROVE  IInv'
<1> USE DEF IInv, copy
<1>1. NoTruncatedFile' /\ HistoryKept' /\ MadeFirst' /\ FreshRunsAlone'
    BY DEF NoTruncatedFile, HistoryKept, MadeFirst, FreshRunsAlone, Running
<1>2. VisitsListed' /\ EndsInOrder'
    BY DEF VisitsListed, EndsInOrder
<1>3. Accounted'
    BY DEF Accounted, Right, Running
<1> QED BY <1>1, <1>2, <1>3

(* A file found in place: its digest, if it has one, tells.                *)
LEMMA SkipHolds ==
    ASSUME IInv, TypeOK', NEW f \in Files, Skip(f)
    PROVE  IInv'
<1> USE DEF IInv, Skip, Visiting, copy
<1>1. PICK a \in AttrsOf(listed[f]) :
           ExistingFile(f, a.size) /\ Record(f, disk[f], a.digest)
    OBVIOUS
<1>2. disk[f] \in Contents \cup {Partial}
    BY <1>1 DEF ExistingFile, TypeOK
<1>3. /\ entries'[f] = [sum |-> disk[f],
                        match |-> CompareDigest(disk[f], a.digest)]
      /\ entries'[f] # None
      /\ \A h \in Files : h # f => entries'[h] = entries[h]
    BY <1>1, <1>2, RecordType
<1>4. Running /\ Running'
    BY DEF Running, Ended
<1>5. listed[f] # None /\ listed[f] \in held[f]
    BY <1>4 DEF VisitsListed, HistoryKept
<1>6. a.digest # None => a.digest = listed[f]
    BY DEF AttrsOf
<1>7. Right(f)'
  <2>1. CASE a.digest = None
      BY <2>1, <1>3 DEF Right, CompareDigest
  <2>2. CASE a.digest # None /\ disk[f] = a.digest
      BY <2>2, <1>3, <1>5, <1>6 DEF Right
  <2>3. CASE a.digest # None /\ disk[f] # a.digest
      BY <2>3, <1>3 DEF Right, CompareDigest
  <2> QED BY <2>1, <2>2, <2>3
<1>8. NoTruncatedFile' /\ HistoryKept' /\ MadeFirst' /\ EndsInOrder'
    BY <1>4 DEF NoTruncatedFile, HistoryKept, MadeFirst, EndsInOrder, Running
<1>9. VisitsListed'
    BY DEF VisitsListed
<1>10. Accounted'
    BY <1>3, <1>4, <1>7 DEF Accounted, Right
<1>11. FreshRunsAlone'
    BY <1>3 DEF FreshRunsAlone
<1> QED BY <1>8, <1>9, <1>10, <1>11

LEMMA DownloadHolds ==
    ASSUME IInv, TypeOK', NEW f \in Files, Download(f)
    PROVE  IInv'
<1> USE DEF IInv, Download, Visiting
<1>1. PICK a \in AttrsOf(listed[f]) : OpenPart(f, a)
    OBVIOUS
<1>2. Running /\ Running'
    BY DEF Running, Ended
<1>3. tmp' = [file |-> f, content |-> remote[f], digest |-> a.digest]
      /\ disk' = disk
    BY <1>1 DEF OpenPart
<1>4. NoTruncatedFile' /\ HistoryKept' /\ MadeFirst' /\ FreshRunsAlone'
      /\ EndsInOrder'
    BY <1>2, <1>3 DEF NoTruncatedFile, HistoryKept, MadeFirst, EndsInOrder,
       FreshRunsAlone, Running
<1>5. VisitsListed'
    BY <1>2, <1>3 DEF VisitsListed, HistoryKept
<1>6. Accounted'
    BY <1>2, <1>3 DEF Accounted, Right
<1> QED BY <1>4, <1>5, <1>6

(* What was downloaded is a content the Drive held.                        *)
LEMMA DownloadedHolds ==
    ASSUME IInv, TypeOK', Downloaded
    PROVE  IInv'
<1> USE DEF IInv, Downloaded
<1>0. PICK f, c : f = tmp.file /\ c = tmp.content
    OBVIOUS
<1>1. f \in visit /\ f \in Files /\ c \in held[f] /\ c \in Contents
    BY <1>0 DEF VisitsListed, TypeOK, Part
<1>2. Running /\ Running'
    BY DEF Running, Ended
<1>3. /\ entries'[f] = [sum |-> c, match |-> CompareDigest(c, tmp.digest)]
      /\ entries'[f] # None
      /\ \A h \in Files : h # f => entries'[h] = entries[h]
    BY <1>0, <1>1, RecordType
<1>4. disk'[f] = c /\ \A h \in Files : h # f => disk'[h] = disk[h]
    BY <1>0, <1>1 DEF TypeOK
<1>5. NoTruncatedFile'
    BY <1>1, <1>4, ContentAssumption DEF NoTruncatedFile
<1>6. HistoryKept' /\ MadeFirst' /\ EndsInOrder' /\ VisitsListed'
    BY <1>2 DEF HistoryKept, MadeFirst, EndsInOrder, VisitsListed, Running
<1>7. Accounted'
  <2>1. Right(f)'
      BY <1>1, <1>3, <1>4 DEF Right
  <2>2. ASSUME NEW h \in Files, h # f, Right(h) PROVE Right(h)'
      BY <2>2, <1>3, <1>4 DEF Right
  <2> QED BY <2>1, <2>2, <1>0, <1>2 DEF Accounted
<1>8. FreshRunsAlone'
    BY <1>3, <1>4 DEF FreshRunsAlone
<1> QED BY <1>5, <1>6, <1>7, <1>8

(* The walk is over and the two manifests are written.                     *)
LEMMA WriteHolds ==
    ASSUME IInv, TypeOK', WalkDone \/ WriteManifest \/ WriteSums
    PROVE  IInv'
<1> USE DEF IInv, WalkDone, WriteManifest, WriteSums, run, copy
<1>1. Running /\ Running'
    BY DEF Running, Ended
<1>2. NoTruncatedFile' /\ HistoryKept' /\ MadeFirst' /\ FreshRunsAlone'
    BY <1>1 DEF NoTruncatedFile, HistoryKept, MadeFirst, FreshRunsAlone, Running
<1>3. VisitsListed' /\ EndsInOrder'
    BY DEF VisitsListed, EndsInOrder
<1>4. Accounted'
    BY <1>1 DEF Accounted, Right
<1> QED BY <1>2, <1>3, <1>4

(* pdrive verify changes nothing but what it says.                         *)
LEMMA VerifyHolds ==
    ASSUME IInv, TypeOK', VerifyOnly
    PROVE  IInv'
<1> USE DEF IInv, VerifyOnly, run, copy
<1>1. NoTruncatedFile' /\ MadeFirst' /\ FreshRunsAlone'
    BY DEF NoTruncatedFile, MadeFirst, FreshRunsAlone, Running, Ended
<1>2. HistoryKept' /\ VisitsListed' /\ Accounted' /\ EndsInOrder'
    BY DEF HistoryKept, VisitsListed, Accounted, EndsInOrder, Running, Ended
<1> QED BY <1>1, <1>2

LEMMA StutterHolds == IInv /\ TypeOK' /\ UNCHANGED vars => IInv'
<1> SUFFICES ASSUME IInv, TypeOK', UNCHANGED vars PROVE IInv'
    OBVIOUS
<1> USE DEF IInv, vars, run, copy
<1>1. NoTruncatedFile' /\ HistoryKept' /\ VisitsListed' /\ Accounted'
    BY DEF NoTruncatedFile, HistoryKept, VisitsListed, Accounted, Running, Right
<1>2. EndsInOrder' /\ MadeFirst' /\ FreshRunsAlone'
    BY DEF EndsInOrder, MadeFirst, FreshRunsAlone, Running
<1> QED BY <1>1, <1>2

LEMMA StepHolds == IInv /\ [Next]_vars => IInv'
<1> SUFFICES ASSUME IInv, [Next]_vars PROVE IInv'
    OBVIOUS
<1>t. TypeOK'
    BY TypeStep DEF IInv
<1>1. ASSUME NEW f \in Files, NEW c \in Contents \cup {None},
             Edit(f, c) \/ Rot(f, c)
      PROVE  IInv'
    BY <1>1, <1>t, EditHolds, RotHolds
<1>2. ASSUME NEW r \in BOOLEAN, Start(r) PROVE IInv'
    BY <1>2, <1>t, StartHolds
<1>3. ASSUME NEW d \in Folders, ListFolder(d) PROVE IInv'
    BY <1>3, <1>t, ListHolds
<1>4. ASSUME NEW f \in Files, Refuse(f) PROVE IInv'
    BY <1>4, <1>t, WarnHolds DEF Refuse, Visiting
<1>5. ASSUME NEW f \in Files, Skip(f) \/ Download(f) PROVE IInv'
    BY <1>5, <1>t, SkipHolds, DownloadHolds
<1>6. CASE Downloaded
    BY <1>6, <1>t, DownloadedHolds
<1>7. CASE DownloadFails
  <2>1. PICK f \in visit : FailFile(f)
      BY <1>7 DEF DownloadFails
  <2>2. f \in Files
      BY <2>1 DEF IInv, TypeOK
  <2> QED BY <1>7, <2>1, <2>2, <1>t, WarnHolds DEF DownloadFails, FailFile
<1>8. CASE Abort
    BY <1>8, <1>t, ExitHolds DEF Abort, Ended
<1>9. CASE WalkDone \/ WriteManifest \/ WriteSums
    BY <1>9, <1>t, WriteHolds
<1>10. CASE VerifyBackup
    BY <1>10, <1>t, ExitHolds DEF VerifyBackup, Ended
<1>11. CASE VerifyOnly
    BY <1>11, <1>t, VerifyHolds
<1>12. CASE UNCHANGED vars
    BY <1>12, <1>t, StutterHolds
<1> QED BY <1>1, <1>2, <1>3, <1>4, <1>5, <1>6, <1>7, <1>8, <1>9, <1>10, <1>11,
           <1>12 DEF Next

(* The states of a backup are what the program can hold, and no file is    *)
(* ever truncated at its real path (backup.go:208-210), nor does a run     *)
(* without --resume find anything it has not downloaded (checkDest).       *)
THEOREM CopySound == Spec => []TypeOK /\ []NoTruncatedFile /\ []FreshRunsAlone
<1>1. IInv => TypeOK /\ NoTruncatedFile /\ FreshRunsAlone
    BY DEF IInv
<1> QED BY <1>1, InitHolds, StepHolds, PTL DEF Spec

(* In particular, whatever stopped a download, only a part file is short   *)
(* (download renames it into place).                                       *)
THEOREM NeverTruncated == Spec => []NoTruncatedFile
  BY CopySound, PTL

(* Only the end of cmdBackup turns "verifying" into "clean".               *)
LEMMA VerdictStep ==
    ASSUME TypeOK, [Next]_vars, BackupVerified
    PROVE  Clean
<1>1. VerifyBackup
    BY DEF Next, vars, run, copy, BackupVerified, TypeOK, Edit, Rot, Start,
       ListFolder, Refuse, Skip, Visiting, Download, Downloaded, DownloadFails,
       Abort, Exit, WalkDone, WriteManifest, WriteSums, VerifyOnly, Ended
<1> QED BY <1>1 DEF VerifyBackup, Exit, BackupVerified

(* A clean verdict holds what it promises: every file listed is on disk in *)
(* a content the Drive held meanwhile, but for the exceptions stated, and  *)
(* sha1sum(1) agrees about the same files (backup.go:3-6, 28-30).          *)
THEOREM CleanIsTrue == Spec => VerdictHolds /\ SumsAgree
<1>1. ASSUME IInv, [Next]_vars, BackupVerified
      PROVE  /\ \A f \in Files : listed[f] # None /\ f \notin warned =>
                  /\ entries[f] # None
                  /\ \/ disk[f] \in held[f]
                     \/ resume /\ entries[f].match = "absent"
             /\ \A f \in Files : /\ (sums[f] # None) = (manifest[f] # None)
                                 /\ sums[f] # None => disk[f] = sums[f]
  <2>1. Clean
      BY <1>1, VerdictStep DEF IInv
  <2>2. visit = {} /\ manifest = entries /\ sums = SumsOf(entries) /\ Running
      BY <1>1 DEF IInv, EndsInOrder, BackupVerified, Running, Ended
  <2>3. ASSUME NEW f \in Files, listed[f] # None, f \notin warned
        PROVE  /\ entries[f] # None
               /\ \/ disk[f] \in held[f]
                  \/ resume /\ entries[f].match = "absent"
    <3>1. Right(f)
        BY <2>2, <2>3, <1>1 DEF IInv, Accounted
    <3>2. entries[f].match # "mismatch"
        BY <3>1, <2>1, <2>2 DEF Right, Clean, Intact
    <3> QED BY <3>1, <3>2 DEF Right
  <2>4. ASSUME NEW f \in Files, entries[f] # None
        PROVE  entries[f].sum # None
    <3>1. entries[f] \in Entry
        BY <2>4, <1>1 DEF IInv, TypeOK
    <3> QED BY <3>1, NoneAssumption DEF Entry
  <2>5. ASSUME NEW f \in Files
        PROVE  /\ (sums[f] # None) = (manifest[f] # None)
               /\ sums[f] # None => disk[f] = sums[f]
    <3>1. CASE entries[f] = None
        BY <3>1, <2>2 DEF SumsOf
    <3>2. CASE entries[f] # None
        BY <3>2, <2>1, <2>2, <2>4 DEF SumsOf, Clean, Intact
    <3> QED BY <3>1, <3>2
  <2> QED BY <2>3, <2>5
<1>2. IInv /\ [Next]_vars =>
        [BackupVerified =>
           \A f \in Files : listed[f] # None /\ f \notin warned =>
                  /\ entries[f] # None
                  /\ \/ disk[f] \in held[f]
                     \/ resume /\ entries[f].match = "absent"]_vars
    BY <1>1
<1>3. IInv /\ [Next]_vars =>
        [BackupVerified =>
           \A f \in Files : /\ (sums[f] # None) = (manifest[f] # None)
                            /\ sums[f] # None => disk[f] = sums[f]]_vars
    BY <1>1
<1> QED BY <1>2, <1>3, InitHolds, StepHolds, PTL
        DEF Spec, VerdictHolds, SumsAgree

(* In particular, a clean verdict finds both manifests about the same      *)
(* files and contents (writeManifest).                                     *)
THEOREM ManifestsAgree == Spec => SumsAgree
  BY CleanIsTrue
=============================================================================
