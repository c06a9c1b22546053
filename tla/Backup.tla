------------------------------- MODULE Backup -------------------------------
(***************************************************************************)
(* pdrive backup and pdrive verify (internal/backup, cmd/pdrive): a copy   *)
(* of the Drive on disk, the two manifests beside it, and the verdict that *)
(* gates every other use of the account.                                   *)
(*                                                                         *)
(* A content stands for its SHA1.  The user goes on editing the Drive      *)
(* while the walk runs, so a file is listed with the size and digest of    *)
(* one revision and may be downloaded in another.  The order in which      *)
(* listed files are visited is the server's; here any order.               *)
(***************************************************************************)
EXTENDS Naturals

CONSTANTS
    Files,       \* files the Drive can hold
    Folders,     \* its folders
    Folder,      \* file -> the folder it is in
    Parts,       \* file -> the kinds of its path's components, as a set
    Contents,    \* contents of a file
    Size,        \* content -> its size
    Digested,    \* contents whose revision carries a digest of Proton's
    Partial,     \* what an unfinished download has written so far
    None         \* nothing there

ASSUME FolderAssumption == Folder \in [Files -> Folders]
ASSUME SizeAssumption == Size \in [Contents \cup {Partial} -> Nat]
ASSUME ContentAssumption ==
    /\ Digested \subseteq Contents
    /\ Partial \notin Contents

VARIABLES
    remote,    \* the Drive: file -> content or None
    disk,      \* DataDir: file -> content or None
    made,      \* does the destination exist, with DataDir in it?
    manifest,  \* manifest.json: None, or file -> entry or None
    sums,      \* MANIFEST.sha1: None, or file -> hash or None
    phase,     \* where the invocation is, or how the last one ended
    resume,    \* --resume
    todo,      \* folders the walk has still to list
    listed,    \* file -> content as listed, or None
    visit,     \* listed files WalkFunc has still to be called with
    tmp,       \* the download under way beside its place, or None
    entries,   \* Manifest.Entries: file -> entry or None
    warned,    \* files an EventWarn was emitted for
    held       \* file -> contents the Drive has held since the run began

run  == <<resume, todo, listed, visit, tmp, entries, warned, held>>
copy == <<disk, made, manifest, sums>>
vars == <<remote, copy, phase, run>>

Part == [file : Files, content : Contents, digest : Contents \cup {None}]
Entry == [sum : Contents \cup {Partial},
          match : {"match", "mismatch", "absent"}]
ASSUME NoneAssumption == None \notin Contents \cup {Partial} \cup Entry \cup Part

Ended  == {"failed", "clean", "dirty"}
Phases == Ended \cup {"walking", "manifest", "sums", "verifying"}

TypeOK ==
    /\ remote \in [Files -> Contents \cup {None}]
    /\ disk \in [Files -> Contents \cup {Partial, None}]
    /\ made \in BOOLEAN
    /\ manifest \in {None} \cup [Files -> Entry \cup {None}]
    /\ sums \in {None} \cup [Files -> Contents \cup {Partial, None}]
    /\ phase \in Phases
    /\ resume \in BOOLEAN
    /\ todo \subseteq Folders
    /\ listed \in [Files -> Contents \cup {None}]
    /\ visit \subseteq Files
    /\ tmp \in Part \cup {None}
    /\ entries \in [Files -> Entry \cup {None}]
    /\ warned \subseteq Files
    /\ held \in [Files -> SUBSET Contents]

Nothing == [f \in Files |-> None]

Init ==
    /\ remote \in [Files -> Contents \cup {None}]
    /\ disk = Nothing /\ made = FALSE
    /\ manifest = None /\ sums = None
    /\ phase = "failed"
    /\ resume = FALSE /\ todo = {} /\ listed = Nothing /\ visit = {}
    /\ tmp = None /\ entries = Nothing /\ warned = {}
    /\ held = [f \in Files |-> {}]

-----------------------------------------------------------------------------
(* The Drive, and what happens to the copy between two invocations.        *)

Edit(f, c) ==
    /\ remote[f] # c
    /\ remote' = [remote EXCEPT ![f] = c]
    /\ held' = IF phase \in Ended THEN held
               ELSE [held EXCEPT ![f] = @ \cup ({c} \ {None})]
    /\ UNCHANGED <<copy, phase, resume, todo, listed, visit, tmp, entries,
                   warned>>

(* A bad sector, or somebody's rm, in the copy.                            *)
Rot(f, c) ==
    /\ phase \in Ended
    /\ disk[f] \notin {None, c}
    /\ disk' = [disk EXCEPT ![f] = c]
    /\ UNCHANGED <<remote, made, manifest, sums, phase, run>>

-----------------------------------------------------------------------------
(* The walk.                                                               *)

(* Mutant: checkDest accepts a destination that holds something.           *)
AnyDest(r) == TRUE

(* checkDest: an absent or an empty directory, or --resume.                *)
CheckDest(r) == ~made \/ r

Start(r) ==
    /\ phase \in Ended
    /\ CheckDest(r)
    /\ phase' = "walking" /\ made' = TRUE
    /\ resume' = r
    /\ todo' = Folders /\ listed' = Nothing /\ visit' = {}
    /\ tmp' = None /\ entries' = Nothing /\ warned' = {}
    /\ held' = [f \in Files |-> {remote[f]} \ {None}]
    /\ UNCHANGED <<remote, disk, manifest, sums>>

(* The listing of one folder.  Folders are made and recorded as they are   *)
(* met; nothing below depends on it.                                       *)
ListFolder(d) ==
    /\ phase = "walking" /\ tmp = None
    /\ d \in todo
    /\ todo' = todo \ {d}
    /\ LET here == {f \in Files : Folder[f] = d /\ remote[f] # None}
       IN  /\ listed' = [f \in Files |-> IF f \in here THEN remote[f]
                                                       ELSE listed[f]]
           /\ visit' = visit \cup here
    /\ UNCHANGED <<remote, copy, phase, resume, tmp, entries, warned, held>>

(* What Walk knows of a listed file: fillAttrs leaves size and digest      *)
(* empty when the attributes cannot be read.                               *)
AttrsOf(c) ==
    {[size |-> Size[c], digest |-> IF c \in Digested THEN c ELSE None],
     [size |-> 0, digest |-> None]}

(* SanitizePath: every component is a plain name.                          *)
SanitizePath(f) == Parts[f] = {"plain"}

CompareDigest(sum, digest) ==
    IF digest = None THEN "absent"
    ELSE IF sum = digest THEN "match" ELSE "mismatch"

(* existingFile: a size of 0 accepts any file.                             *)
ExistingFile(f, size) ==
    /\ disk[f] # None
    /\ size > 0 => Size[disk[f]] = size

Visiting(f) ==
    /\ phase = "walking" /\ tmp = None
    /\ f \in visit

Record(f, sum, digest) ==
    entries' = [entries EXCEPT ![f] =
                  [sum |-> sum, match |-> CompareDigest(sum, digest)]]

(* A name that cannot be a path component: warned about, not recorded.     *)
Refuse(f) ==
    /\ Visiting(f)
    /\ ~SanitizePath(f)
    /\ visit' = visit \ {f}
    /\ warned' = warned \cup {f}
    /\ UNCHANGED <<remote, copy, phase, resume, todo, listed, tmp, entries,
                   held>>

(* --resume finds the file in place.                                       *)
Skip(f) ==
    /\ Visiting(f)
    /\ SanitizePath(f)
    /\ resume
    /\ \E a \in AttrsOf(listed[f]) :
         /\ ExistingFile(f, a.size)
         /\ Record(f, disk[f], a.digest)
    /\ visit' = visit \ {f}
    /\ UNCHANGED <<remote, copy, phase, resume, todo, listed, tmp, warned,
                   held>>

(* Mutant: the content is written straight to its place.                   *)
OpenInPlace(f, a) ==
    /\ tmp' = [file |-> f, content |-> remote[f], digest |-> a.digest]
    /\ disk' = [disk EXCEPT ![f] = Partial]

(* download opens the active revision, whichever that is by now, and a     *)
(* file beside the real path.                                              *)
OpenPart(f, a) ==
    /\ tmp' = [file |-> f, content |-> remote[f], digest |-> a.digest]
    /\ UNCHANGED disk

Download(f) ==
    /\ Visiting(f)
    /\ SanitizePath(f)
    /\ remote[f] # None
    /\ \E a \in AttrsOf(listed[f]) :
         /\ ~(resume /\ ExistingFile(f, a.size))
         /\ OpenPart(f, a)
    /\ UNCHANGED <<remote, made, manifest, sums, phase, resume, todo, listed,
                   visit, entries, warned, held>>

(* The copy is complete and on stable storage: into place, and recorded    *)
(* under the hash of what was written.                                     *)
Downloaded ==
    /\ phase = "walking" /\ tmp # None
    /\ disk' = [disk EXCEPT ![tmp.file] = tmp.content]
    /\ Record(tmp.file, tmp.content, tmp.digest)
    /\ warned' = IF CompareDigest(tmp.content, tmp.digest) = "mismatch"
                 THEN warned \cup {tmp.file} ELSE warned
    /\ visit' = visit \ {tmp.file}
    /\ tmp' = None
    /\ UNCHANGED <<remote, made, manifest, sums, phase, resume, todo, listed,
                   held>>

(* Mutant: the file that could not be read is passed over silently.        *)
FailSilently(f) ==
    /\ visit' = visit \ {f}
    /\ tmp' = None
    /\ UNCHANGED <<entries, warned>>

(* A file that cannot be read, or written: a warning, no entry, and the    *)
(* walk goes on.                                                           *)
FailFile(f) ==
    /\ visit' = visit \ {f}
    /\ tmp' = None
    /\ warned' = warned \cup {f}
    /\ UNCHANGED entries

DownloadFails ==
    /\ phase = "walking"
    /\ \E f \in visit :
         /\ SanitizePath(f)
         /\ \/ tmp = None
               /\ \E a \in AttrsOf(listed[f]) :
                    ~(resume /\ ExistingFile(f, a.size))
            \/ tmp # None /\ tmp.file = f
         /\ FailFile(f)
    /\ UNCHANGED <<remote, copy, phase, resume, todo, listed, held>>

(* The process's own variables go with it.                                 *)
Exit(p) ==
    /\ phase' = p
    /\ resume' = FALSE /\ todo' = {} /\ listed' = Nothing /\ visit' = {}
    /\ tmp' = None /\ entries' = Nothing /\ warned' = {}
    /\ held' = [f \in Files |-> {}]

(* A listing fails, a folder cannot be made, a manifest cannot be written, *)
(* the user interrupts, or the process dies: what is on disk stays.        *)
Abort ==
    /\ phase \notin Ended
    /\ Exit("failed")
    /\ UNCHANGED <<remote, copy>>

-----------------------------------------------------------------------------
(* The manifests and the verdict.                                          *)

WalkDone ==
    /\ phase = "walking" /\ tmp = None
    /\ todo = {} /\ visit = {}
    /\ phase' = "manifest"
    /\ UNCHANGED <<remote, copy, run>>

WriteManifest ==
    /\ phase = "manifest"
    /\ manifest' = entries
    /\ phase' = "sums"
    /\ UNCHANGED <<remote, disk, made, sums, run>>

SumsOf(m) == [f \in Files |-> IF m[f] = None THEN None ELSE m[f].sum]

(* Mutant: MANIFEST.sha1 is written by the first run only.                 *)
WriteSumsOnce ==
    /\ phase = "sums"
    /\ sums' = IF sums = None THEN SumsOf(entries) ELSE sums
    /\ phase' = "verifying"
    /\ UNCHANGED <<remote, disk, made, manifest, run>>

WriteSums ==
    /\ phase = "sums"
    /\ sums' = SumsOf(entries)
    /\ phase' = "verifying"
    /\ UNCHANGED <<remote, disk, made, manifest, run>>

(* Verify of one entry: neither Missing, Mismatch nor RemoteMismatch.      *)
Intact(f) ==
    manifest[f] # None => /\ SanitizePath(f)
                          /\ disk[f] = manifest[f].sum
                          /\ manifest[f].match # "mismatch"

Clean == \A f \in Files : Intact(f)

(* The end of cmdBackup.                                                   *)
VerifyBackup ==
    /\ phase = "verifying"
    /\ Exit(IF Clean THEN "clean" ELSE "dirty")
    /\ UNCHANGED <<remote, copy>>

(* cmdVerify: offline, and needs a manifest to read.                       *)
VerifyOnly ==
    /\ phase \in Ended
    /\ manifest # None
    /\ phase' = IF Clean THEN "clean" ELSE "dirty"
    /\ UNCHANGED <<remote, copy, run>>

-----------------------------------------------------------------------------
Next ==
    \/ \E f \in Files, c \in Contents \cup {None} : Edit(f, c) \/ Rot(f, c)
    \/ \E r \in BOOLEAN : Start(r)
    \/ \E d \in Folders : ListFolder(d)
    \/ \E f \in Files : Refuse(f) \/ Skip(f) \/ Download(f)
    \/ Downloaded \/ DownloadFails \/ Abort
    \/ WalkDone \/ WriteManifest \/ WriteSums
    \/ VerifyBackup \/ VerifyOnly

Spec == Init /\ [][Next]_vars

-----------------------------------------------------------------------------
BackupVerified == phase = "verifying" /\ phase' = "clean"

(* What a clean verdict at the end of pdrive backup may be relied on for   *)
(* (backup.go:3-6, "a hard gate"): every file of the Drive it listed is on *)
(* disk in a content the Drive held while it ran, unless the user was      *)
(* warned of that file, or the run resumed onto a file it could not check  *)
(* because Proton gave no digest for it.                                   *)
VerdictHolds ==
    [][BackupVerified =>
         \A f \in Files : listed[f] # None /\ f \notin warned =>
            /\ entries[f] # None
            /\ \/ disk[f] \in held[f]
               \/ resume /\ entries[f].match = "absent"]_vars

(* "The backup can be verified with standard tools" (backup.go:28-30):     *)
(* when the program says clean, sha1sum -c MANIFEST.sha1 says so too, for  *)
(* the same files.                                                         *)
SumsAgree ==
    [][BackupVerified =>
         \A f \in Files : /\ (sums[f] # None) = (manifest[f] # None)
                          /\ sums[f] # None => disk[f] = sums[f]]_vars

(* download's promise (backup.go:208-210): at no time, and after no crash, *)
(* is there a truncated file at a real path.                               *)
NoTruncatedFile == \A f \in Files : disk[f] # Partial

(* checkDest's promise: "a second backup can never quietly half-overwrite  *)
(* the first".  Whatever a run without --resume finds in place it has      *)
(* itself downloaded.                                                      *)
FreshRunsAlone ==
    phase \notin Ended /\ ~resume =>
        \A f \in Files : disk[f] # None => entries[f] # None

(* What the comment at backup.go:174 says of a file that could not be      *)
(* downloaded: "VerifyManifest will report the gap".  Refuted (README,     *)
(* section 5): the code leaves no entry that could be reported.            *)
GapsAreReported ==
    [][BackupVerified =>
         \A f \in Files : listed[f] # None /\ SanitizePath(f) =>
            manifest[f] # None]_vars
=============================================================================
