# pDrive in TLA+

pDrive keeps a local folder and a Proton Drive folder the same: a daemon runs
*passes* over the two sides and a baseline database, a terminal interface and
command-line tools talk to it, and a privileged helper holds directory listings
until the daemon has refreshed them. This directory models the parts of it where
order, failure and staleness matter, checks the models with TLC and proves the
theorems that matter most with TLAPS. Paths below are relative to `src/`.

## 1. Inventory

| Component | Code | State it keeps | Operations |
|---|---|---|---|
| sync engine, pull | `internal/mirror/{mirror,conflict,local,source}.go` | the pass's locals, `localBefore`, warnings | `Sync`, `FullMirror`, `applyEvents`, `relistDir`, `applyNode`, `preserveLocalIfConflicting`, `stageDownload`/`commitStaged`, `deleteNode`, `reapUnseen`, `RefreshDir`, `Materialize` |
| sync engine, push | `internal/mirror/{push,scan}.go` | the scan, the baseline read for the push | `SyncBoth`, `Scan`, `hashIfNeeded`, `findLocalDeletions`, `detectMoves`, `applyMove`, `trashRemote`, `pushNode` |
| safety guards | `internal/mirror/guards.go` | none | `checkRoot`, `checkDeletionCliff` |
| three-way decision | `internal/mirror/reconcile.go` | none | `Reconcile` (used by its tests only) |
| state database | `internal/state/state.go` | tables `nodes`, `meta`, `conflicts`, `activity` | get, put, delete, cursor |
| Drive adapter | `internal/drive/*.go` | the link cache | `Walk`, `ListDir`, `PollEvents`, `Download`, `Upload`, `Move`, `Trash` |
| API client, session | `internal/api/*.go` | tokens, `SharedLimiter`, the session file | requests, token refresh, rate limiting |
| pass scheduling | `internal/daemon/{daemon,sleep}.go` | `state`, `wake`, `syncReq`, `lastPoll` | `syncLoop`, `runSync`, `finishSync`, `Trigger`, `drainWake`, `pollLoop`, `RequestSync`, `Pause`, `Resume`, `WatchResume` |
| local watcher | `internal/daemon/watcher.go` | inotify watches, debounce timer, event channel | `addTree`, `handle`, `debounceLoop` |
| gate, daemon side | `internal/daemon/gate.go` | the refresh in flight, its waiters | `refreshForListing`, acknowledgements |
| gate, helper | `internal/gate/*.go` | kernel marks, the map of marked paths, the client, pending listings | `handleClient`, `Mark`, `MarkTree`, `UnmarkAll`, `decide` |
| backup | `internal/backup/*.go` | archive and manifest | `Run`, `Verify` |
| configuration | `internal/config/*.go` | the settings file | load, save, `MigrateSyncRoot` |
| IPC | `internal/ipc/*.go`, `internal/daemon/server.go` | connections, subscribers | framing, dispatch |
| interfaces, commands | `internal/tui`, `cmd/*` | presentation | flag parsing, wiring |
| bundled bridge, tools | `third_party/`, `tools/` | | third-party code |

How they interact. `syncLoop` is one goroutine: it takes a trigger from `wake`
(the poller, the watcher's debounce, a resume from sleep, a listing hint) or a
client's request from `syncReq`, and runs one pass (`SyncBoth`, or a pull alone).
A pass reads and writes three stores which nothing keeps consistent: the folder,
the database, and Drive through its adapter. Drive tells of changes by an event
feed that lags behind them; the cursor in `meta` is how far this machine has read.
The gate's helper and the daemon talk over a socket: the helper marks the
directories the kernel should intercept and asks the daemon about each listing;
the daemon runs `RefreshDir` and answers.

What is hard, and what would make each part correct:

- *The engine*: the user edits while a pass runs; other devices act between a
  listing and the request that relies on it; events come late; any request, rename
  or statement can fail or be the last one of a killed process; a file is told from
  its past by size, modification second, inode and a hash that may be old. It is
  correct when no work of the user is ever lost, when the baseline never vouches
  for a content only the folder holds, when a saved cursor means that everything
  up to it was applied, when Drive only loses what the user removed, and when both
  sides come to agree once everything is quiet.
- *Scheduling*: triggers are dropped, drained and skipped; requests compete with
  them; pause, failures and the rate limit intervene. It is correct when every
  request is kept and answered, no change waits for ever for its pass, and a paused
  daemon stays paused.
- *Marks*: the kernel marks inodes, the helper remembers paths, directories come,
  go and are renamed while daemons connect and disconnect. It is correct when only
  the registered daemon is served, every directory is marked while it is, and none
  is marked when it has gone.
- *The decision*: nine yes-or-no facts and hashes that may be missing. It is
  correct when it never sides against an edit, and decides alike whichever side is
  the local one.
- *Held listings*: a user's `open` waits in the kernel on two programs, either of
  which may end; the daemon opens the same directories; numbers and connections are
  reused. It is correct when the daemon never waits for itself, every open is let go,
  every question answered, and an answer that follows a refresh finds its listing with
  what Drive had when the open began.
- *Watches*: inotify follows directories and the watcher remembers paths, while
  directories come, go and move ahead of the queue of events, and a watch may be
  refused. It is correct when it goes blind only where that race or a refusal makes it,
  and no reported change is lost.
- *The session*: Proton takes each refresh token once, answers get lost, and several
  programs write one file. It is correct when the file holds the newest pair with
  its key, and no goroutine spends a token another has spent.
- *Moving the folder*: a copy, two removals, two configurations and a daemon that
  takes a missing file for a deletion. It is correct when no file is lost.
- *The backup*: interrupted and resumed over what is in place. It is correct when a
  clean verdict vouches for every entry.

## 2. Modules

| Module | Models | State ↔ code |
|---|---|---|
| `Mirror` | one machine's passes (`SyncBoth`, `RefreshDir`, `Sync` alone, `FullMirror` alone), its folder, database and Drive folder, the user and the account's other devices | `disk`, `trash`, `scratch`: the sync folder, the local trash, `ScratchDir`; `rows`, `primed`: the table `nodes` and the cursor in `meta`; `links`, `vault`, `feed`, `visible`: Drive, its revisions and events; `pass`: the Go locals |
| `MirrorInv` | the inductive invariants of `Mirror` and the `Precautions` | |
| `MirrorProofs` | theorems about `Mirror` and `Reconcile` | |
| `Daemon` | `syncLoop`, `runSync`, `finishSync`, triggers, requests, pause, rate limit | `state`, `wake`, `queue` are `Daemon.state`, `.wake`, `.syncReq`; `loop` and `client` say where the goroutines are; `pending` is what no pass has taken in |
| `Serving` | the abstract specification of `RequestSync`: one counter, one line before it | `Daemon` implements it (`ImplementsServing`) |
| `DaemonProofs` | theorems about `Daemon`, the refinement among them | |
| `Marks` | `handleClient`'s registration, `MarkTree`, `UnmarkAll`, `Close`, with the theorems about them | `kernel`: marked inodes; `marked`: `Fanotify.marked`; `client`: `Server.client`; `walk`: the rest of a walk |
| `Listing` | an open that the kernel holds, `decide` with its deadline, acknowledgements, the rescan's own opens, connections; `refreshForListing` with its leader and joiners | `opener`: the opens held and the numbers `decide` gave them; `client`, `reader`: `Server.client`, where `handleClient` is; `acks`: the socket; `jobs`: the daemon's goroutines; `running`: `Daemon.listingRun` |
| `ListingProofs` | theorems about `Listing` | |
| `Watch` | `addTree`, `handle`, `forget`, the event channel, the debounce, the listing limit | `watched`, `queue`: the kernel's watches and events; `paths`: `Watcher.paths`; `todo`, `reading`: `filepath.Walk`; `chan`: `Watcher.events`; `timer`: `changeTimer` |
| `WatchProofs` | theorems about `Watch` | |
| `Session` | token rotation and its callbacks, the session file of several programs, the TUI's resume, login and logout | `live`, `gen`: what Proton accepts; `file`: `session.json`; `mem`: `Client.uid/access/refresh`; `refresh`: where a refresh is; `screen`, `step`, `job`, `logout`: the TUI's goroutines |
| `SessionProofs` | theorems about `Session` | |
| `MoveRoot` | the confirmation, `moveSyncRoot`, `MigrateSyncRoot`, `config.toml`, and the steps of a daemon that starts in between and runs a pass: `checkRoot`, the scan after the pull, deletions, uploads | `tree`, `torn`: whole and unfinished files of each folder; `mem`, `saved`: the configuration in memory and in the file; `at`: where the move is; `pass`: where the daemon's pass is, what it has listed and found |
| `MoveRootProofs` | theorems about `MoveRoot` | |
| `Backup` | `pdrive backup` (walk, download, resume, both manifests) and `Verify` | `disk`: `DataDir`; `manifest`, `sums`: the two files; `todo`, `listed`, `visit`, `tmp`, `entries`: the run's locals |
| `BackupProofs` | theorems about `Backup` | |
| `Reconcile` | `Reconcile` and its helpers, as operators | a side is absent, a directory, an unhashed file or a hash |
| `MCMirror`, `MCSession`, `MCMoveRoot`, `MCBackup` | sets and symmetries the configurations choose from | |

`Mirror` has an action per system call, request or database statement of a pass,
so anything may happen between two of them. `PollEvents` … `SaveCursor` are
`applyEvents` (with `StartWalk` for `FullMirror`'s own beginning); `DeleteByID` and
`Forget` are the two halves of `deleteNode`; `List`, `ApplySkip`, `Download`,
`Preserve`, `Commit`, `Record` are `relistDir` and `applyNode`; `FindStale` and
`Reap` are `reapUnseen`; `Rescan`, `Baseline`, `MoveRemote`, `DropRow`,
`ReplaceRow`, `TrashRemote`, `Untrack`, `PushSkip`, `PushHash`, `Upload`, `Track`
are `push`. `Failure` has an action for each request or rename that may fail, with
what the code does about the error (a warning, or the end of the pass), and
`Crash`. A content is a model value standing for the bytes, their digest and the
pair (size, modification second) of the file; a file that is renamed or downloaded
keeps it. Names of conflict copies, inodes, link ids and new contents are taken
fresh, and one choice stands for all, since no decision tells them apart. The
variables `work`, `removed`, `written`, `twice` are histories, which no action of
the code reads.

`Daemon` abstracts a pass to what it takes in: the changes there were when it
began, given back when it fails. Which goroutine does what, the two channels with
their capacities and the tests in `runSync` are kept. Its refinement mapping takes
the client in the loop's hands for the one being served, and the channel followed
by the blocked senders for the line.

`Marks` and `Listing` are two sides of the helper. `Marks` has the walks and what
the kernel intercepts, with one level of directories, enough for a walk that meets
each path once; there nobody opens anything. In `Listing` all folders are marked or
none, and each open has its own course: held, asked about, acknowledged or let go by
its deadline. A refresh is one step there; what it does to the folder is `Mirror`'s
kind `"refresh"`.

`Watch` follows directories by identity and the watcher by path, as inotify does; a path
leads to a directory if a chain of directories from the sync folder down carries its
names. Files have no names, a `Write` is any change of one, and a directory that was
removed is not made again: one of its name is another directory. `Session` takes a token for its
session and how often that session was rotated. `MoveRoot` has three folders, any of
which may be copied to, and takes of a pass what decides which files are missing: the look
at the folder, the scan after the pull, `findLocalDeletions`, the two guards, and the
requests that follow, each a step of its own. `Backup` lets the Drive be edited while
the walk runs.

How they compose. A pass (`Mirror`) is what lies between `Begin` and `PassSucceeds`
or `PassFails` in `Daemon`, what `Refreshed` stands for in `Listing`, and what
`PassBegins` to `PassEnds` are in `MoveRoot`; `Watch` ends where `Daemon`'s `wake` begins. Each
of them keeps of the other what its own properties tell apart, so that the hard
interleavings of one are not multiplied by those of the other; the one composition
that is checked step by step is `Daemon` with `Serving`.

## 3. Runs

| Run | Question | Answer |
|---|---|---|
| `MirrorTwo` | two names edited, renamed and deleted on both sides between passes: is work lost, does the baseline vouch for the unsafe, is a change skipped, does Drive lose what nobody removed? | no, four times |
| `MirrorConverge` | passes and held listings, killed at any step or with one request failing whose error is reported: is a remote change skipped? do repeated passes settle once edits and failures stop, Drive's events being late? | no; yes, unless the empty-root guard holds them back |
| `MirrorAnything` | any failure, the user at any step, renaming freely: are types and a pass's locals as the code takes them to be? | yes |
| `MirrorDownOnly` | does a pull alone keep the user's work? | no: section 5 |
| `DaemonFair` | is each request kept and answered, is every change synced though triggers are dropped, drained and skipped, and does the loop implement `Serving`? | yes |
| `Listing` | gate and daemon end and start again while listings are held: does the daemon wait for itself, does an answer release a listing that is not up to date, does every open return and every question end? | no, no, yes, yes |
| `MarksAnything` | two daemons, any mkdir, rmdir and rename: who walks, and which marks are left or lost? | the client only; those of renamed directories |
| `Watch` | two directories made, moved and removed while the watcher walks and its channel fills: where is it blind, and is a reported change lost? | where a watch was refused, a walk raced or a path was forgotten; only behind a channel full of listings |
| `Session` | the TUI and a daemon rotate one session's tokens, are killed, sign in and out: does a goroutine replay a token of its own, is the newest pair on disk, is the key passphrase kept? | no; yes; yes |
| `MoveRoot` | moves that fail, are quit or cut short at any step, chained, with daemons started meanwhile, whose passes run among the move's steps: is a file lost, does a rename ever reach Drive as a deletion? | no; only one that falls between a pass's `checkRoot` and the end of its second scan |
| `Backup` | backups interrupted and resumed over a Drive that changes: what does a clean verdict vouch for? | every listed file the user was not warned of |
| `ReconcileAll` | every combination of three sides | edits survive, the sides are equal, differences are acted on |

Bounds, and why they are enough.

- `Mirror`: two names (`MirrorTwo`, for renames and listings of several files) or
  one, with one or two names for conflict copies; two contents, three in
  `MirrorDownOnly`, so that base, local and remote differ. Link ids, inodes and
  copies are as many as a behaviour can use at once: an id nothing names any more is
  taken again, and with more of them TLC finds as many states. `MirrorTwo` treats
  names and link ids as symmetric: no action tells two names apart (`Copies` are not
  permuted), and an id is only ever compared for equality; that `NewLinks`' choice is
  a fixed one does not matter, since the states it leads to differ by a permutation of
  ids. `MirrorConverge`, which has a temporal property, has no symmetry. `MaxFeed` is
  one or two events unread: two let a batch hold a deletion and a creation, and a
  change come before and after the cursor; when the others have used up `MaxFeed`
  they wait for the passes to read on, and act again. `MaxFaults` is one failure.
  `MirrorAnything` has a single content, two names and every kind of pass: its
  properties are proved for all constants, and the run is the cheap check before the
  proof.
- `Daemon`: both channels hold one, so that each is full when the second comes, and
  two clients, so that a request waits behind another, in the channel or before it.
- `Listing`: one user, the daemon and the gate as openers, two folders (a joiner of
  another folder than the leader's), two opens numbered by one gate (an answer can
  come for the wrong one), two connections and two processes of the daemon (an
  answer can come for an earlier one). The gate starts again as often as it likes.
- `Marks`: two paths below the root, four inodes, two daemons: a directory is renamed
  over a removed one's path, and a daemon connects while another is torn down.
- `Watch`: two directories below the root (one in the other), three names of which
  one is ignored, a channel of one and a kernel queue of three events, so that both
  fill, and three steps of users, which is what a race of `addTree` with a creation
  and a move takes. The system may rest when nobody acts: `CHECK_DEADLOCK FALSE`.
- `Session`: two sessions (the one signed out of and the next), each rotated twice,
  the TUI and one other program. `Hurried = FALSE`: the user begins nothing else while a
  goroutine of the TUI runs; section 5 says what happens otherwise.
- `MoveRoot`: three folders, so that a failed move can be followed by one elsewhere,
  and two files, of which one can be copied, trashed or uploaded while the other is not;
  100 is the setting that turns the second guard off, as a confirmed pass leaves it, and
  it does not count so few deletions anyway.
- `Backup`: two files in two folders, two contents of one size, one of which carries
  no digest; a name that is refused.
- `Reconcile`: three hashes, as many as there are sides.

Deadlock is checked in every run but `Watch`.

Fairness. `Mirror`'s `FairSpec` is weak fairness of the pass's own steps and of
Drive's publishing (a request ends or times out, and events come), and strong
fairness of beginning an ordinary pass: listings refreshed in between take the
engine, again and again, but the poller rearms whatever happens. `Daemon`'s
`FairSpec` is weak fairness of `syncLoop`'s own steps, and strong
fairness of the two arms of its `select` and of a send on a full channel: Go picks
at random among the ready arms and queues senders in order. It says nothing of the
watcher's debounce, which every change restarts (`watcher.go:153-163`):
`ResumeCatchesUp`, which needs it, assumes that the user stops writing and that the
debounce then fires. `EverythingSynced` assumes the poller's fairness instead, and
holds however long the user writes. `Listing`'s `FairSpec` is weak fairness for each open (the
goroutine of `decide` goes on, or its timer fires), for the gate's walk, and for the
goroutine of each question; nothing is assumed of users, of Proton, or of either
program staying up. The other modules state safety only.

## 4. Proofs

The theorems hold for every value of the constants that the modules' `ASSUME`s
admit; TLC evaluates those on every run. Each invariant was checked by TLC before it
was proved.

- `MirrorProofs`: `TypeCorrect` (`[]TypeOK`) and `LocalsCorrect` (`[]Locals`), for
  every kind of pass, every failure and any user. `TypeOK` is not inductive: a
  step that reads `links[rows[p].id].live` is typed only if Drive once assigned
  that id. `Locals` says what each step's predecessors leave (`KnownLinks`,
  `CursorInFeed`, `ApplyLocals`, `PathLocals`, `PushLocals`); the two are inductive
  together.
- Also there, `WorkKept` (`[]NothingDiscarded`) and `BaselineTrustworthy`
  (`[]BaselineVouchesForSafe`) under `Precautions`, an explicit hypothesis: every
  pass scans before it pulls, the user does not act while a pass pulls nor between the
  scan for the push and the end of `detectMoves`, no file is both edited in place and
  renamed between two pushes, no pass stops or fails between the conflict copy and the
  commit. Everything else is allowed: any number of files, devices, contents, late
  events, requests failing, edits between any two later steps of a push. Each
  precaution is needed: section 5 says what happens without it.
- Beside them stand `OnlyRemovedIsTrashed` (`TrashesOnlyRemoved`) under
  `RemovalPrecautions`, with every kind of pass and free renames: the user idle during
  a pass, no crash and no failed rename.
- And `CursorTrustworthy` (`[]CursorMeansApplied`) under
  `CursorPrecautions`: every pass scans before it pulls, the user acts between passes and
  does not both edit and rename a file between two pushes, and what fails is a poll, a
  move or a trash, none of which the engine swallows before the cursor is saved.
- `DaemonProofs`: `RequestsKept` (`[]NoRequestForgotten`) and
  `LoopImplementsServing`: for any number of clients and any capacities of the two
  channels, the loop implements `Serving` under the refinement mapping of `Daemon`.
  Each step of the loop is shown to be a step of the counter or to leave it alone, on
  an invariant that says the clients in the channel, before it and in the loop's hands
  are distinct.
- `ListingProofs`: `NoSelfDeadlock` (`[]DaemonNeverWaits`) and `RefreshesAreSeen`
  (`[]AnswersAreFresh`), for any number of users, folders, opens, connections and
  restarts. Their invariant says that what the gate holds has numbers it has given (`Numbered`),
  that nothing was asked or answered on a connection before it was registered
  (`Connections`, `NewLinkUnused`), that a question of the registered connection is
  about the folder of the open that has its number (`Questions`), and that a client that
  is connected is the process that registered (`ClientIsKnown`). Neither property is
  inductive by itself: an answer is taken for an open by its number alone.
- `Marks`: `OneClient`, `OnlyRenamesAreLeft`, `MarksStayFound`.
- `BackupProofs`: `CopySound` (types, `NeverTruncated`, and that a run without
  `--resume` finds nothing but its own downloads), and from it `CleanIsTrue`
  (`VerdictHolds`) and `ManifestsAgree` (`SumsAgree`). The invariant follows a listed
  file through the run: it is still to be visited, refused with a warning, or has an
  entry, whose content the Drive held since the run began unless it was resumed onto;
  and during the verdict the two manifests are those entries.
- `MoveRootProofs`: `NothingLost` (`[]FilesSurvive`) from the invariant that what is
  left of the old folder is whole in the new one from `verify` on; and
  `RenameTheorem` (`[]RenamesAreSafe`), where all files are in one folder and every
  other is empty, so that the empty-root guard is what stands between a daemon
  started on the wrong one and the Drive; a pass that got past the guard looks at the
  folder with the files until it has scanned it, unless a rename takes that folder away
  (`undercut`, the hypothesis), and so finds nothing to trash.
- `Reconcile` (in `MirrorProofs`): the four properties of the run, for any set of hashes.
- `SessionProofs`: `TypesHold` (`[]TypeOK`), `NewestOnDiskHolds` (`[]NewestOnDisk`),
  `ReplaysNeedAnother` (`[]ReplayNeedsAnother`) and the action property `KeysKept`
  (`KeyKept`), for any number of sessions, programs and rotations. All but the first
  have `~Hurried` as an explicit hypothesis, as the run has: the user begins nothing else
  while a goroutine of the TUI runs. It is needed: section 5 says which properties fail
  without it.
- `WatchProofs`: `TypesHold` (`[]TypeOK`), `BlindSpotsKnown` (`[]KnownBlindSpots`) and
  `ChangesArrive` (`[]ChangesOnTheirWay`), for any directories, names, depth of the tree,
  rooms of the channel and of the kernel's queue, and number of steps. What is assumed of
  the constants is that places and names are distinct values, that the rooms are not
  zero, that there are finitely many directories and that some name is not ignored.

The argument of `WorkKept` (`MirrorInv!IInv`). The only steps that take a content
out of the folder for good are a download's `Commit` and the user's own; `TrashLocal`
keeps it in the trash, `Preserve` under another name. So it has to be shown that
what `Commit` replaces is *safe*, i.e. no work, or held elsewhere
(`ReplacedIsSafe`). Its step before, `Preserve`, leaves a file alone when it agrees with its row, or
with what was staged, or the scan did not see it. What was staged is in the vault
(`ServedIsKept`); what the scan did not see appeared by the engine's own hand
(`ScanIsCurrent`, where the precautions about the user and the scan come in); and what agrees with a
row is safe if `BaselineVouchesForSafe` holds, so that this must be an invariant.
A row is written by `Record` (of what was downloaded), by `Track` (of what was
uploaded, with the stamp of the scan: `UploadedIsSafe`, `PushScanIsCurrent`) and by `ReplaceRow`, which pairs
the stamp of the scan with a hash that `detectMoves` read after it (`PushScanIsCurrent` again: the
same bytes, by the precaution about that moment) or trusts an inode: hence
`UniqueInodes`, `MovedIsSafe` and `RenamedIsSafe`, a file that carries the inode of
another path's row is safe. That last one has an exception, between `Preserve` and
`Record`, when the conflict copy carries the inode of the row it was renamed away
from: `Record` ends it, which is why a crash there is excluded.
`MentionedIsWritten` makes what the user writes next new.

The argument of `OnlyRemovedIsTrashed` (`MirrorInv!RInv`). A push trashes the link of a
row whose file its scan did not find. The scan is the folder as it is (`PushSeesDisk`),
so the row must be one whose file the user took away (`GoneIsRemoved`). The engine takes
files away too: in a deletion between its two halves, and in a download between
`Preserve` and `Commit`. Those two exceptions end before the push, unless a pass
stops there; a crash or a failed rename would leave a row without a file, which the
next push takes for the user's deletion.

The argument of `CursorTrustworthy` (`MirrorInv!CInv`) follows every *quiet* link through the
pass: live, with no event later than the ones the pass answers for, and with a
revision Drive has held once (`twice` names the others). It is still to be listed, or among the
children to be applied, or being downloaded, or its row is there (`Listed`, `Kept`,
`Pulled`, `AtRest`). During the push its row may be stale, but then the revision is
the one on disk and the upload is still to come (`Pushed`). What has to be shown is
that no other file's step takes that row away: `DropRow`, `ReplaceRow`,
`Untrack` and `Track` touch rows chosen by inode and by hash, so a quiet
link's hash must belong to it alone (`HashesOwned`, `LinksOwned`) and a file that
carries a row's inode must have its hash (`RenamedIsExact`). An event batch deletes only links that are dead
(`GoneIsDead`, `DelsAreDead`), and a name is held by one live link (`UniqueNames`).

The argument of the session's theorems (`SessionProofs!IInv`). A pair in flight, from
Proton's answer to the file, is the newest of its session and nobody else has it
(`FlightAhead`): only a client that holds the newest token is granted another
(`Newest`), and single-flight refresh lets none of its goroutines ask meanwhile
(`Asked`). So a file that is behind is behind such a pair or one that was lost, which
is `NewestOnDisk`; and a client that is behind lost its own answer or another client
rotated the session (`Behind`), which is `ReplayNeedsAnother`. None of them is inductive
without the TUI's own state: a login writes the file, too, with a pair it read from
memory earlier, so this must still be the newest (`SavesNewest`), which holds because
no other program knows a session before its login is saved (`OwnSession`) and because
the form, the resume and the sign-out exclude each other (`OneAtATime`). The last
is what `~Hurried` buys. `KeyKept` rests on `KeyInFlight`: a pair on its way to the
file carries the passphrase that the file had when it was read, and no step adds one
to the file in between.

The argument of `ChangesArrive`. Every step that takes the last witness of a change
away puts the next one in its place: an event becomes a message, or a debt of the walk
that `handle` runs for it (`owed`), a message the timer, the timer the trigger; and a pass
sees everything there is. An event that finds the kernel's queue full leaves the
overflow's own event, and a message that finds the channel full meets a change or a
timer there, or `flooded` is set.

The argument of `BlindSpotsKnown` (`WatchProofs!BlindInv`) is that addTree is on its way
to whatever is not watched (`Sighted`): at or above a directory without a watch there is
one whose creation is queued at a watch, whose path is to be visited or is being visited,
or that is excused. A visited directory gets its watch or is excused (`refused`), and hands
its children on, as far as they were read; those that were not are either reported to a watch that was there
before (`ReadBehind`) or raced. The hard steps are the moves: they change what every
path beneath leads to, and it must be shown that a directory whose path changed lies
beneath the one that moved, whose move is queued at the watch above it, or that the one above it is
lost. Two invariants of the tree stand beside these, that no directory holds
two of one name (`NoTwins`, so a path leads to one directory) and that a directory which is
gone holds nothing (`Placed`). `Above` is the least set closed upwards and `At` a
chain from the root, so that what is needed of them (`Above` of a directory is itself and
`Above` of its parent; a step away from a directory changes neither) follows without recursion.
Where a chain must be searched, `Least` gives its first position with a property:
induction over data is out of reach, and the well-foundedness of `<` on the naturals,
which needs no operator as a parameter, takes its place.

Every safety property and action property of the passing runs is stated by a theorem.
Only model-checked is everything temporal with fairness (`Converges`, `RequestsAnswered`,
`EverythingSynced`, `ResumeCatchesUp`, `OpensReturn`, `QuestionsEnd`), which is out of the
prover's reach.

## 5. What the code does, though a document reads otherwise

One run shows a disagreement and is an entry of `findings` in `PROJECT.json`:

- `MirrorDownOnly` (code bug). `Sync` and `FullMirror` on their own never fill
  `localBefore`, so `preserveLocalIfConflicting` sees no local file and a file
  edited here is replaced by the download, without a copy (`conflict.go:25`:
  "Nothing is ever discarded.").

The others were met while modelling. Where a definition or a constant shows one, it
says which; the rest are read from the code.

The engine (`internal/mirror`):

- The conflict decision rests on the scan made before the pull (`conflict.go:27`): a file edited
  after it and before `commitStaged` is replaced without a copy.
  `UserSteps <- AnyTime` in `MirrorTwo` shows it; `Precautions` keeps the user idle
  during a pull for this reason.
- A listing of an event batch that fails is a warning (`mirror.go:335`) and the
  cursor is saved past the change, which is applied only when the file changes again or a full
  pass runs (`docs/PROJECT_SPEC.md:461`). `Faults = {"list"}` in `MirrorTwo` shows it, with
  `MaxFaults = 1`.
- A walk compares digests only (`mirror.go:449`), so a row can keep the id of a dead link:
  another device trashes a file and uploads the same content anew, or a file renamed
  differently on both sides becomes two links with one content and the other device
  puts one in the place of the other. When the new link is trashed later,
  `deleteByNodeID` finds no row and the file stays here for good
  (`docs/PROJECT_SPEC.md:684`: "two machines converge"). `Repeats = TRUE` in
  `MirrorConverge` shows the first. `CursorMeansApplied` excepts contents that more than one
  link has held.
- A pass killed between `Commit` and `Record`, and the next one killed (or its
  upload failing) before the push has tracked the file again: the row keeps the old
  hash and link id while the folder holds the new revision, and if the user deletes the file
  then, the push trashes the old link and the file stays in Drive, unseen here. One failure is
  repaired by the next push, which is why `MaxFaults` is 1 where `CursorMeansApplied`
  and `Converges` are checked.
- A file edited in place and then renamed between two passes is matched by inode
  alone, and `applyMove` stores its new size and time with the *old* hash
  (`push.go:377`): later scans trust it, the edit is not uploaded, and the next
  remote edit replaces it. `FreeRenames = FALSE` excludes this.
- `detectMoves` hashes a candidate as it is by then (`push.go:332`), and `applyMove` and
  `pushNode` store that hash beside the size, time and inode of the earlier scan
  (`push.go:374`). A renamed file that is compared with another missing row first, and is
  edited between the two, gets a row with the hash of the edit: the next passes take it
  for pushed, it is never uploaded, and a later revision of another device replaces it
  without a copy. `UserSteps = {"idle", "baseline"}` with three names and three contents
  shows it as a violation of `BaselineVouchesForSafe`: two files pushed, one deleted and
  the other renamed, then edited during the push. `Precautions` keeps the user idle there.
- A crash (or a failed rename) between keeping the conflict copy (`conflict.go:62`) and committing the
  download leaves a row whose inode is the copy's; the next push takes the copy for
  a rename and records the old hash for it. This is why `Precautions` excludes
  `"crash"` and `"rename"`, and why `TrashesOnlyRemoved` is checked without them.
- An upload makes a new revision over whatever the name holds by then
  (`push.go:201`): the last writer wins, though `docs/PROJECT_SPEC.md:430` says
  "No last-writer-wins." The older revision stays in Drive's history, so
  `NothingDiscarded` holds.
- A deletion on another device takes a locally edited, unpushed file out of the
  folder (`mirror.go:667`), into the local trash.
- `ConfirmDeletions` writes 100 into the configuration the daemon shares
  (`mirror.go:135`), so one confirmed pass turns the deletion guard off until the daemon
  restarts or its settings are saved.
- `Reconcile` trashes a directory that replaced a tracked file if the other side
  deleted the path (`reconcile.go:163`): `DeletionNeverBeatsAnEditedFile` is about files.

The daemon and the gate:

- `finishSync` sets the state to idle or error whatever it has become, so a pause that
  arrives during a pass (`internal/daemon/daemon.go:359`) is undone when it ends
  (`daemon.go:478`). `PauseHolds` as a PROPERTY of `DaemonFair` shows it.
- `refreshForListing` runs a pass beside `syncLoop`'s (`internal/daemon/gate.go:191`), though
  `daemon.go:76` says passes are serialised. Not modelled: `Mirror` runs one at a time.
- A directory removed and made again under its name is found in the gate's map and never
  marked (`internal/gate/fanotify.go:52`). `EverythingIsMarked` as an INVARIANT of
  `MarksAnything` shows it. The kernel mark of a renamed directory stays after
  `UnmarkAll` (`fanotify.go:94`); `LeftoversWereRenamed` says these are the only ones.
- A listing of another directory joins the refresh that runs (`internal/daemon/gate.go:147-156`)
  and is released when that ends, though its own directory was not refreshed; and a refresh
  that is joined may have listed its directory before the joiner opened it. An untracked directory is no
  error and no refresh, and still sets `lastPoll`, as do failed passes and
  refreshes of other directories (`daemon.go:339-341`, `457-461`), so that the next listing within the
  interval is answered at once. `AnswersAreFresh` is therefore about the leader.
- A rescan walks directories that are marked on the goroutine that reads the answers
  (`internal/gate/server.go:183`): each of its own opens waits its whole deadline. Opens held for
  a daemon that has gone wait for theirs too.

The watcher (`internal/daemon/watcher.go`):

- `filepath.Walk` reads a directory's names before `addOne` watches it, so what is made in
  between goes unseen, though 232-233 says the walk is there to pick it up; a directory that
  is moved is recorded by `MOVED_TO` and forgotten by the `MOVE_SELF` after it (221), and what is
  made in it later has no path. A watch the kernel refuses (there is a limit per user) is a
  debug line (92-97) and a directory that cannot be read is skipped with all beneath it (78-80);
  neither is tried again until something about it is reported. `KnownBlindSpots` says there is no
  fourth way while the kernel's queue does not overflow, which loses watches as well.
- "Dropping is harmless" (242) is false when the channel is full of listings:
  `onListing` is limited to one a second, so the change may start no timer. The exception
  `flooded` of `ChangesOnTheirWay` is this case.
- A pass's own scan opens every directory, which are listing hints: a pass that takes more
  than a second provokes the next one (`watcher.go:142-148` with `daemon.go:401-405`). The rename that ends a
  download provokes one too, though 226-227 says otherwise, and a file that is written
  without a pause postpones the debounce for as long (153-163).

The session:

- A refused refresh in any program deletes the session file, whichever session it
  holds by then (`internal/drive/drive.go:76`): `DeletesOnlyDead` as a PROPERTY of `Session` shows
  a fresh login deleted. `SignedInIsUsable` shows the TUI resuming a session without
  its key passphrase, with which `pdrived` does not start.
- The logout's goroutine (`internal/tui/app.go:657`) revokes and wipes whatever session the client
  has by then, and a login that ends while the TUI resumes is dropped
  (`app.go:457`). `Hurried = TRUE` in `Session` makes `NewestOnDisk` and `ReplayNeedsAnother` fail.
  Two `Save`s at once share one temporary path (`internal/api/session.go:62`).

Moving the folder, the backup:

- `checkRoot` (`push.go:26`) and the scan whose result it protects (`push.go:54`) lie on either side
  of the pull. `moveSyncRoot` stops the daemon because "a tree that vanishes under it looks exactly
  like the user deleting everything" (`app.go:274-276`), but one that is started during the move
  (from the status screen, by a login, by systemd) can be past the check when `os.Rename` takes the
  folder; the scan takes a missing root for an empty one (`scan.go:83-91`), and everything is
  trashed in Drive if it is fewer than ten files or the guard is at 100. `RootGuarded` as an
  INVARIANT of `MoveRoot` shows it, in nine states; `RenamesAreSafe` says that this is the only way.
- `ConfirmRoot` puts the new folder into the shared configuration before anything has moved
  (`internal/tui/settings.go:213`): settings saved after a copy failed name a folder that holds half
  the files, and the next daemon trashes the other half in Drive, though 350-351 says "nothing
  in Proton Drive changes". `DriveUnchanged` as an INVARIANT of `MoveRoot` shows it.
  Two moves can run at once (`app.go:530`); what the user writes into the old folder after
  `verifyTree` is removed with it (`internal/config/migrate.go:51`); and when the move's five minutes are over the
  daemon does not come back (`app.go:281`).
- A file whose download failed has no entry, so `Verify` cannot report the gap that
  `internal/backup/backup.go:174` says it will; the warning is all there is. `GapsAreReported` as a PROPERTY of
  `Backup` shows it.

The terminal interface: two status messages before the first `subscribedMsg` make two
subscriptions, of which one leaks; a dropped `sync-finished` leaves "syncing" on the
screen. Presentation is not modelled.

## 6. Not modelled

- Of the engine: subdirectories, stubs and the size cap, ignored and unreadable
  directories, `Materialize`: it is modelled over one flat folder of materialized
  files. The deletion cliff of ten files is in `MoveRoot` only, with its limits as constants. Edits that keep
  size and modification second (`scan.go:185-188` accepts the miss). `conflicts` and
  `activity`, which no decision reads. A refresh inside a running pass: the two share
  the database, the folder and `localBefore` at every step, which squares the states of the
  largest model here.
- Key handling, SRP, thumbnails, transport, retries of the API client and metrics: no state
  that is shared or survives, or cryptography.
- IPC framing and event streams, status getters and transfer progress of the daemon,
  `authorizeRoot` of the gate: data, or one check of a file system's owner.
- The presentation of the terminal interface, flag parsing and output of the commands, the bundled bridge,
  the development tools.
