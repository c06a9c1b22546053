------------------------------ MODULE Session ------------------------------
(***************************************************************************)
(* Who holds which token pair: the encrypted session file                  *)
(* (api/session.go), the TUI's client with its resume, login and logout    *)
(* (api/client.go, api/auth.go, tui/login.go, tui/app.go), the processes   *)
(* that open the Drive with the same file (pdrived, pdrive backup), and    *)
(* Proton, which accepts each refresh token once.                          *)
(*                                                                         *)
(* A token pair is its session and how often that session was rotated.     *)
(* Any request of a client may be answered 401 (access tokens expire), and *)
(* a client then refreshes; refreshMu and the bridge's authLock let one    *)
(* refresh of a client run at a time, and the ten seconds after which      *)
(* another may follow are any time at all here.                            *)
(***************************************************************************)
EXTENDS Integers, FiniteSets

CONSTANTS
    Sids,     \* sessions that Proton may open
    TUI,      \* the pdrive program
    Bridges,  \* pdrived, and pdrive backup or sync
    None,
    MaxGen,   \* bound: rotations of a session
    Hurried   \* is anything else begun while a goroutine of the TUI runs?

ASSUME ClientsAssumption == TUI \notin Bridges
ASSUME GenAssumption == MaxGen \in Nat

Clients == {TUI} \cup Bridges
Callers == {"resume", "login", "logout", "bridge"}
Token   == [sid : Sids, gen : 0 .. MaxGen]
Pair    == [uid : Sids, tok : Token]
Stored  == [uid : Sids, tok : Token, key : BOOLEAN]

(* A refresh whose answer is a refusal, or a new pair on its way to        *)
(* memory, or from there to the file; the login commands.                  *)
Refreshes ==
    [at : {"refused"}, who : Callers]
    \cup [at : {"granted"}, who : Callers, uid : Sids, tok : Token]
    \cup [at : {"loaded"}, who : Callers, uid : Sids, tok : Token, key : BOOLEAN]
Jobs ==
    [at : {"srp", "code", "finish", "verify"}]
    \cup [at : {"save"}, key : BOOLEAN, pair : Pair]

ASSUME NoneAssumption == None \notin Stored \cup Pair \cup Refreshes \cup Jobs

VARIABLES
    account,   \* does the account ask for a code, for a second password?
    born,      \* sessions Proton has opened
    live,      \* and not revoked
    gen,       \* session -> rotations so far
    file,      \* the session file
    mem,       \* client -> the pair it holds, or None
    refresh,   \* client -> its refreshTokens or authRefresh, or None
    deauthed,  \* bridges whose deauthOnce is spent
    screen,    \* of the TUI: "closed", "resuming", "login", "main"
    step,      \* of the login form: "form", "2fa", "mailbox", "working"
    job,       \* the login command that runs, or None
    logout,    \* the goroutine of "l": "none", "asking", "wiping"
    spoilt,    \* sessions with a new pair lost on its way to the file
    rotators,  \* session -> clients that have rotated it
    replays    \* spent tokens presented, and by which client

proton == <<born, live, gen>>
tui    == <<screen, step, job, logout>>
seen   == <<spoilt, rotators, replays>>
vars   == <<account, proton, file, mem, refresh, deauthed, tui, seen>>

TypeOK ==
    /\ account \in [twofa : BOOLEAN, mailbox : BOOLEAN]
    /\ live \subseteq born /\ born \subseteq Sids
    /\ gen \in [Sids -> 0 .. MaxGen]
    /\ file \in Stored \cup {None}
    /\ mem \in [Clients -> Pair \cup {None}]
    /\ refresh \in [Clients -> Refreshes \cup {None}]
    /\ deauthed \subseteq Bridges
    /\ screen \in {"closed", "resuming", "login", "main"}
    /\ step \in {"form", "2fa", "mailbox", "working"}
    /\ job \in Jobs \cup {None}
    /\ logout \in {"none", "asking", "wiping"}
    /\ spoilt \subseteq Sids
    /\ rotators \in [Sids -> SUBSET Clients]
    /\ replays \subseteq Clients \X Sids

Init ==
    /\ account \in [twofa : BOOLEAN, mailbox : BOOLEAN]
    /\ born = {} /\ live = {}
    /\ gen = [s \in Sids |-> 0]
    /\ file = None
    /\ mem = [c \in Clients |-> None]
    /\ refresh = [c \in Clients |-> None]
    /\ deauthed = {}
    /\ screen = "closed" /\ step = "form" /\ job = None /\ logout = "none"
    /\ spoilt = {} /\ rotators = [s \in Sids |-> {}] /\ replays = {}

-----------------------------------------------------------------------------
(* Requests and refreshes.                                                 *)

Newest(tok) == tok.sid \in live /\ tok.gen = gen[tok.sid]

Accepted(c) ==
    mem[c] # None /\ mem[c].uid = mem[c].tok.sid /\ Newest(mem[c].tok)

(* Which of a client's requests can have been answered 401, and whether    *)
(* the TUI's call is itself held up in refreshTokens.                      *)
Asking(c, who) ==
    \/ who = "bridge" /\ c \in Bridges
    \/ who = "resume" /\ c = TUI /\ screen = "resuming"
    \/ who = "login"  /\ c = TUI /\ job # None /\ job.at \in {"code", "verify"}
    \/ who = "logout" /\ c = TUI /\ logout = "asking"

Waits(who) == refresh[TUI] # None /\ refresh[TUI].who = who

(* The lost refreshes of a client that ends, or whose answer goes astray.  *)
LostBy(c) ==
    IF refresh[c] # None /\ refresh[c].at # "refused"
    THEN {refresh[c].tok.sid} ELSE {}

(* POST /auth/v4/refresh: Proton gives out the next pair and forgets the   *)
(* last one, or refuses with 10013.                                        *)
Refresh(c, who) ==
    /\ refresh[c] = None
    /\ mem[c] # None
    /\ Asking(c, who)
    /\ LET t == mem[c].tok
       IN  IF Accepted(c)
           THEN /\ t.gen < MaxGen
                /\ gen' = [gen EXCEPT ![t.sid] = @ + 1]
                /\ refresh' = [refresh EXCEPT ![c] =
                     [at |-> "granted", who |-> who, uid |-> mem[c].uid,
                      tok |-> [t EXCEPT !.gen = @ + 1]]]
                /\ rotators' = [rotators EXCEPT ![t.sid] = @ \cup {c}]
                /\ UNCHANGED replays
           ELSE /\ refresh' = [refresh EXCEPT ![c] =
                     [at |-> "refused", who |-> who]]
                /\ replays' = IF t.gen < gen[t.sid]
                              THEN replays \cup {<<c, t.sid>>} ELSE replays
                /\ UNCHANGED <<gen, rotators>>
    /\ UNCHANGED <<account, born, live, file, mem, deauthed, tui, spoilt>>

(* The answer does not arrive.                                             *)
Lose(c) ==
    /\ refresh[c] # None /\ refresh[c].at = "granted"
    /\ spoilt' = spoilt \cup LostBy(c)
    /\ refresh' = [refresh EXCEPT ![c] = None]
    /\ UNCHANGED <<account, proton, file, mem, deauthed, tui, rotators, replays>>

(* Mutant: the new pair is handed on, and the old one stays in use.        *)
ReceiveOnlySaves(c) ==
    /\ refresh[c] # None /\ refresh[c].at = "granted"
    /\ refresh' = [refresh EXCEPT ![c] =
         [at |-> "loaded", who |-> @.who, uid |-> @.uid, tok |-> @.tok,
          key |-> file # None /\ file.key]]
    /\ UNCHANGED <<account, proton, file, mem, deauthed, tui, seen>>

(* The pair goes into memory; OnTokenRefresh, or UpdateTokens, reads what  *)
(* the file holds.                                                         *)
Receive(c) ==
    /\ refresh[c] # None /\ refresh[c].at = "granted"
    /\ mem' = [mem EXCEPT ![c] =
         [uid |-> IF @ = None THEN refresh[c].uid ELSE @.uid,
          tok |-> refresh[c].tok]]
    /\ refresh' = [refresh EXCEPT ![c] =
         [at |-> "loaded", who |-> @.who, uid |-> @.uid, tok |-> @.tok,
          key |-> file # None /\ file.key]]
    /\ UNCHANGED <<account, proton, file, deauthed, tui, seen>>

(* Mutant: the file gets the pair and nothing of what it held.             *)
StoreAfresh(c) ==
    /\ refresh[c] # None /\ refresh[c].at = "loaded"
    /\ file' = [uid |-> refresh[c].uid, tok |-> refresh[c].tok, key |-> FALSE]
    /\ refresh' = [refresh EXCEPT ![c] = None]
    /\ UNCHANGED <<account, proton, mem, deauthed, tui, seen>>

(* Mutant: a handler that does nothing with the pair.                      *)
StoreNothing(c) ==
    /\ refresh[c] # None /\ refresh[c].at = "loaded"
    /\ refresh' = [refresh EXCEPT ![c] = None]
    /\ UNCHANGED <<account, proton, file, mem, deauthed, tui, seen>>

(* ... and writes the pair, with the key passphrase that was there.  A     *)
(* file that was missing is made.                                          *)
Store(c) ==
    /\ refresh[c] # None /\ refresh[c].at = "loaded"
    /\ file' = [uid |-> refresh[c].uid, tok |-> refresh[c].tok,
                key |-> refresh[c].key]
    /\ refresh' = [refresh EXCEPT ![c] = None]
    /\ UNCHANGED <<account, proton, mem, deauthed, tui, seen>>

(* Save fails; the callbacks log it or ignore it.                          *)
StoreFails(c) ==
    /\ refresh[c] # None /\ refresh[c].at = "loaded"
    /\ spoilt' = spoilt \cup LostBy(c)
    /\ refresh' = [refresh EXCEPT ![c] = None]
    /\ UNCHANGED <<account, proton, file, mem, deauthed, tui, rotators, replays>>

-----------------------------------------------------------------------------
(* pdrived, pdrive backup, pdrive sync.                                    *)

(* loadSession, New: without the key passphrase they do not start.         *)
Start(b) ==
    /\ mem[b] = None
    /\ job = None \/ Hurried
    /\ file # None /\ file.key
    /\ mem' = [mem EXCEPT ![b] = [uid |-> file.uid, tok |-> file.tok]]
    /\ deauthed' = deauthed \ {b}
    /\ UNCHANGED <<account, proton, file, refresh, tui, seen>>

Stop(b) ==
    /\ mem[b] # None
    /\ mem' = [mem EXCEPT ![b] = None]
    /\ refresh' = [refresh EXCEPT ![b] = None]
    /\ spoilt' = spoilt \cup LostBy(b)
    /\ UNCHANGED <<account, proton, file, deauthed, tui, rotators, replays>>

(* OnDeauth, once in a process: the session file goes.                     *)
Deauth(b) ==
    /\ b \in Bridges
    /\ refresh[b] # None /\ refresh[b].at = "refused"
    /\ refresh' = [refresh EXCEPT ![b] = None]
    /\ deauthed' = deauthed \cup {b}
    /\ file' = IF b \in deauthed THEN file ELSE None
    /\ UNCHANGED <<account, proton, mem, tui, seen>>

-----------------------------------------------------------------------------
(* The TUI: opening it, and the session it finds.                          *)

Open ==
    /\ screen = "closed"
    /\ mem' = [mem EXCEPT ![TUI] =
         IF file = None THEN None ELSE [uid |-> file.uid, tok |-> file.tok]]
    /\ screen' = IF file = None THEN "login" ELSE "resuming"
    /\ step' = "form"
    /\ UNCHANGED <<account, proton, file, refresh, deauthed, job, logout, seen>>

(* "q", ctrl+c or a kill; whatever goroutine runs goes with it.            *)
Quit ==
    /\ screen # "closed"
    /\ screen' = "closed" /\ step' = "form" /\ job' = None /\ logout' = "none"
    /\ mem' = [mem EXCEPT ![TUI] = None]
    /\ refresh' = [refresh EXCEPT ![TUI] = None]
    /\ spoilt' = spoilt \cup LostBy(TUI)
    /\ UNCHANGED <<account, proton, file, deauthed, rotators, replays>>

(* resumeDoneMsg.                                                          *)
Resumed ==
    /\ screen = "resuming" /\ ~Waits("resume")
    /\ Accepted(TUI)
    /\ screen' = "main"
    /\ UNCHANGED <<account, proton, file, mem, refresh, deauthed, step, job,
                   logout, seen>>

(* resumeFailedMsg, of any failure but a refusal: the file stays.          *)
ResumeFails ==
    /\ screen = "resuming" /\ ~Waits("resume")
    /\ screen' = "login"
    /\ UNCHANGED <<account, proton, file, mem, refresh, deauthed, step, job,
                   logout, seen>>

-----------------------------------------------------------------------------
(* Signing in.                                                             *)

(* The form takes keys while the screen still says "Signing in...".        *)
Submit ==
    /\ step = "form" /\ job = None
    /\ screen = "login" \/ (screen = "resuming" /\ Hurried)
    /\ logout = "none" \/ Hurried
    /\ step' = "working" /\ job' = [at |-> "srp"]
    /\ UNCHANGED <<account, proton, file, mem, refresh, deauthed, screen,
                   logout, seen>>

(* Login: Proton opens a session, and the client is switched to it.        *)
Login(s) ==
    /\ job # None /\ job.at = "srp"
    /\ s \notin born
    /\ born' = born \cup {s} /\ live' = live \cup {s}
    /\ mem' = [mem EXCEPT ![TUI] =
         [uid |-> s, tok |-> [sid |-> s, gen |-> 0]]]
    /\ IF account.twofa
       THEN /\ job' = None
            /\ step' = IF screen = "resuming" THEN step ELSE "2fa"
       ELSE job' = [at |-> "finish"] /\ UNCHANGED step
    /\ UNCHANGED <<account, gen, file, refresh, deauthed, screen, logout, seen>>

SubmitCode ==
    /\ step = "2fa" /\ job = None
    /\ step' = "working" /\ job' = [at |-> "code"]
    /\ UNCHANGED <<account, proton, file, mem, refresh, deauthed, screen,
                   logout, seen>>

CodeAccepted ==
    /\ job # None /\ job.at = "code" /\ ~Waits("login")
    /\ Accepted(TUI)
    /\ job' = [at |-> "finish"]
    /\ UNCHANGED <<account, proton, file, mem, refresh, deauthed, screen, step,
                   logout, seen>>

(* finishLogin: with a second password the pair is saved without a key.    *)
FinishLogin ==
    /\ job # None /\ job.at = "finish"
    /\ job' = IF account.mailbox /\ mem[TUI] # None
              THEN [at |-> "save", key |-> FALSE, pair |-> mem[TUI]]
              ELSE [at |-> "verify"]
    /\ UNCHANGED <<account, proton, file, mem, refresh, deauthed, screen, step,
                   logout, seen>>

SubmitMailbox ==
    /\ step = "mailbox" /\ job = None
    /\ step' = "working" /\ job' = [at |-> "verify"]
    /\ UNCHANGED <<account, proton, file, mem, refresh, deauthed, screen,
                   logout, seen>>

(* finishVerify: the keys unlock; GetSession takes the pair of the moment. *)
Verified ==
    /\ job # None /\ job.at = "verify" /\ ~Waits("login")
    /\ Accepted(TUI)
    /\ job' = [at |-> "save", key |-> TRUE, pair |-> mem[TUI]]
    /\ UNCHANGED <<account, proton, file, mem, refresh, deauthed, screen, step,
                   logout, seen>>

(* The message of a command that ends while the TUI resumes is dropped,    *)
(* except the last, LoginSuccessMsg, which is only sent if it was not.     *)
SaveLogin ==
    /\ job # None /\ job.at = "save"
    /\ file' = [uid |-> job.pair.uid, tok |-> job.pair.tok, key |-> job.key]
    /\ job' = None
    /\ IF screen = "resuming" THEN UNCHANGED <<screen, step>>
       ELSE IF job.key THEN screen' = "main" /\ UNCHANGED step
       ELSE step' = "mailbox" /\ UNCHANGED screen
    /\ UNCHANGED <<account, proton, mem, refresh, deauthed, logout, seen>>

(* loginErrMsg: back to the password, whichever step it was.               *)
LoginFails ==
    /\ job # None /\ ~Waits("login")
    /\ job' = None
    /\ step' = IF screen = "resuming" THEN step ELSE "form"
    /\ UNCHANGED <<account, proton, file, mem, refresh, deauthed, screen,
                   logout, seen>>

-----------------------------------------------------------------------------
(* Signing out.                                                            *)

(* "l": the file goes at once, the request on a goroutine of its own.      *)
SignOut ==
    /\ screen = "main" /\ logout = "none"
    /\ file' = None
    /\ screen' = "login" /\ step' = "form"
    /\ logout' = "asking"
    /\ UNCHANGED <<account, proton, mem, refresh, deauthed, job, seen>>

(* DELETE /auth/v4 with whatever session the client has by then.           *)
Revoke ==
    /\ logout = "asking" /\ ~Waits("logout")
    /\ Accepted(TUI)
    /\ live' = live \ {mem[TUI].uid}
    /\ logout' = "wiping"
    /\ UNCHANGED <<account, born, gen, file, mem, refresh, deauthed, screen,
                   step, job, seen>>

RevokeFails ==
    /\ logout = "asking" /\ ~Waits("logout")
    /\ logout' = "wiping"
    /\ UNCHANGED <<account, proton, file, mem, refresh, deauthed, screen, step,
                   job, seen>>

(* SetSession("", "", ""), whether or not the request worked.              *)
Wipe ==
    /\ logout = "wiping"
    /\ mem' = [mem EXCEPT ![TUI] = None]
    /\ logout' = "none"
    /\ UNCHANGED <<account, proton, file, refresh, deauthed, screen, step, job,
                   seen>>

(* A refusal reaches the call that asked: only resume deletes the file.    *)
Refused ==
    /\ refresh[TUI] # None /\ refresh[TUI].at = "refused"
    /\ refresh' = [refresh EXCEPT ![TUI] = None]
    /\ \/ /\ refresh[TUI].who = "resume"
          /\ file' = None
          /\ screen' = "login"
          /\ UNCHANGED <<step, job, logout>>
       \/ /\ refresh[TUI].who = "login"
          /\ job' = None
          /\ step' = IF screen = "resuming" THEN step ELSE "form"
          /\ UNCHANGED <<file, screen, logout>>
       \/ /\ refresh[TUI].who = "logout"
          /\ logout' = "wiping"
          /\ UNCHANGED <<file, screen, step, job>>
    /\ UNCHANGED <<account, proton, mem, deauthed, seen>>

-----------------------------------------------------------------------------
RefreshStep(c) ==
    \/ \E who \in Callers : Refresh(c, who)
    \/ Lose(c) \/ Receive(c) \/ Store(c) \/ StoreFails(c)

LoginStep ==
    \/ Submit \/ SubmitCode \/ SubmitMailbox
    \/ \E s \in Sids : Login(s)
    \/ CodeAccepted \/ FinishLogin \/ Verified \/ SaveLogin \/ LoginFails

LogoutStep == SignOut \/ Revoke \/ RevokeFails \/ Wipe

Next ==
    \/ \E c \in Clients : RefreshStep(c)
    \/ \E b \in Bridges : Start(b) \/ Stop(b) \/ Deauth(b)
    \/ Open \/ Quit \/ Resumed \/ ResumeFails
    \/ LoginStep \/ LogoutStep \/ Refused

Spec == Init /\ [][Next]_vars

-----------------------------------------------------------------------------
(* "Two concurrent refreshes race and the loser replays an already-spent   *)
(* token" (client.go:51-53): the goroutines of one client never do that to *)
(* each other.  A spent token is presented only of a session that another  *)
(* client has rotated, or whose new pair was lost on the way.              *)
ReplayNeedsAnother ==
    \A r \in replays : r[2] \in spoilt \/ rotators[r[2]] \ {r[1]} # {}

(* "Skipping it leaves a spent token on disk, the running process keeps    *)
(* working from memory, and the next start fails" (session.go:159-163):    *)
(* the pair in the file is the newest of its session, whoever rotated it,  *)
(* unless a new one is on its way there or was lost.                       *)
NewestOnDisk ==
    file # None =>
        \/ file.tok.gen = gen[file.tok.sid]
        \/ file.tok.sid \in spoilt \cup UNION {LostBy(c) : c \in Clients}

(* "Preserving the login email and key passphrase" (session.go:157): no    *)
(* rotation, in whatever process, takes the key passphrase from a session  *)
(* that had it.                                                            *)
KeyKept ==
    [][UNCHANGED job /\ file # None /\ file' # None /\ file.uid = file'.uid
        => (file.key => file'.key)]_vars

(* Two promises that the code does not keep (README, section 5).           *)

(* OnDeauth: "The stored session is dead" (drive.go:76).  When a refusal   *)
(* removes the session file, the file holds a session Proton refuses.      *)
DeletesOnlyDead ==
    [][file # None /\ file' = None => SignOut \/ ~Newest(file.tok)]_vars

(* What the status screen takes for granted after resumeDoneMsg: the file  *)
(* has the key passphrase without which pdrived does not start.            *)
SignedInIsUsable ==
    [][screen = "resuming" /\ screen' = "main" /\ file # None => file.key]_vars
=============================================================================
