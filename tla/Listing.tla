------------------------------ MODULE Listing ------------------------------
(***************************************************************************)
(* Held directory listings: the kernel holds an open of a marked folder,   *)
(* pdrive-gate (gate/server.go) decides on a goroutine of its own, asks    *)
(* the daemon it has registered, and lets the open go when the answer or   *)
(* the deadline comes; the daemon (daemon/gate.go) answers when it has     *)
(* refreshed the folder, or at once when it need not or may not ask        *)
(* Proton.  Both programs end and start again at any time, and an open may *)
(* be a user's, the daemon's own (its scans) or the gate's own (a rescan   *)
(* walks folders that are marked already).                                 *)
(*                                                                         *)
(* Of what a folder holds, only whether Drive has changed it since it was  *)
(* last brought up to date; a user's open is due what Drive had when it    *)
(* began.                                                                  *)
(***************************************************************************)
EXTENDS Integers, FiniteSets

CONSTANTS
    Users,     \* processes that list folders
    Daemon,    \* pdrived as one that opens folders
    Gate,      \* pdrive-gate as one
    Dirs,      \* the folders
    None,
    MaxId,     \* bound: opens a gate process hands out numbers for
    MaxConn,   \* bound: connections the daemon makes
    MaxPid     \* bound: processes pdrived runs as

ASSUME OpenersAssumption ==
    Daemon # Gate /\ Daemon \notin Users /\ Gate \notin Users
ASSUME BoundsAssumption == {MaxId, MaxConn, MaxPid} \subseteq Nat

Openers == Users \cup {Daemon, Gate}

VARIABLES
    opener,    \* who -> the open the kernel holds for it, or None
    marked,    \* are the folders marked?
    client,    \* the connection that is registered, 0 for none
    clientPid, \* and the process that registered
    reader,    \* handleClient: "none", "marking", "reading" or "walking"
    todo,      \* folders that a rescan has not opened yet
    nextID,    \* opens this gate process has numbered
    pid,       \* the daemon's process
    link,      \* its connection to the gate, 0 for none
    conns,     \* connections it has made
    acks,      \* "ack" messages on their way
    jobs,      \* questions sent to the daemon and not answered yet
    running,   \* listingRun: the connection and number of the job that runs
    behind     \* folders that Drive has changed since

gate   == <<opener, marked, client, clientPid, reader, todo, nextID>>
wire   == <<link, conns, acks>>
daemon == <<pid, jobs, running>>
vars   == <<gate, wire, daemon, behind>>

Open == [dir : Dirs, due : BOOLEAN, id : 0 .. MaxId]
Ack  == [conn : 1 .. MaxConn, id : 1 .. MaxId,
         done : BOOLEAN]      \* was the folder itself refreshed?
Key  == (1 .. MaxConn) \X (1 .. MaxId)
Job  == [conn : 1 .. MaxConn, id : 1 .. MaxId, dir : Dirs,
         at : {"asked", "run", "join"}, wait : Key \cup {None}]

TypeOK ==
    /\ opener \in [Openers -> Open \cup {None}]
    /\ marked \in BOOLEAN
    /\ client \in 0 .. MaxConn /\ clientPid \in 0 .. MaxPid
    /\ reader \in {"none", "marking", "reading", "walking"}
    /\ todo \subseteq Dirs
    /\ nextID \in 0 .. MaxId
    /\ pid \in 0 .. MaxPid
    /\ link \in 0 .. MaxConn /\ conns \in 0 .. MaxConn
    /\ acks \subseteq Ack
    /\ jobs \subseteq Job
    /\ running \in Key \cup {None}
    /\ behind \subseteq Dirs

Init ==
    /\ opener = [p \in Openers |-> None]
    /\ marked = FALSE /\ client = 0 /\ clientPid = 0
    /\ reader = "none" /\ todo = {} /\ nextID = 0
    /\ pid = 0 /\ link = 0 /\ conns = 0
    /\ acks = {}
    /\ jobs = {} /\ running = None
    /\ behind = {}

-----------------------------------------------------------------------------
(* The kernel.                                                             *)

(* Bound: the opens that wait to be decided leave one number for this one. *)
Room ==
    nextID + Cardinality({q \in Openers : opener[q] # None /\ opener[q].id = 0})
        < MaxId

(* opendir on a marked folder waits for a verdict; id 0: none is asked yet *)
Opening(p, d) ==
    /\ marked /\ Room
    /\ opener[p] = None
    /\ opener' = [opener EXCEPT ![p] =
         [dir |-> d, due |-> p \in Users /\ d \in behind, id |-> 0]]

UserOpens(p, d) ==
    /\ p \in Users
    /\ Opening(p, d)
    /\ UNCHANGED <<marked, client, clientPid, reader, todo, nextID, wire,
                   daemon, behind>>

(* A scan, of a refresh or of an ordinary pass.                            *)
DaemonOpens(d) ==
    /\ pid > 0
    /\ Opening(Daemon, d)
    /\ UNCHANGED <<marked, client, clientPid, reader, todo, nextID, wire,
                   daemon, behind>>

Allowed(p) == opener' = [opener EXCEPT ![p] = None]

-----------------------------------------------------------------------------
(* pdrive-gate.                                                            *)

(* Mutant: the daemon's own opens are asked about like any others.         *)
NobodyExempt(p) == client = 0

(* decide: nobody to ask, or the daemon itself.                            *)
Exempt(p) == client = 0 \/ (p = Daemon /\ clientPid = pid)

Pass(p) ==
    /\ opener[p] # None /\ opener[p].id = 0
    /\ Exempt(p)
    /\ Allowed(p)
    /\ UNCHANGED <<marked, client, clientPid, reader, todo, nextID, wire,
                   daemon, behind>>

(* ... or the question is sent and the open held.  A daemon that is gone   *)
(* may not get it, whether or not the gate is told.                        *)
Hold(p) ==
    /\ opener[p] # None /\ opener[p].id = 0
    /\ ~Exempt(p)
    /\ nextID < MaxId
    /\ nextID' = nextID + 1
    /\ opener' = [opener EXCEPT ![p].id = nextID + 1]
    /\ jobs' = IF link = client
               THEN jobs \cup {[conn |-> client, id |-> nextID + 1,
                                dir |-> opener[p].dir, at |-> "asked",
                                wait |-> None]}
               ELSE jobs
    /\ UNCHANGED <<marked, client, clientPid, reader, todo, wire, pid, running,
                   behind>>

SendFails(p) ==
    /\ opener[p] # None /\ opener[p].id = 0
    /\ ~Exempt(p)
    /\ link # client
    /\ Allowed(p)
    /\ UNCHANGED <<marked, client, clientPid, reader, todo, nextID, wire,
                   daemon, behind>>

(* Mutant: only a gate that still has its daemon counts the time.          *)
DeadlineOfClient(p) ==
    /\ opener[p] # None /\ opener[p].id > 0
    /\ client # 0 /\ client = link
    /\ Allowed(p)
    /\ UNCHANGED <<marked, client, clientPid, reader, todo, nextID, wire,
                   daemon, behind>>

Deadline(p) ==
    /\ opener[p] # None /\ opener[p].id > 0
    /\ Allowed(p)
    /\ UNCHANGED <<marked, client, clientPid, reader, todo, nextID, wire,
                   daemon, behind>>

(* handleClient: a first connection is registered, another is refused.     *)
Register ==
    /\ link # 0 /\ client = 0
    /\ client' = link /\ clientPid' = pid
    /\ reader' = "marking"
    /\ UNCHANGED <<opener, marked, todo, nextID, wire, daemon, behind>>

RefuseClient ==
    /\ link # 0 /\ client # 0 /\ client # link
    /\ link' = 0
    /\ UNCHANGED <<gate, conns, acks, daemon, behind>>

(* MarkTree reads a folder before it marks it: this walk is not held.      *)
MarkTree ==
    /\ reader = "marking"
    /\ marked' = TRUE /\ reader' = "reading"
    /\ UNCHANGED <<opener, client, clientPid, todo, nextID, wire, daemon, behind>>

ReadAck(a) ==
    /\ reader = "reading"
    /\ a \in acks /\ a.conn = client
    /\ acks' = acks \ {a}
    /\ opener' = [p \in Openers |->
         IF opener[p] # None /\ opener[p].id = a.id THEN None ELSE opener[p]]
    /\ UNCHANGED <<marked, client, clientPid, reader, todo, nextID, link, conns,
                   daemon, behind>>

(* GateRescan: a local change makes the daemon ask for another walk, which *)
(* opens folders that are marked.  No answer is read until it is over.     *)
Rescan ==
    /\ reader = "reading" /\ client = link
    /\ reader' = "walking" /\ todo' = Dirs
    /\ UNCHANGED <<opener, marked, client, clientPid, nextID, wire, daemon,
                   behind>>

WalkOpens(d) ==
    /\ reader = "walking" /\ d \in todo
    /\ todo' = todo \ {d}
    /\ Opening(Gate, d)
    /\ UNCHANGED <<marked, client, clientPid, reader, nextID, wire, daemon,
                   behind>>

WalkEnds ==
    /\ reader = "walking" /\ opener[Gate] = None
    /\ todo = {} \/ ~Room
    /\ reader' = "reading" /\ todo' = {}
    /\ UNCHANGED <<opener, marked, client, clientPid, nextID, wire, daemon,
                   behind>>

(* The connection has ended: marks off, no client.  What is held stays     *)
(* held until its deadline.                                                *)
Leave ==
    /\ reader \in {"marking", "reading"} /\ client # link
    /\ marked' = FALSE
    /\ client' = 0 /\ clientPid' = 0
    /\ reader' = "none"
    /\ acks' = {a \in acks : a.conn # client}
    /\ UNCHANGED <<opener, todo, nextID, link, conns, daemon, behind>>

(* The gate ends: the kernel lets everything go.  Of the questions it had  *)
(* asked only the refresh that runs still matters; the answers of the      *)
(* others go nowhere, and what they may yet refresh is as if by a pass.    *)
GateEnds ==
    /\ client # 0
    /\ opener' = [p \in Openers |-> None]
    /\ marked' = FALSE /\ client' = 0 /\ clientPid' = 0
    /\ reader' = "none" /\ todo' = {} /\ nextID' = 0
    /\ link' = 0 /\ acks' = {}
    /\ jobs' = {j \in jobs : j.at = "run"}
    /\ UNCHANGED <<conns, pid, running, behind>>

-----------------------------------------------------------------------------
(* pdrived.                                                                *)

DaemonStarts ==
    /\ pid < MaxPid
    /\ pid' = pid + 1
    /\ link' = 0
    /\ jobs' = {} /\ running' = None
    /\ opener' = [opener EXCEPT ![Daemon] = None]
    /\ UNCHANGED <<marked, client, clientPid, reader, todo, nextID, conns, acks,
                   behind>>

Connect ==
    /\ pid > 0 /\ link = 0 /\ conns < MaxConn
    /\ conns' = conns + 1 /\ link' = conns + 1
    /\ UNCHANGED <<gate, acks, daemon, behind>>

At(j, at, wait) == (jobs \ {j}) \cup {[j EXCEPT !.at = at, !.wait = wait]}

(* Mutant: the answer goes to whatever gate there is now.                  *)
ReplyNow(j, done) ==
    /\ jobs' = jobs \ {j}
    /\ acks' = IF link # 0
               THEN acks \cup {[conn |-> link, id |-> j.id, done |-> done]}
               ELSE acks

(* The answer goes to the connection that asked, if there still is one.    *)
Reply(j, done) ==
    /\ jobs' = jobs \ {j}
    /\ acks' = IF j.conn = link
               THEN acks \cup {[conn |-> link, id |-> j.id, done |-> done]}
               ELSE acks

(* refreshForListing: paused, limited or polled a moment ago.              *)
Skip(j) ==
    /\ j.at = "asked"
    /\ Reply(j, FALSE)
    /\ UNCHANGED <<gate, link, conns, pid, running, behind>>

(* One refresh at a time; the others wait for it and ask for nothing.      *)
Lead(j) ==
    /\ j.at = "asked" /\ running = None
    /\ running' = <<j.conn, j.id>>
    /\ jobs' = At(j, "run", None)
    /\ UNCHANGED <<gate, wire, pid, behind>>

Join(j) ==
    /\ j.at = "asked" /\ running # None
    /\ jobs' = At(j, "join", running)
    /\ UNCHANGED <<gate, wire, pid, running, behind>>

JoinEnds(j) ==
    /\ j.at = "join" /\ running # j.wait
    /\ Reply(j, FALSE)
    /\ UNCHANGED <<gate, link, conns, pid, running, behind>>

UpToDate(dirs) ==
    /\ behind' = behind \ dirs
    /\ opener' = [p \in Openers |->
         IF opener[p] # None /\ opener[p].dir \in dirs
         THEN [opener[p] EXCEPT !.due = FALSE] ELSE opener[p]]

(* RefreshDir, once its scan has read the tree: the folder is listed and   *)
(* brought up to date.                                                     *)
Refreshed(j) ==
    /\ j.at = "run" /\ opener[Daemon] = None
    /\ UpToDate({j.dir})
    /\ running' = None
    /\ Reply(j, TRUE)
    /\ UNCHANGED <<marked, client, clientPid, reader, todo, nextID, link, conns,
                   pid>>

(* Mutant: an error leaves listingRun as it is.                            *)
FailAndForget(j) ==
    /\ j.at = "run"
    /\ Reply(j, FALSE)
    /\ UNCHANGED <<gate, link, conns, pid, running, behind>>

(* A guard, an error, or the budget; or a folder that the state database   *)
(* does not know, which is no error and no refresh either.                 *)
RefreshFails(j) ==
    /\ j.at = "run"
    /\ running' = None
    /\ Reply(j, FALSE)
    /\ UNCHANGED <<gate, link, conns, pid, behind>>

(* A pass of syncLoop applies changes whose events Proton has published.   *)
Poll(dirs) ==
    /\ pid > 0
    /\ UpToDate(dirs)
    /\ UNCHANGED <<marked, client, clientPid, reader, todo, nextID, wire, daemon>>

-----------------------------------------------------------------------------
(* Another device.                                                         *)
Change(d) ==
    /\ behind' = behind \cup {d}
    /\ UNCHANGED <<gate, wire, daemon>>

-----------------------------------------------------------------------------
Decide(p) == Pass(p) \/ Hold(p) \/ SendFails(p)

JobStep(j) ==
    \/ Skip(j) \/ Lead(j) \/ Join(j) \/ JoinEnds(j)
    \/ Refreshed(j) \/ RefreshFails(j)

Walk == (\E d \in Dirs : WalkOpens(d)) \/ WalkEnds

GateStep ==
    \/ \E p \in Openers : Decide(p) \/ Deadline(p)
    \/ Register \/ RefuseClient \/ MarkTree \/ Leave \/ GateEnds
    \/ \E a \in acks : ReadAck(a)
    \/ Rescan \/ Walk

DaemonStep ==
    \/ DaemonStarts \/ Connect
    \/ \E j \in jobs : JobStep(j)
    \/ \E dirs \in SUBSET Dirs : Poll(dirs)

Next ==
    \/ \E p \in Users, d \in Dirs : UserOpens(p, d)
    \/ \E d \in Dirs : DaemonOpens(d) \/ Change(d)
    \/ GateStep \/ DaemonStep

Spec == Init /\ [][Next]_vars

(* A goroutine that can go on goes on, and a timer fires.  Nothing is      *)
(* assumed of the users, of Proton, or of the two programs staying up.     *)
StepOf(k) == \E j \in jobs : <<j.conn, j.id>> = k /\ JobStep(j)

FairSpec ==
    /\ Spec
    /\ \A p \in Openers : WF_vars(Decide(p) \/ Deadline(p))
    /\ WF_vars(Walk)
    /\ \A k \in Key : WF_vars(StepOf(k))

-----------------------------------------------------------------------------
(* "The daemon's own reads must never wait on the daemon ... the classic   *)
(* fanotify self-deadlock" (server.go:268-270): no process of pdrived is   *)
(* asked about an open of its own, whatever gate and daemon were there     *)
(* when it began.                                                          *)
DaemonNeverWaits ==
    opener[Daemon] # None /\ opener[Daemon].id > 0 =>
        \A q \in jobs : q.conn = link => q.id # opener[Daemon].id

(* "Releasing it once the daemon has applied the delta for that directory" *)
(* (protocol.go:6-7): an answer that follows a refresh finds its listing   *)
(* with everything that Drive had when the folder was opened.  No answer   *)
(* to an earlier gate, or about another folder, is taken for it.           *)
AnswersAreFresh ==
    \A a \in acks, p \in Openers :
        /\ a.conn = client /\ a.done
        /\ opener[p] # None /\ opener[p].id = a.id
        => ~opener[p].due

(* "Proton latency must never become filesystem latency" (server.go:295):  *)
(* every open is let go, the gate's own among them, whatever ends.         *)
OpensReturn ==
    \A p \in Openers : opener[p] # None ~> opener[p] = None

(* "Several listings can be held at once, and one slow answer must not     *)
(* delay the others" (daemon/gate.go:108): every question that the daemon  *)
(* has received is answered, also when the refresh it waits for fails.     *)
QuestionsEnd ==
    \A k \in Key : (\E j \in jobs : <<j.conn, j.id>> = k)
                   ~> ~ \E j \in jobs : <<j.conn, j.id>> = k
=============================================================================
