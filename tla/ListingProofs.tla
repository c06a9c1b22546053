---------------------------- MODULE ListingProofs ----------------------------
(* Held listings, for any number of users, folders, opens and connections: *)
(* the daemon never waits for itself, and an answer after a refresh finds  *)
(* its listing fresh.                                                      *)
EXTENDS Listing, TLAPS

-----------------------------------------------------------------------------
(* The gate has numbered what it holds ...                                 *)
Numbered == \A p \in Openers : opener[p] # None => opener[p].id <= nextID

(* ... every connection, and what belongs to it, is of the past ...        *)
Connections ==
    /\ client <= conns /\ link <= conns
    /\ \A q \in jobs : q.conn <= conns
    /\ \A a \in acks : a.conn <= conns

(* ... nothing was asked or answered yet on one that is not registered ... *)
NewLinkUnused ==
    link # 0 /\ link # client =>
        /\ \A q \in jobs : q.conn # link
        /\ \A a \in acks : a.conn # link

(* ... a question of the client is about the open that has its number ...  *)
AskedFor(q) ==
    /\ q.id <= nextID
    /\ \A p \in Openers :
          opener[p] # None /\ opener[p].id = q.id => opener[p].dir = q.dir

Questions ==
    /\ \A q \in jobs : q.conn = client => AskedFor(q)
    /\ \A a \in acks : a.conn = client => a.id <= nextID

(* ... and a client that is connected is the process that registered.      *)
ClientIsKnown == client # 0 /\ link = client => clientPid = pid

IInv ==
    /\ TypeOK
    /\ Numbered /\ Connections /\ NewLinkUnused /\ Questions /\ ClientIsKnown
    /\ AnswersAreFresh /\ DaemonNeverWaits
-----------------------------------------------------------------------------
(* Most steps leave the numbers and connections alone, let opens go or     *)
(* begin new ones, and answer what was asked.                              *)
Descends(p) ==
    opener'[p] # None =>
        \/ opener'[p].id = 0
        \/ /\ opener[p] # None
           /\ opener'[p].id = opener[p].id /\ opener'[p].dir = opener[p].dir
           /\ opener'[p].due => opener[p].due

FromJob(a, j) == a.conn = j.conn /\ a.id = j.id

Quiet ==
    /\ \A p \in Openers : Descends(p)
    /\ \A q \in jobs' : \E j \in jobs : FromJob(q, j) /\ q.dir = j.dir
    /\ \A a \in acks' : a \in acks \/ (~a.done /\ \E j \in jobs : FromJob(a, j))
    /\ UNCHANGED <<nextID, client, clientPid, link, conns, pid>>

LEMMA Typed ==
    TypeOK =>
        /\ \A p \in Openers : opener[p] # None => opener[p] \in Open
        /\ \A q \in jobs : q \in Job /\ q.conn \in 1 .. MaxConn
                             /\ q.id \in 1 .. MaxId /\ q.dir \in Dirs
        /\ \A a \in acks : a.conn \in 1 .. MaxConn /\ a.id \in 1 .. MaxId
        /\ nextID \in Nat /\ client \in Nat /\ link \in Nat /\ conns \in Nat
        /\ MaxId \in Nat /\ MaxConn \in Nat /\ MaxPid \in Nat
<1> SUFFICES ASSUME TypeOK
             PROVE  /\ \A p \in Openers : opener[p] # None => opener[p] \in Open
                    /\ \A q \in jobs : q \in Job /\ q.conn \in 1 .. MaxConn
                                         /\ q.id \in 1 .. MaxId /\ q.dir \in Dirs
                    /\ \A a \in acks : a.conn \in 1 .. MaxConn /\ a.id \in 1 .. MaxId
                    /\ nextID \in Nat /\ client \in Nat /\ link \in Nat /\ conns \in Nat
                    /\ MaxId \in Nat /\ MaxConn \in Nat /\ MaxPid \in Nat
    OBVIOUS
<1>1. MaxId \in Nat /\ MaxConn \in Nat /\ MaxPid \in Nat
    BY BoundsAssumption
<1>2. \A p \in Openers : opener[p] # None => opener[p] \in Open
    BY DEF TypeOK
<1>3. \A q \in jobs : q \in Job
    BY DEF TypeOK
<1>4. \A q \in Job : q.conn \in 1 .. MaxConn /\ q.id \in 1 .. MaxId /\ q.dir \in Dirs
    BY DEF Job
<1>5. \A a \in acks : a \in Ack
    BY DEF TypeOK
<1>6. \A a \in Ack : a.conn \in 1 .. MaxConn /\ a.id \in 1 .. MaxId
    BY DEF Ack
<1>7. nextID \in Nat /\ client \in Nat /\ link \in Nat /\ conns \in Nat
    BY <1>1 DEF TypeOK
<1> QED BY <1>1, <1>2, <1>3, <1>4, <1>5, <1>6, <1>7

LEMMA QuietKeeps ==
    ASSUME IInv, TypeOK', Quiet
    PROVE  IInv'
<1>t. TypeOK
    BY DEF IInv
<1>u. UNCHANGED <<nextID, client, clientPid, link, conns, pid>>
    BY DEF Quiet
<1>n. /\ \A q \in jobs : q.id # 0
      /\ \A a \in acks : a.id # 0
      /\ nextID \in Nat
    BY <1>t, Typed
<1>m. /\ \A q \in jobs' : q.id # 0
      /\ \A a \in acks' : a.id # 0
    BY <1>n DEF Quiet, FromJob
<1>1. Numbered'
  <2> SUFFICES ASSUME NEW p \in Openers, opener'[p] # None
               PROVE  opener'[p].id <= nextID
      BY <1>u DEF Numbered
  <2>1. opener'[p].id = 0 \/ (opener[p] # None /\ opener'[p].id = opener[p].id)
      BY DEF Quiet, Descends
  <2> QED BY <2>1, <1>n DEF IInv, Numbered
<1>2. Connections'
    BY <1>u DEF IInv, Connections, Quiet, FromJob
<1>3. NewLinkUnused'
    BY <1>u DEF IInv, NewLinkUnused, Quiet, FromJob
<1>4. Questions'
  <2>1. ASSUME NEW q \in jobs', q.conn = client
        PROVE  AskedFor(q)'
    <3>1. PICK j \in jobs : FromJob(q, j) /\ q.dir = j.dir
        BY DEF Quiet
    <3>2. AskedFor(j) /\ q.id = j.id /\ q.dir = j.dir
        BY <2>1, <3>1 DEF IInv, Questions, FromJob
    <3>3. ASSUME NEW p \in Openers, opener'[p] # None, opener'[p].id = q.id
          PROVE  opener'[p].dir = q.dir
        BY <3>2, <3>3, <1>m DEF Quiet, Descends, AskedFor
    <3> QED BY <3>2, <3>3, <1>u DEF AskedFor
  <2>2. ASSUME NEW a \in acks', a.conn = client
        PROVE  a.id <= nextID
    <3>1. CASE a \in acks
        BY <3>1, <2>2 DEF IInv, Questions
    <3>2. CASE \E j \in jobs : FromJob(a, j)
        BY <3>2, <2>2 DEF IInv, Questions, AskedFor, FromJob
    <3> QED BY <3>1, <3>2 DEF Quiet
  <2> QED BY <2>1, <2>2, <1>u DEF Questions
<1>5. ClientIsKnown'
    BY <1>u DEF IInv, ClientIsKnown
<1>6. AnswersAreFresh'
  <2> SUFFICES ASSUME NEW a \in acks', NEW p \in Openers,
                      a.conn = client, a.done,
                      opener'[p] # None, opener'[p].id = a.id
               PROVE  ~opener'[p].due
      BY <1>u DEF AnswersAreFresh
  <2>1. a \in acks
      BY DEF Quiet
  <2>2. /\ opener[p] # None /\ opener[p].id = a.id
        /\ opener'[p].due => opener[p].due
      BY <1>m DEF Quiet, Descends
  <2> QED BY <2>1, <2>2 DEF IInv, AnswersAreFresh
<1>7. DaemonNeverWaits'
  <2> SUFFICES ASSUME opener'[Daemon] # None, opener'[Daemon].id > 0,
                      NEW q \in jobs', q.conn = link
               PROVE  q.id # opener'[Daemon].id
      BY <1>u DEF DaemonNeverWaits
  <2>1. PICK j \in jobs : FromJob(q, j)
      BY DEF Quiet
  <2>2. Daemon \in Openers
      BY DEF Openers
  <2>3. opener'[Daemon].id # 0
      BY <1>m
  <2>4. opener[Daemon] # None /\ opener'[Daemon].id = opener[Daemon].id
      BY <2>2, <2>3 DEF Quiet, Descends
  <2> QED BY <2>1, <2>4 DEF IInv, DaemonNeverWaits, FromJob
<1> QED BY <1>1, <1>2, <1>3, <1>4, <1>5, <1>6, <1>7 DEF IInv
-----------------------------------------------------------------------------
(* Types, part by part: what a step of the kernel, the gate or the daemon  *)
(* writes.                                                                 *)
LEMMA OpeningTyped ==
    ASSUME TypeOK, NEW p, NEW d \in Dirs, Opening(p, d)
    PROVE  /\ opener' \in [Openers -> Open \cup {None}]
           /\ \A q \in Openers : Descends(q)
<1>1. MaxId \in Nat
    BY BoundsAssumption
<1>2. [dir |-> d, due |-> p \in Users /\ d \in behind, id |-> 0] \in Open
    BY <1>1 DEF Open
<1>3. opener' = [opener EXCEPT ![p] =
                   [dir |-> d, due |-> p \in Users /\ d \in behind, id |-> 0]]
    BY DEF Opening
<1>4. opener \in [Openers -> Open \cup {None}]
    BY DEF TypeOK
<1>5. opener' \in [Openers -> Open \cup {None}]
    BY <1>2, <1>3, <1>4
<1>6. ASSUME NEW q \in Openers PROVE Descends(q)
  <2>1. CASE q = p
      BY <2>1, <1>3, <1>4 DEF Descends
  <2>2. CASE q # p
    <3>1. opener'[q] = opener[q]
        BY <2>2, <1>3, <1>4
    <3> QED BY <3>1 DEF Descends
  <2> QED BY <2>1, <2>2
<1> QED BY <1>5, <1>6

LEMMA AllowedTyped ==
    ASSUME TypeOK, NEW p, Allowed(p)
    PROVE  /\ opener' \in [Openers -> Open \cup {None}]
           /\ \A q \in Openers : Descends(q)
<1>1. opener' = [opener EXCEPT ![p] = None]
    BY DEF Allowed
<1>2. opener \in [Openers -> Open \cup {None}]
    BY DEF TypeOK
<1>3. ASSUME NEW q \in Openers PROVE Descends(q)
  <2>1. CASE q = p
      BY <2>1, <1>1, <1>2 DEF Descends
  <2>2. CASE q # p
    <3>1. opener'[q] = opener[q]
        BY <2>2, <1>1, <1>2
    <3> QED BY <3>1 DEF Descends
  <2> QED BY <2>1, <2>2
<1> QED BY <1>1, <1>2, <1>3

LEMMA UpToDateTyped ==
    ASSUME TypeOK, NEW dirs \in SUBSET Dirs, UpToDate(dirs)
    PROVE  /\ opener' \in [Openers -> Open \cup {None}]
           /\ behind' \subseteq Dirs
           /\ \A q \in Openers : Descends(q)
           /\ \A q \in Openers :
                 opener'[q] # None /\ opener[q] # None /\ opener[q].dir \in dirs
                 => ~opener'[q].due
<1>1. \A q \in Openers : opener'[q] =
         IF opener[q] # None /\ opener[q].dir \in dirs
         THEN [opener[q] EXCEPT !.due = FALSE] ELSE opener[q]
    BY DEF UpToDate
<1>2. \A q \in Openers : opener[q] # None => opener[q] \in Open
    BY Typed
<1>3. ASSUME NEW r \in Open
      PROVE  /\ [r EXCEPT !.due = FALSE] \in Open
             /\ [r EXCEPT !.due = FALSE].id = r.id
             /\ [r EXCEPT !.due = FALSE].dir = r.dir
             /\ [r EXCEPT !.due = FALSE].due = FALSE
    BY DEF Open
<1>4. ASSUME NEW q \in Openers
      PROVE  /\ opener'[q] \in Open \cup {None}
             /\ Descends(q)
             /\ opener'[q] # None /\ opener[q] # None /\ opener[q].dir \in dirs
                => ~opener'[q].due
  <2>1. CASE opener[q] # None /\ opener[q].dir \in dirs
    <3>1. opener[q] \in Open /\ opener'[q] = [opener[q] EXCEPT !.due = FALSE]
        BY <2>1, <1>1, <1>2
    <3> QED BY <2>1, <3>1, <1>3 DEF Descends
  <2>2. CASE ~(opener[q] # None /\ opener[q].dir \in dirs)
    <3>1. opener'[q] = opener[q]
        BY <2>2, <1>1
    <3> QED BY <2>2, <3>1, <1>2 DEF Descends
  <2> QED BY <2>1, <2>2
<1>5. opener' = [q \in Openers |-> opener'[q]]
    BY DEF UpToDate
<1>6. opener' \in [Openers -> Open \cup {None}]
    BY <1>4, <1>5
<1>7. behind' \subseteq Dirs
    BY DEF UpToDate, TypeOK
<1> QED BY <1>4, <1>6, <1>7

(* An answer, wherever it goes.                                            *)
LEMMA ReplyTyped ==
    ASSUME TypeOK, NEW j \in jobs, NEW done \in BOOLEAN, Reply(j, done)
    PROVE  /\ jobs' \subseteq Job /\ acks' \subseteq Ack
           /\ \A q \in jobs' : q \in jobs
           /\ \A a \in acks' :
                 a \in acks \/ (FromJob(a, j) /\ a.done = done)
<1>1. jobs' = jobs \ {j}
    BY DEF Reply
<1>2. j.conn \in 1 .. MaxConn /\ j.id \in 1 .. MaxId
    BY Typed
<1>3. CASE j.conn = link
  <2>1. acks' = acks \cup {[conn |-> j.conn, id |-> j.id, done |-> done]}
      BY <1>3 DEF Reply
  <2>2. [conn |-> j.conn, id |-> j.id, done |-> done] \in Ack
      BY <1>2 DEF Ack
  <2> QED BY <1>1, <2>1, <2>2 DEF TypeOK, FromJob
<1>4. CASE j.conn # link
    BY <1>1, <1>4 DEF Reply, TypeOK
<1> QED BY <1>3, <1>4

LEMMA AtTyped ==
    ASSUME TypeOK, NEW j \in jobs, NEW at \in {"asked", "run", "join"},
           NEW wait \in Key \cup {None}, jobs' = At(j, at, wait)
    PROVE  /\ jobs' \subseteq Job
           /\ \A q \in jobs' : \E i \in jobs : FromJob(q, i) /\ q.dir = i.dir
<1>1. j \in Job
    BY Typed
<1>2. /\ [j EXCEPT !.at = at, !.wait = wait] \in Job
      /\ FromJob([j EXCEPT !.at = at, !.wait = wait], j)
      /\ [j EXCEPT !.at = at, !.wait = wait].dir = j.dir
    BY <1>1 DEF Job, FromJob
<1>3. ASSUME NEW q \in jobs' PROVE q \in jobs \/ q = [j EXCEPT !.at = at, !.wait = wait]
    BY DEF At
<1>4. \A q \in jobs : q \in Job /\ FromJob(q, q)
    BY Typed DEF FromJob
<1> QED BY <1>2, <1>3, <1>4
-----------------------------------------------------------------------------
(* The steps that leave numbers and connections alone.                     *)
LEMMA KernelSteps ==
    ASSUME IInv, NEW p, NEW d \in Dirs,
           UserOpens(p, d) \/ (p = Daemon /\ DaemonOpens(d))
               \/ (p = Gate /\ WalkOpens(d))
    PROVE  IInv'
<1>t. TypeOK
    BY DEF IInv
<1>1. Opening(p, d)
    BY DEF UserOpens, DaemonOpens, WalkOpens
<1>2. /\ UNCHANGED <<marked, client, clientPid, reader, nextID, wire, daemon, behind>>
      /\ todo' \subseteq todo
    BY DEF UserOpens, DaemonOpens, WalkOpens
<1>3. TypeOK'
    BY <1>t, <1>1, <1>2, OpeningTyped DEF TypeOK, wire, daemon
<1>4. Quiet
    BY <1>t, <1>1, <1>2, OpeningTyped DEF Quiet, FromJob, wire, daemon
<1> QED BY <1>3, <1>4, QuietKeeps

LEMMA ReleaseSteps ==
    ASSUME IInv, NEW p \in Openers, Pass(p) \/ SendFails(p) \/ Deadline(p)
    PROVE  IInv'
<1>t. TypeOK
    BY DEF IInv
<1>1. Allowed(p) /\ UNCHANGED <<marked, client, clientPid, reader, todo, nextID,
                                wire, daemon, behind>>
    BY DEF Pass, SendFails, Deadline
<1>2. TypeOK'
    BY <1>t, <1>1, AllowedTyped DEF TypeOK, wire, daemon
<1>3. Quiet
    BY <1>t, <1>1, AllowedTyped DEF Quiet, FromJob, wire, daemon
<1> QED BY <1>2, <1>3, QuietKeeps

LEMMA ReaderSteps ==
    ASSUME IInv, MarkTree \/ Rescan \/ WalkEnds \/ (\E d \in Dirs : Change(d))
    PROVE  IInv'
<1>t. TypeOK
    BY DEF IInv
<1>1. /\ UNCHANGED <<opener, client, clientPid, nextID, wire, daemon>>
      /\ marked' \in BOOLEAN /\ reader' \in {"none", "marking", "reading", "walking"}
      /\ todo' \subseteq Dirs /\ behind' \subseteq Dirs
    BY <1>t DEF MarkTree, Rescan, WalkEnds, Change, gate, TypeOK
<1>2. TypeOK'
    BY <1>t, <1>1 DEF TypeOK, wire, daemon
<1>3. Quiet
    BY <1>1 DEF Quiet, Descends, FromJob, wire, daemon
<1> QED BY <1>2, <1>3, QuietKeeps

LEMMA AckStep ==
    ASSUME IInv, NEW a \in acks, ReadAck(a)
    PROVE  IInv'
<1>t. TypeOK
    BY DEF IInv
<1>1. /\ \A p \in Openers : opener'[p] = opener[p] \/ opener'[p] = None
      /\ opener' = [p \in Openers |-> opener'[p]]
      /\ acks' \subseteq acks
      /\ UNCHANGED <<marked, client, clientPid, reader, todo, nextID, link, conns,
                     daemon, behind>>
    BY DEF ReadAck
<1>2. \A p \in Openers : opener[p] \in Open \cup {None}
    BY <1>t DEF TypeOK
<1>3. opener' \in [Openers -> Open \cup {None}]
    BY <1>1, <1>2
<1>4. TypeOK'
    BY <1>t, <1>1, <1>3 DEF TypeOK, daemon
<1>5. Quiet
    BY <1>1 DEF Quiet, Descends, FromJob, daemon
<1> QED BY <1>4, <1>5, QuietKeeps

LEMMA PollStep ==
    ASSUME IInv, NEW dirs \in SUBSET Dirs, Poll(dirs)
    PROVE  IInv'
<1>t. TypeOK
    BY DEF IInv
<1>1. UpToDate(dirs) /\ UNCHANGED <<marked, client, clientPid, reader, todo, nextID,
                                    wire, daemon>>
    BY DEF Poll
<1>2. TypeOK'
    BY <1>t, <1>1, UpToDateTyped DEF TypeOK, wire, daemon
<1>3. Quiet
    BY <1>t, <1>1, UpToDateTyped DEF Quiet, FromJob, wire, daemon
<1> QED BY <1>2, <1>3, QuietKeeps

LEMMA AnswerSteps ==
    ASSUME IInv, NEW j \in jobs, Skip(j) \/ JoinEnds(j) \/ RefreshFails(j)
    PROVE  IInv'
<1>t. TypeOK
    BY DEF IInv
<1>1. /\ Reply(j, FALSE)
      /\ running' = running \/ running' = None
      /\ UNCHANGED <<gate, link, conns, pid, behind>>
    BY DEF Skip, JoinEnds, RefreshFails
<1>2. /\ jobs' \subseteq Job /\ acks' \subseteq Ack
      /\ \A q \in jobs' : q \in jobs
      /\ \A a \in acks' : a \in acks \/ (FromJob(a, j) /\ a.done = FALSE)
    BY <1>t, <1>1, ReplyTyped
<1>3. TypeOK'
    BY <1>t, <1>1, <1>2 DEF TypeOK, gate
<1>4. Quiet
    BY <1>1, <1>2 DEF Quiet, Descends, FromJob, gate
<1> QED BY <1>3, <1>4, QuietKeeps

LEMMA FlightSteps ==
    ASSUME IInv, NEW j \in jobs, Lead(j) \/ Join(j)
    PROVE  IInv'
<1>t. TypeOK
    BY DEF IInv
<1>1. <<j.conn, j.id>> \in Key /\ running \in Key \cup {None}
    BY <1>t, Typed DEF TypeOK, Key
<1>2. /\ UNCHANGED <<gate, wire, pid, behind>>
      /\ running' \in Key \cup {None}
    BY <1>1 DEF Lead, Join
<1>3. PICK at \in {"asked", "run", "join"}, wait \in Key \cup {None} :
          jobs' = At(j, at, wait)
    BY <1>1 DEF Lead, Join
<1>4. /\ jobs' \subseteq Job
      /\ \A q \in jobs' : \E i \in jobs : FromJob(q, i) /\ q.dir = i.dir
    BY <1>t, <1>3, AtTyped
<1>5. TypeOK'
    BY <1>t, <1>2, <1>4 DEF TypeOK, gate, wire
<1>6. Quiet
    BY <1>2, <1>4 DEF Quiet, Descends, gate, wire
<1> QED BY <1>5, <1>6, QuietKeeps
-----------------------------------------------------------------------------
(* The steps that number an open, begin or end a connection, or answer     *)
(* after a refresh.                                                        *)
LEMMA HoldStep ==
    ASSUME IInv, NEW p \in Openers, Hold(p)
    PROVE  IInv'
<1> DEFINE new == [conn |-> client, id |-> nextID + 1, dir |-> opener[p].dir,
                   at |-> "asked", wait |-> None]
<1>t. TypeOK
    BY DEF IInv
<1>1. /\ opener[p] # None /\ opener[p] \in Open
      /\ nextID' = nextID + 1 /\ nextID \in Nat /\ nextID + 1 \in 1 .. MaxId
      /\ UNCHANGED <<marked, client, clientPid, reader, todo, link, conns, acks, pid,
                     running, behind>>
    BY <1>t, Typed DEF Hold, wire
<1>2. /\ opener' = [opener EXCEPT ![p] = [opener[p] EXCEPT !.id = nextID + 1]]
      /\ opener \in [Openers -> Open \cup {None}]
    BY <1>t DEF Hold, TypeOK
<1>3. /\ [opener[p] EXCEPT !.id = nextID + 1] \in Open
      /\ [opener[p] EXCEPT !.id = nextID + 1].id = nextID + 1
      /\ [opener[p] EXCEPT !.id = nextID + 1].dir = opener[p].dir
    BY <1>1 DEF Open
<1>4. /\ opener'[p].id = nextID + 1 /\ opener'[p].dir = opener[p].dir
      /\ \A q \in Openers : q # p => opener'[q] = opener[q]
      /\ opener' \in [Openers -> Open \cup {None}]
    BY <1>2, <1>3
<1>5. \A q \in jobs' : q \in jobs \/ (link = client /\ q = new)
    BY DEF Hold
<1>6. client # 0 /\ client \in 1 .. MaxConn
    BY <1>t DEF Hold, Exempt, TypeOK
<1>7. new \in Job
    BY <1>1, <1>6 DEF Job, Open
<1>8. TypeOK'
  <2>1. jobs' \subseteq Job
      BY <1>t, <1>5, <1>7 DEF TypeOK
  <2> QED BY <1>t, <1>1, <1>4, <2>1 DEF TypeOK
<1>9. \A q \in jobs : q.id # 0 /\ q.conn # 0
    BY <1>t, Typed
<1>10. Numbered'
    BY <1>1, <1>4, <1>t, Typed DEF IInv, Numbered, Open
<1>11. Connections'
    BY <1>1, <1>5 DEF IInv, Connections
<1>12. NewLinkUnused'
    BY <1>1, <1>5 DEF IInv, NewLinkUnused
<1>13. Questions'
  <2>1. ASSUME NEW q \in jobs, q.conn = client
        PROVE  AskedFor(q)'
    <3>1. AskedFor(q) /\ q.id \in Nat
        BY <2>1, <1>t, Typed DEF IInv, Questions
    <3>2. q.id <= nextID
        BY <3>1 DEF AskedFor
    <3>3. ASSUME NEW r \in Openers, opener'[r] # None, opener'[r].id = q.id
          PROVE  opener'[r].dir = q.dir
      <4>1. r # p
          BY <3>1, <3>2, <3>3, <1>1, <1>4
      <4> QED BY <4>1, <3>1, <3>3, <1>4 DEF AskedFor
    <3> QED BY <3>1, <3>2, <3>3, <1>1 DEF AskedFor
  <2>2. ASSUME NEW q, q = new
        PROVE  AskedFor(q)'
    <3>1. ASSUME NEW r \in Openers, opener'[r] # None, opener'[r].id = nextID + 1
          PROVE  opener'[r].dir = opener[p].dir
      <4>1. CASE r = p
          BY <4>1, <1>4
      <4>2. CASE r # p
        <5>1. opener[r] # None /\ opener[r].id = nextID + 1 /\ opener[r] \in Open
            BY <4>2, <3>1, <1>4, <1>t, Typed
        <5> QED BY <5>1, <1>1 DEF IInv, Numbered, Open
      <4> QED BY <4>1, <4>2
    <3> QED BY <2>2, <3>1, <1>1 DEF AskedFor
  <2>3. \A a \in acks : a.conn = client => a.id <= nextID + 1
    <3>1. \A a \in acks : a.conn = client => a.id <= nextID
        BY DEF IInv, Questions
    <3>2. \A a \in acks : a.id \in Nat
        BY <1>t, Typed
    <3> QED BY <3>1, <3>2, <1>1
  <2>4. ASSUME NEW q \in jobs', q.conn = client
        PROVE  AskedFor(q)'
    <3>1. CASE q \in jobs
        BY <3>1, <2>1, <2>4
    <3>2. CASE q = new
        BY <3>2, <2>2
    <3> QED BY <3>1, <3>2, <1>5
  <2> QED BY <2>3, <2>4, <1>1 DEF Questions
<1>14. ClientIsKnown'
    BY <1>1 DEF IInv, ClientIsKnown
<1>15. AnswersAreFresh'
  <2> SUFFICES ASSUME NEW a \in acks, NEW r \in Openers, a.conn = client, a.done,
                      opener'[r] # None, opener'[r].id = a.id
               PROVE  ~opener'[r].due
      BY <1>1 DEF AnswersAreFresh
  <2>1. a.id <= nextID /\ a.id \in Nat
      BY <1>t, Typed DEF IInv, Questions
  <2>2. opener'[r] = opener[r]
      BY <2>1, <1>1, <1>4
  <2> QED BY <2>2 DEF IInv, AnswersAreFresh
<1>16. DaemonNeverWaits'
  <2> SUFFICES ASSUME opener'[Daemon] # None, opener'[Daemon].id > 0,
                      NEW q \in jobs', q.conn = link
               PROVE  q.id # opener'[Daemon].id
      BY <1>1 DEF DaemonNeverWaits
  <2>0. Daemon \in Openers
      BY DEF Openers
  <2>1. CASE p = Daemon
    <3>1. link # client
        BY <2>1, <1>6 DEF Hold, Exempt, IInv, ClientIsKnown
    <3>2. q \in jobs /\ link # 0
        BY <3>1, <1>5, <1>9
    <3> QED BY <3>1, <3>2 DEF IInv, NewLinkUnused
  <2>2. CASE p # Daemon
    <3>1. opener'[Daemon] = opener[Daemon]
        BY <2>0, <2>2, <1>4
    <3>2. CASE q \in jobs
        BY <3>1, <3>2 DEF IInv, DaemonNeverWaits
    <3>3. CASE q = new
      <4>1. opener[Daemon].id <= nextID /\ opener[Daemon].id \in Nat
          BY <2>0, <3>1, <1>t, Typed DEF IInv, Numbered, Open
      <4> QED BY <3>1, <3>3, <4>1, <1>1
    <3> QED BY <3>2, <3>3, <1>5
  <2> QED BY <2>1, <2>2
<1> QED BY <1>8, <1>10, <1>11, <1>12, <1>13, <1>14, <1>15, <1>16 DEF IInv
(* A refresh ends: the opens of its folder are due nothing any more.       *)
LEMMA RefreshedStep ==
    ASSUME IInv, NEW j \in jobs, Refreshed(j)
    PROVE  IInv'
<1>t. TypeOK
    BY DEF IInv
<1>1. /\ UpToDate({j.dir}) /\ Reply(j, TRUE) /\ running' = None
      /\ UNCHANGED <<marked, client, clientPid, reader, todo, nextID, link, conns, pid>>
    BY DEF Refreshed
<1>2. {j.dir} \in SUBSET Dirs
    BY <1>t, Typed
<1>3. /\ opener' \in [Openers -> Open \cup {None}] /\ behind' \subseteq Dirs
      /\ \A q \in Openers : Descends(q)
      /\ \A q \in Openers :
            opener'[q] # None /\ opener[q] # None /\ opener[q].dir = j.dir
            => ~opener'[q].due
    BY <1>t, <1>1, <1>2, UpToDateTyped
<1>4. /\ jobs' \subseteq Job /\ acks' \subseteq Ack
      /\ \A q \in jobs' : q \in jobs
      /\ \A a \in acks' : a \in acks \/ (FromJob(a, j) /\ a.done = TRUE)
    BY <1>t, <1>1, ReplyTyped
<1>5. TypeOK'
    BY <1>t, <1>1, <1>3, <1>4 DEF TypeOK
<1>6. /\ \A q \in jobs : q.id # 0 /\ q.conn # 0
      /\ \A a \in acks : a.id # 0
      /\ nextID \in Nat
    BY <1>t, Typed
<1>7. \A q \in Openers : opener'[q] # None /\ opener'[q].id # 0 =>
          /\ opener[q] # None /\ opener'[q].id = opener[q].id
          /\ opener'[q].dir = opener[q].dir /\ (opener'[q].due => opener[q].due)
    BY <1>3 DEF Descends
<1>8. Numbered'
  <2> SUFFICES ASSUME NEW p \in Openers, opener'[p] # None
               PROVE  opener'[p].id <= nextID
      BY <1>1 DEF Numbered
  <2> QED BY <1>6, <1>7 DEF IInv, Numbered
<1>9. Connections'
    BY <1>1, <1>4 DEF IInv, Connections, FromJob
<1>10. NewLinkUnused'
    BY <1>1, <1>4 DEF IInv, NewLinkUnused, FromJob
<1>11. Questions'
  <2>1. ASSUME NEW q \in jobs, q.conn = client
        PROVE  AskedFor(q)'
    <3>1. AskedFor(q)
        BY <2>1 DEF IInv, Questions
    <3> QED BY <3>1, <1>1, <1>6, <1>7 DEF AskedFor
  <2>2. ASSUME NEW a \in acks', a.conn = client
        PROVE  a.id <= nextID
    <3>1. CASE a \in acks
        BY <3>1, <2>2 DEF IInv, Questions
    <3>2. CASE FromJob(a, j)
        BY <3>2, <2>2 DEF IInv, Questions, AskedFor, FromJob
    <3> QED BY <3>1, <3>2, <1>4
  <2> QED BY <2>1, <2>2, <1>1, <1>4 DEF Questions
<1>12. ClientIsKnown'
    BY <1>1 DEF IInv, ClientIsKnown
<1>13. AnswersAreFresh'
  <2> SUFFICES ASSUME NEW a \in acks', NEW p \in Openers, a.conn = client, a.done,
                      opener'[p] # None, opener'[p].id = a.id
               PROVE  ~opener'[p].due
      BY <1>1 DEF AnswersAreFresh
  <2>1. a.id # 0
      BY <1>4, <1>6 DEF FromJob
  <2>2. /\ opener[p] # None /\ opener[p].id = a.id
        /\ opener'[p].dir = opener[p].dir /\ (opener'[p].due => opener[p].due)
      BY <2>1, <1>7
  <2>3. CASE a \in acks
      BY <2>2, <2>3 DEF IInv, AnswersAreFresh
  <2>4. CASE FromJob(a, j)
    <3>1. opener[p].dir = j.dir
        BY <2>2, <2>4 DEF IInv, Questions, AskedFor, FromJob
    <3> QED BY <3>1, <2>2, <1>3
  <2> QED BY <2>3, <2>4, <1>4
<1>14. DaemonNeverWaits'
  <2>0. Daemon \in Openers
      BY DEF Openers
  <2> SUFFICES ASSUME opener'[Daemon] # None, opener'[Daemon].id > 0,
                      NEW q \in jobs', q.conn = link
               PROVE  q.id # opener'[Daemon].id
      BY <1>1 DEF DaemonNeverWaits
  <2>1. opener'[Daemon].id # 0
      BY <1>6
  <2> QED BY <2>0, <2>1, <1>4, <1>7 DEF IInv, DaemonNeverWaits
<1> QED BY <1>5, <1>8, <1>9, <1>10, <1>11, <1>12, <1>13, <1>14 DEF IInv

(* Connections begin and end.                                              *)
LEMMA ConnectStep ==
    ASSUME IInv, Connect
    PROVE  IInv'
<1>t. TypeOK
    BY DEF IInv
<1>1. /\ link' = conns + 1 /\ conns' = conns + 1 /\ conns < MaxConn
      /\ UNCHANGED <<gate, acks, daemon, behind>>
    BY DEF Connect
<1>2. /\ \A q \in jobs : q.conn \in Nat /\ q.conn <= conns
      /\ \A a \in acks : a.conn \in Nat /\ a.conn <= conns
      /\ client \in Nat /\ client <= conns /\ conns \in Nat /\ MaxConn \in Nat
    BY <1>t, Typed DEF IInv, Connections
<1>3. TypeOK'
    BY <1>t, <1>1, <1>2 DEF TypeOK, gate, daemon
<1>4. \A q \in jobs : q.conn # link'
    BY <1>1, <1>2
<1>5. \A a \in acks : a.conn # link'
    BY <1>1, <1>2
<1>6. Numbered' /\ Questions' /\ AnswersAreFresh'
    BY <1>1 DEF IInv, Numbered, Questions, AskedFor, AnswersAreFresh, gate, daemon
<1>7. Connections'
    BY <1>1, <1>2 DEF Connections, gate, daemon
<1>8. NewLinkUnused' /\ DaemonNeverWaits'
    BY <1>1, <1>4, <1>5 DEF NewLinkUnused, DaemonNeverWaits, gate, daemon
<1>9. ClientIsKnown'
    BY <1>1, <1>2 DEF ClientIsKnown, gate, daemon
<1> QED BY <1>3, <1>6, <1>7, <1>8, <1>9 DEF IInv

LEMMA RegisterStep ==
    ASSUME IInv, Register
    PROVE  IInv'
<1>t. TypeOK
    BY DEF IInv
<1>1. /\ link # 0 /\ client = 0 /\ client' = link /\ clientPid' = pid
      /\ reader' = "marking"
      /\ UNCHANGED <<opener, marked, todo, nextID, wire, daemon, behind>>
    BY DEF Register
<1>2. TypeOK'
    BY <1>t, <1>1 DEF TypeOK, wire, daemon
<1>3. /\ \A q \in jobs : q.conn # link
      /\ \A a \in acks : a.conn # link
    BY <1>1 DEF IInv, NewLinkUnused
<1>4. Numbered' /\ Connections' /\ DaemonNeverWaits'
    BY <1>1 DEF IInv, Numbered, Connections, DaemonNeverWaits, wire, daemon
<1>5. Questions' /\ AnswersAreFresh' /\ NewLinkUnused' /\ ClientIsKnown'
    BY <1>1, <1>3 DEF Questions, AnswersAreFresh, NewLinkUnused, ClientIsKnown, wire,
       daemon
<1> QED BY <1>2, <1>4, <1>5 DEF IInv

LEMMA LeaveStep ==
    ASSUME IInv, Leave
    PROVE  IInv'
<1>t. TypeOK
    BY DEF IInv
<1>1. /\ client # link /\ client' = 0 /\ clientPid' = 0
      /\ marked' = FALSE /\ reader' = "none"
      /\ acks' = {a \in acks : a.conn # client}
      /\ UNCHANGED <<opener, todo, nextID, link, conns, daemon, behind>>
    BY DEF Leave
<1>b. MaxId \in Nat /\ MaxConn \in Nat /\ MaxPid \in Nat
    BY BoundsAssumption
<1>2. TypeOK'
  <2>1. acks' \subseteq Ack
      BY <1>t, <1>1 DEF TypeOK
  <2>2. client' \in 0 .. MaxConn /\ clientPid' \in 0 .. MaxPid
      BY <1>1, <1>b
  <2> QED BY <1>t, <1>1, <2>1, <2>2 DEF TypeOK, daemon
<1>3. /\ \A q \in jobs : q.conn # 0
      /\ \A a \in acks : a.conn # 0
      /\ conns \in Nat
    BY <1>t, Typed
<1>4. Numbered' /\ Connections' /\ DaemonNeverWaits' /\ ClientIsKnown'
    BY <1>1, <1>3 DEF IInv, Numbered, Connections, DaemonNeverWaits, ClientIsKnown, daemon
<1>5. Questions' /\ AnswersAreFresh'
  <2>1. /\ \A q \in jobs' : q.conn # client'
        /\ \A a \in acks' : a.conn # client'
      BY <1>1, <1>3 DEF daemon
  <2> QED BY <2>1 DEF Questions, AnswersAreFresh
<1>6. NewLinkUnused'
    BY <1>1 DEF IInv, NewLinkUnused, daemon
<1> QED BY <1>2, <1>4, <1>5, <1>6 DEF IInv

LEMMA EndSteps ==
    ASSUME IInv, RefuseClient \/ GateEnds \/ DaemonStarts
    PROVE  IInv'
<1>t. TypeOK
    BY DEF IInv
<1>0. /\ \A q \in jobs : q.conn # 0
      /\ \A a \in acks : a.conn # 0
      /\ conns \in Nat
    BY <1>t, Typed
<1>b. MaxId \in Nat /\ MaxConn \in Nat /\ MaxPid \in Nat
    BY BoundsAssumption
<1>1. CASE RefuseClient
  <2>1. /\ client # 0 /\ link' = 0
        /\ UNCHANGED <<gate, conns, acks, daemon, behind>>
      BY <1>1 DEF RefuseClient
  <2>2. TypeOK'
      BY <1>t, <2>1, BoundsAssumption DEF TypeOK, gate, daemon
  <2>3. Numbered' /\ Connections' /\ Questions' /\ AnswersAreFresh'
      BY <2>1, <1>0 DEF IInv, Numbered, Connections, Questions, AskedFor,
         AnswersAreFresh, gate, daemon
  <2>4. NewLinkUnused' /\ ClientIsKnown' /\ DaemonNeverWaits'
      BY <2>1, <1>0 DEF NewLinkUnused, ClientIsKnown, DaemonNeverWaits, gate, daemon
  <2> QED BY <2>2, <2>3, <2>4 DEF IInv
<1>2. CASE GateEnds
  <2>1. /\ opener' = [p \in Openers |-> None] /\ marked' = FALSE
        /\ client' = 0 /\ clientPid' = 0 /\ reader' = "none" /\ todo' = {}
        /\ nextID' = 0 /\ link' = 0 /\ acks' = {} /\ jobs' \subseteq jobs
        /\ UNCHANGED <<conns, pid, running, behind>>
      BY <1>2 DEF GateEnds
  <2>2. TypeOK'
    <3>1. /\ client' \in 0 .. MaxConn /\ clientPid' \in 0 .. MaxPid
          /\ link' \in 0 .. MaxConn /\ nextID' \in 0 .. MaxId
        BY <2>1, <1>b
    <3>2. opener' \in [Openers -> Open \cup {None}]
        BY <2>1
    <3> QED BY <1>t, <2>1, <3>1, <3>2 DEF TypeOK
  <2>3. Numbered' /\ Connections' /\ AnswersAreFresh'
      BY <2>1, <1>0 DEF IInv, Numbered, Connections, AnswersAreFresh
  <2>4. Questions' /\ NewLinkUnused' /\ ClientIsKnown' /\ DaemonNeverWaits'
      BY <2>1, <1>0 DEF Questions, NewLinkUnused, ClientIsKnown, DaemonNeverWaits
  <2> QED BY <2>2, <2>3, <2>4 DEF IInv
<1>3. CASE DaemonStarts
  <2>1. /\ pid' = pid + 1 /\ pid < MaxPid /\ link' = 0 /\ jobs' = {} /\ running' = None
        /\ opener' = [opener EXCEPT ![Daemon] = None]
        /\ UNCHANGED <<marked, client, clientPid, reader, todo, nextID, conns, acks,
                       behind>>
      BY <1>3 DEF DaemonStarts
  <2>2. TypeOK'
    <3>1. pid' \in 0 .. MaxPid /\ link' \in 0 .. MaxConn
        BY <1>t, <2>1, <1>b DEF TypeOK
    <3>2. opener' \in [Openers -> Open \cup {None}]
        BY <1>t, <2>1 DEF TypeOK
    <3> QED BY <1>t, <2>1, <3>1, <3>2 DEF TypeOK
  <2>3. /\ \A p \in Openers : opener'[p] = opener[p] \/ opener'[p] = None
      BY <1>t, <2>1 DEF TypeOK
  <2>4. Numbered' /\ Connections' /\ Questions' /\ AnswersAreFresh'
      BY <2>1, <2>3, <1>0 DEF IInv, Numbered, Connections, Questions, AnswersAreFresh
  <2>5. NewLinkUnused' /\ ClientIsKnown' /\ DaemonNeverWaits'
      BY <2>1, <1>0 DEF NewLinkUnused, ClientIsKnown, DaemonNeverWaits
  <2> QED BY <2>2, <2>4, <2>5 DEF IInv
<1> QED BY <1>1, <1>2, <1>3

-----------------------------------------------------------------------------
(* All handlers of gate/server.go and daemon/gate.go keep types, numbers   *)
(* and connections as IInv says.                                           *)
THEOREM InvHolds == Spec => []IInv
<1>1. Init => IInv
  <2> SUFFICES ASSUME Init PROVE IInv
      OBVIOUS
  <2>1. TypeOK
    <3>1. 0 \in 0 .. MaxId /\ 0 \in 0 .. MaxConn /\ 0 \in 0 .. MaxPid
        BY BoundsAssumption
    <3>2. opener \in [Openers -> Open \cup {None}]
        BY DEF Init
    <3> QED BY <3>1, <3>2 DEF Init, TypeOK
  <2>2. \A p \in Openers : opener[p] = None
      BY DEF Init
  <2>3. Numbered /\ Connections /\ NewLinkUnused /\ Questions /\ ClientIsKnown
      BY <2>2 DEF Init, Numbered, Connections, NewLinkUnused, Questions, ClientIsKnown
  <2>4. AnswersAreFresh /\ DaemonNeverWaits
      BY <2>2 DEF Init, AnswersAreFresh, DaemonNeverWaits
  <2> QED BY <2>1, <2>3, <2>4 DEF IInv
<1>2. IInv /\ [Next]_vars => IInv'
  <2> SUFFICES ASSUME IInv, [Next]_vars PROVE IInv'
      OBVIOUS
  <2>1. ASSUME NEW p \in Users, NEW d \in Dirs, UserOpens(p, d) PROVE IInv'
      BY <2>1, KernelSteps
  <2>2. ASSUME NEW d \in Dirs, DaemonOpens(d) PROVE IInv'
      BY <2>2, KernelSteps
  <2>3. ASSUME NEW p \in Openers, Decide(p) \/ Deadline(p) PROVE IInv'
      BY <2>3, ReleaseSteps, HoldStep DEF Decide
  <2>4. CASE Register \/ RefuseClient \/ MarkTree \/ Leave \/ GateEnds
      BY <2>4, RegisterStep, EndSteps, ReaderSteps, LeaveStep
  <2>5. ASSUME NEW a \in acks, ReadAck(a) PROVE IInv'
      BY <2>5, AckStep
  <2>6. CASE Rescan \/ Walk
    <3>1. ASSUME NEW d \in Dirs, WalkOpens(d) PROVE IInv'
        BY <3>1, KernelSteps
    <3> QED BY <2>6, <3>1, ReaderSteps DEF Walk
  <2>7. CASE DaemonStarts \/ Connect
      BY <2>7, EndSteps, ConnectStep
  <2>8. ASSUME NEW j \in jobs, JobStep(j) PROVE IInv'
      BY <2>8, AnswerSteps, FlightSteps, RefreshedStep DEF JobStep
  <2>9. ASSUME NEW dirs \in SUBSET Dirs, Poll(dirs) PROVE IInv'
      BY <2>9, PollStep
  <2>10. ASSUME NEW d \in Dirs, Change(d) PROVE IInv'
      BY <2>10, ReaderSteps
  <2>11. CASE UNCHANGED vars
    <3>1. TypeOK'
        BY <2>11 DEF IInv, TypeOK, vars, gate, wire, daemon
    <3>2. Quiet
        BY <2>11 DEF Quiet, Descends, FromJob, vars, gate, wire, daemon
    <3> QED BY <3>1, <3>2, QuietKeeps
  <2>12. CASE GateStep
      BY <2>12, <2>3, <2>4, <2>5, <2>6 DEF GateStep
  <2>13. CASE DaemonStep
      BY <2>13, <2>7, <2>8, <2>9 DEF DaemonStep
  <2> QED BY <2>1, <2>2, <2>10, <2>11, <2>12, <2>13 DEF Next
<1> QED BY <1>1, <1>2, PTL DEF Spec

(* The daemon is never asked about an open of its own (decide), however    *)
(* often either program ends.                                              *)
THEOREM NoSelfDeadlock == Spec => []DaemonNeverWaits
<1>1. IInv => DaemonNeverWaits
    BY DEF IInv
<1> QED BY <1>1, InvHolds, PTL

(* An answer that follows a refresh finds its listing fresh                *)
(* (refreshForListing, handleClient): no number or connection is taken for *)
(* another.                                                                *)
THEOREM RefreshesAreSeen == Spec => []AnswersAreFresh
<1>1. IInv => AnswersAreFresh
    BY DEF IInv
<1> QED BY <1>1, InvHolds, PTL
=============================================================================
