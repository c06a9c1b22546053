------------------------------- MODULE Daemon -------------------------------
(***************************************************************************)
(* The scheduling of passes in internal/daemon: the wake channel and its   *)
(* collapsing triggers, the requests of interactive clients, pause and     *)
(* resume, Proton's rate limit, and the loop that runs passes.             *)
(*                                                                         *)
(* What a pass does is Mirror; here it takes in the changes made before it *)
(* began, when it succeeds.                                                *)
(***************************************************************************)
EXTENDS Naturals, Sequences

CONSTANTS
    Clients,    \* calls of RequestSync
    None,       \* no client
    WakeSize,   \* capacity of Daemon.wake (64)
    ReqSize,    \* capacity of Daemon.syncReq (16)
    Hindrances  \* what may go wrong: a subset of {"failure", "limit"}

ASSUME NoneAssumption == None \notin Clients
ASSUME SizeAssumption == WakeSize \in Nat \ {0} /\ ReqSize \in Nat \ {0}
ASSUME HindrancesAssumption == Hindrances \subseteq {"failure", "limit"}

VARIABLES
    state,    \* Daemon.state
    wanted,   \* the user's last word: "running" or "paused"
    limited,  \* does SharedLimiter hold requests back?
    wake,     \* Daemon.wake
    queue,    \* Daemon.syncReq
    loop,     \* the goroutine of syncLoop
    client,   \* where each call of RequestSync is
    owed,     \* has the watcher a burst of writes it has not reported yet?
    pending   \* where there are changes no pass has taken in

user == <<wanted, client>>
vars == <<state, wanted, limited, wake, queue, loop, client, owed, pending>>

(* Only runSync's test for TriggerManual tells triggers apart.             *)
Triggers == {"auto", "manual"}
Sides    == {"local", "remote"}

(* A request: SyncBoth, or the pull alone (down_only, full).               *)
Request == [from : Clients, pullOnly : BOOLEAN]

(* Taken from a channel; past runSync's checks; in the pass.               *)
Idle == [at |-> "select", trigger |-> "auto", from |-> None,
         pullOnly |-> FALSE, covers |-> {}]

Loop == [at : {"select", "taken", "ready", "running"}, trigger : Triggers,
         from : Clients \cup {None}, pullOnly : BOOLEAN, covers : SUBSET Sides]

TypeOK ==
    /\ state \in {"idle", "syncing", "error", "paused"}
    /\ wanted \in {"running", "paused"}
    /\ limited \in BOOLEAN
    /\ wake \in Seq(Triggers) /\ Len(wake) <= WakeSize
    /\ queue \in Seq(Request) /\ Len(queue) <= ReqSize
    /\ loop \in Loop
    /\ client \in [Clients -> {"away", "asking", "waiting", "refused", "answered"}]
    /\ owed \in BOOLEAN
    /\ pending \subseteq Sides

(* Run triggers the first pass.                                            *)
Init ==
    /\ state = "idle" /\ wanted = "running"
    /\ limited = FALSE
    /\ wake = <<"auto">> /\ queue = <<>>
    /\ loop = Idle
    /\ client = [c \in Clients |-> "away"]
    /\ owed = FALSE
    /\ pending = Sides

-----------------------------------------------------------------------------
(* Trigger: nothing to add to a full channel.                              *)
Trigger(t) == wake' = IF Len(wake) < WakeSize THEN Append(wake, t) ELSE wake

(* Work appears: the user writes, or another device does.                  *)
LocalChange ==
    /\ pending' = pending \cup {"local"}
    /\ owed' = TRUE
    /\ UNCHANGED <<state, user, limited, wake, queue, loop>>

RemoteChange ==
    /\ pending' = pending \cup {"remote"}
    /\ UNCHANGED <<state, user, limited, wake, queue, loop, owed>>

(* The watcher's debounce fires.                                           *)
WatcherFires ==
    /\ owed
    /\ owed' = FALSE
    /\ Trigger("auto")
    /\ UNCHANGED <<state, user, limited, queue, loop, pending>>

(* The watcher sees a directory listed, or the machine wakes from sleep.   *)
Hint ==
    /\ Trigger("auto")
    /\ UNCHANGED <<state, user, limited, queue, loop, owed, pending>>

(* Mutant: the poller waits for the daemon to be idle.                     *)
PollTickWhenIdle ==
    /\ ~limited /\ state = "idle"
    /\ Trigger("auto")
    /\ UNCHANGED <<state, user, limited, queue, loop, owed, pending>>

(* pollLoop, one tick of its timer; it rearms whatever it finds.           *)
PollTick ==
    /\ ~limited /\ state # "paused"
    /\ Trigger("auto")
    /\ UNCHANGED <<state, user, limited, queue, loop, owed, pending>>

-----------------------------------------------------------------------------
(* syncLoop takes one trigger, and drainWake throws away the others.       *)
TakeWake ==
    /\ loop.at = "select"
    /\ wake # <<>>
    /\ loop' = [Idle EXCEPT !.at = "taken", !.trigger = Head(wake)]
    /\ wake' = <<>>
    /\ UNCHANGED <<state, user, limited, queue, owed, pending>>

(* Mutant: requests come after triggers.                                   *)
TakeRequestLast ==
    /\ loop.at = "select"
    /\ queue # <<>> /\ wake = <<>>
    /\ loop' = [Idle EXCEPT !.at = "taken", !.trigger = "manual",
                            !.from = Head(queue).from,
                            !.pullOnly = Head(queue).pullOnly]
    /\ queue' = Tail(queue)
    /\ UNCHANGED <<state, user, limited, wake, owed, pending>>

TakeRequest ==
    /\ loop.at = "select"
    /\ queue # <<>>
    /\ loop' = [Idle EXCEPT !.at = "taken", !.trigger = "manual",
                            !.from = Head(queue).from,
                            !.pullOnly = Head(queue).pullOnly]
    /\ queue' = Tail(queue)
    /\ UNCHANGED <<state, user, limited, wake, owed, pending>>

(* runSync's early returns.                                                *)
Held == state = "paused" \/ limited

Skip ==
    /\ loop.at = "taken"
    /\ Held /\ loop.trigger # "manual"
    /\ loop' = Idle
    /\ UNCHANGED <<state, user, limited, wake, queue, owed, pending>>

Admit ==
    /\ loop.at = "taken"
    /\ ~Held \/ loop.trigger = "manual"
    /\ loop' = [loop EXCEPT !.at = "ready"]
    /\ UNCHANGED <<state, user, limited, wake, queue, owed, pending>>

(* setState, and the pass begins: it will take in what there is by now.    *)
Begin ==
    /\ loop.at = "ready"
    /\ state' = "syncing"
    /\ LET covers == pending \cap (IF loop.pullOnly THEN {"remote"} ELSE Sides) IN
          /\ loop' = [loop EXCEPT !.at = "running", !.covers = covers]
          /\ pending' = pending \ covers
    /\ UNCHANGED <<user, limited, wake, queue, owed>>

(* Mutant: a client is not told when the user paused during its pass.      *)
AnswerOnlyIdle ==
    /\ client' = IF loop.from = None \/ state = "paused" THEN client
                 ELSE [client EXCEPT ![loop.from] = "answered"]
    /\ loop' = Idle
    /\ UNCHANGED wake

(* The outcome goes to the client that asked.                              *)
Answer ==
    /\ client' = IF loop.from = None THEN client
                 ELSE [client EXCEPT ![loop.from] = "answered"]
    /\ loop' = Idle
    /\ UNCHANGED wake

(* finishSync sets the state, whatever it has become meanwhile.            *)
PassSucceeds ==
    /\ loop.at = "running"
    /\ state' = "idle"
    /\ Answer
    /\ UNCHANGED <<wanted, limited, queue, owed, pending>>

(* It fails, Proton's 429 included: its changes are still to be taken in.  *)
PassFails ==
    /\ loop.at = "running"
    /\ "failure" \in Hindrances
    /\ state' = "error"
    /\ Answer
    /\ pending' = pending \cup loop.covers
    /\ limited' \in {limited} \cup {TRUE : h \in Hindrances \cap {"limit"}}
    /\ UNCHANGED <<wanted, queue, owed>>

CooldownEnds ==
    /\ limited
    /\ limited' = FALSE
    /\ UNCHANGED <<state, user, wake, queue, loop, owed, pending>>

-----------------------------------------------------------------------------
(* RequestSync: refused while paused, else a place in the channel.         *)
Ask(c) ==
    /\ client[c] = "away"
    /\ client' = [client EXCEPT ![c] = IF state = "paused" THEN "refused" ELSE "asking"]
    /\ UNCHANGED <<state, wanted, limited, wake, queue, loop, owed, pending>>

Send(c, pullOnly) ==
    /\ client[c] = "asking"
    /\ Len(queue) < ReqSize
    /\ queue' = Append(queue, [from |-> c, pullOnly |-> pullOnly])
    /\ client' = [client EXCEPT ![c] = "waiting"]
    /\ UNCHANGED <<state, wanted, limited, wake, loop, owed, pending>>

Pause ==
    /\ state' = "paused"
    /\ wanted' = "paused"
    /\ UNCHANGED <<client, limited, wake, queue, loop, owed, pending>>

(* Mutant: resuming asks for no pass.                                      *)
ResumeSilently ==
    /\ state' = IF state = "paused" THEN "idle" ELSE state
    /\ wanted' = "running"
    /\ UNCHANGED <<client, limited, wake, queue, loop, owed, pending>>

Resume ==
    /\ state' = IF state = "paused" THEN "idle" ELSE state
    /\ wanted' = "running"
    /\ Trigger("manual")
    /\ UNCHANGED <<client, limited, queue, loop, owed, pending>>

-----------------------------------------------------------------------------
Work == LocalChange \/ RemoteChange

(* What syncLoop's goroutine does by itself.                               *)
LoopStep == Skip \/ Admit \/ Begin \/ PassSucceeds \/ PassFails

Next ==
    \/ Work \/ WatcherFires \/ PollTick \/ Hint
    \/ TakeWake \/ TakeRequest \/ LoopStep
    \/ CooldownEnds
    \/ \E c \in Clients : Ask(c) \/ \E b \in BOOLEAN : Send(c, b)
    \/ Pause \/ Resume

Spec == Init /\ [][Next]_vars

(* Go runs every goroutine, its select picks among ready channels at       *)
(* random, and a pass ends.  Nothing is said of the debounce: each change  *)
(* restarts it, so that it may never fire while the user writes on.        *)
Scheduling ==
    /\ WF_vars(LoopStep)
    /\ SF_vars(TakeWake) /\ SF_vars(TakeRequest)
    /\ \A c \in Clients : SF_vars(\E b \in BOOLEAN : Send(c, b))

FairSpec == Spec /\ Scheduling

-----------------------------------------------------------------------------
(* No request is forgotten: a client that waits is in the channel or is    *)
(* the one the loop works for (syncLoop answers every request it takes).   *)
NoRequestForgotten ==
    \A c \in Clients : client[c] = "waiting" =>
        loop.from = c \/ \E i \in 1..Len(queue) : queue[i].from = c

(* Every request is answered, however many triggers compete with it and    *)
(* whether or not the user pauses or Proton limits the rate (RequestSync   *)
(* waits without a timeout).                                               *)
RequestsAnswered ==
    \A c \in Clients : client[c] \in {"asking", "waiting"} ~> client[c] = "answered"

(* The loop with its channels implements the counter with one line of      *)
(* Serving: requests are taken in the order in which they were sent, one   *)
(* at a time and each once, and whoever is worked for is told, whatever    *)
(* the pass came to.                                                       *)
Counter == INSTANCE Serving WITH
    Nobody <- None,
    line   <- [i \in 1..Len(queue) |-> queue[i].from],
    busy   <- loop.at # "select",
    for    <- loop.from,
    served <- {c \in Clients : client[c] = "answered"}

ImplementsServing == Counter!Spec

FailuresStop == <>[][~PassFails]_vars
Unhindered   == <>[](wanted = "running" /\ ~limited)

(* The user stops writing, and then the debounce fires.                    *)
WritesStop    == <>[][~LocalChange]_vars
DebounceFires == WF_vars(WatcherFires)

(* A pass takes in every change, with the poller alone for a signal:       *)
(* triggers may be dropped by a full channel, drained, or skipped while    *)
(* paused, limited or failing.                                             *)
EverythingSynced ==
    WF_vars(PollTick) /\ FailuresStop /\ Unhindered =>
        \A s \in Sides : s \in pending ~> s \notin pending

(* Without the poller too, once the user stops writing (debounceLoop       *)
(* restarts its timer at every change, so that nothing is promised until   *)
(* then), a pass takes in what was written, after the last resume at the   *)
(* latest, unless one fails or the rate limit holds it back: no trigger is *)
(* lost that no later pass makes up for (Trigger, drainWake, Resume).      *)
ResumeCatchesUp ==
    WritesStop /\ DebounceFires /\ Unhindered =>
        (owed ~> "local" \notin pending \/ state = "error" \/ limited)

(* "Pause stops automatic syncing" (daemon.go:478): between passes, the    *)
(* daemon the user paused is still paused.  Refuted (README, section 5):   *)
(* a pass that was running when the pause came ends it.                    *)
PauseHolds == wanted = "paused" /\ loop.at = "select" => state = "paused"
=============================================================================
