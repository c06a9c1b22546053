---------------------------- MODULE DaemonProofs ----------------------------
(***************************************************************************)
(* Every request of a client is kept until it is answered, for any number  *)
(* of clients and any capacity of the two channels.                        *)
(*                                                                         *)
(* NoRequestForgotten is not inductive: Skip forgets the request the loop  *)
(* holds unless its trigger is the manual one, and taking the next piece   *)
(* of work forgets the one before unless syncLoop has answered it.         *)
(***************************************************************************)
EXTENDS Daemon, SequenceTheorems, TLAPS

(* The loop works for a client only between the two channels, and never    *)
(* under a trigger that pause or the rate limit turns away.                *)
LoopKeepsFaith ==
    loop.from # None => loop.trigger = "manual" /\ loop.at # "select"

IInv == TypeOK /\ LoopKeepsFaith /\ NoRequestForgotten

Quiet == UNCHANGED <<client, queue, loop>>

(* The daemon starts with no request to keep.                              *)
LEMMA InitKeeps == Init => IInv
<1> SUFFICES ASSUME Init PROVE IInv
    OBVIOUS
<1>1. wake \in Seq(Triggers) /\ Len(wake) <= WakeSize /\ queue \in Seq(Request) /\ Len(queue) <= ReqSize
    BY SizeAssumption DEF Init, Triggers
<1>2. TypeOK
    BY <1>1 DEF Init, TypeOK, Loop, Idle, Triggers, Sides
<1>3. LoopKeepsFaith
    BY DEF Init, LoopKeepsFaith, Idle
<1>4. NoRequestForgotten
    BY DEF Init, NoRequestForgotten
<1> QED BY <1>2, <1>3, <1>4 DEF IInv

(* Trigger leaves the wake channel within its capacity.                    *)
LEMMA TriggerFits ==
    ASSUME TypeOK, NEW t \in Triggers, Trigger(t)
    PROVE  wake' \in Seq(Triggers) /\ Len(wake') <= WakeSize
BY SizeAssumption DEF TypeOK, Trigger

(* A step that leaves the clients, their channel and the loop alone.       *)
LEMMA QuietKeeps ==
    ASSUME IInv, Quiet, TypeOK'
    PROVE  IInv'
BY DEF IInv, Quiet, LoopKeepsFaith, NoRequestForgotten

(* TypeOK is preserved by every step.                                      *)
LEMMA TypeStep == TypeOK /\ [Next]_vars => TypeOK'
<1> SUFFICES ASSUME TypeOK, [Next]_vars PROVE TypeOK'
    OBVIOUS
<1>a. "auto" \in Triggers /\ "manual" \in Triggers
    BY DEF Triggers
<1>i. Idle \in Loop
    BY DEF Idle, Loop, Triggers, Sides
<1>1. CASE LocalChange
    BY <1>1 DEF TypeOK, LocalChange, user, Sides
<1>2. CASE RemoteChange
    BY <1>2 DEF TypeOK, RemoteChange, user, Sides
<1>3. CASE WatcherFires
    BY <1>3, <1>a, TriggerFits DEF TypeOK, WatcherFires, user
<1>4. CASE PollTick
    BY <1>4, <1>a, TriggerFits DEF TypeOK, PollTick, user
<1>5. CASE TakeWake
  <2>1. Head(wake) \in Triggers
      BY <1>5 DEF TypeOK, TakeWake
  <2>2. loop' \in Loop
      BY <1>5, <2>1 DEF TakeWake, Idle, Loop, Sides
  <2>3. wake' \in Seq(Triggers) /\ Len(wake') <= WakeSize
      BY <1>5, SizeAssumption DEF TakeWake
  <2> QED BY <1>5, <2>2, <2>3 DEF TypeOK, TakeWake, user
<1>6. CASE TakeRequest
  <2>1. Head(queue) \in Request /\ Tail(queue) \in Seq(Request) /\ Len(Tail(queue)) <= ReqSize
      BY <1>6, SizeAssumption DEF TypeOK, TakeRequest
  <2>2. loop' \in Loop
      BY <1>6, <2>1, <1>a DEF TakeRequest, Idle, Loop, Sides, Request
  <2> QED BY <1>6, <2>1, <2>2 DEF TypeOK, TakeRequest, user
<1>7. CASE Skip
    BY <1>7, <1>i DEF TypeOK, Skip, user
<1>8. CASE Admit
    BY <1>8 DEF TypeOK, Admit, user, Loop
<1>9. CASE Begin
    BY <1>9 DEF TypeOK, Begin, user, Loop
<1>10. CASE PassSucceeds
    BY <1>10, <1>i DEF TypeOK, PassSucceeds, Answer
<1>11. CASE PassFails
  <2>1. loop.covers \subseteq Sides
      BY DEF TypeOK, Loop
  <2>2. limited' \in BOOLEAN
      BY <1>11 DEF TypeOK, PassFails
  <2> QED BY <1>11, <1>i, <2>1, <2>2 DEF TypeOK, PassFails, Answer
<1>12. CASE CooldownEnds
    BY <1>12 DEF TypeOK, CooldownEnds, user
<1>13. ASSUME NEW c \in Clients, Ask(c) PROVE TypeOK'
    BY <1>13 DEF TypeOK, Ask
<1>14. ASSUME NEW c \in Clients, NEW b \in BOOLEAN, Send(c, b) PROVE TypeOK'
  <2>1. [from |-> c, pullOnly |-> b] \in Request
      BY DEF Request
  <2>2. queue' \in Seq(Request) /\ Len(queue') <= ReqSize
      BY <1>14, <2>1, SizeAssumption DEF TypeOK, Send
  <2> QED BY <1>14, <2>2 DEF TypeOK, Send
<1>15. CASE Pause
    BY <1>15 DEF TypeOK, Pause
<1>16. CASE Resume
    BY <1>16, <1>a, TriggerFits DEF TypeOK, Resume
<1>17. CASE Hint
    BY <1>17, <1>a, TriggerFits DEF TypeOK, Hint, user
<1>18. CASE UNCHANGED vars
    BY <1>18 DEF TypeOK, vars, user
<1> QED
    BY <1>1, <1>2, <1>3, <1>4, <1>5, <1>6, <1>7, <1>8, <1>9, <1>10, <1>11, <1>12,
       <1>13, <1>14, <1>15, <1>16, <1>17, <1>18 DEF Next, Work, LoopStep

(* Answering the request the loop holds, and taking no other with it.      *)
LEMMA AnswerKeeps ==
    ASSUME IInv, Answer, UNCHANGED queue, TypeOK'
    PROVE  IInv'
<1>1. loop' = Idle /\ Idle.from = None
    BY DEF Answer, Idle
<1>2. ASSUME NEW c \in Clients, client'[c] = "waiting"
      PROVE  \E i \in 1..Len(queue) : queue[i].from = c
    BY <1>2, NoneAssumption DEF IInv, NoRequestForgotten, Answer, TypeOK
<1> QED BY <1>1, <1>2 DEF IInv, LoopKeepsFaith, NoRequestForgotten

(* Every step keeps the requests.                                          *)
LEMMA StepKeeps == IInv /\ [Next]_vars => IInv'
<1> SUFFICES ASSUME IInv, [Next]_vars PROVE IInv'
    OBVIOUS
<1>t. TypeOK'
    BY TypeStep DEF IInv
<1>q. CASE Quiet
    BY <1>q, <1>t, QuietKeeps
<1>1. CASE TakeWake
  <2>1. loop'.from = None /\ UNCHANGED <<client, queue>>
      BY <1>1 DEF TakeWake, Idle, user
  <2>2. loop.from = None
      BY <1>1 DEF TakeWake, IInv, LoopKeepsFaith
  <2> QED BY <1>t, <2>1, <2>2, NoneAssumption DEF IInv, LoopKeepsFaith, NoRequestForgotten
<1>2. CASE TakeRequest
  <2>1. loop'.from = Head(queue).from /\ loop'.trigger = "manual" /\ loop'.at = "taken"
      BY <1>2 DEF TakeRequest, Idle
  <2>2. loop.from = None
      BY <1>2 DEF TakeRequest, IInv, LoopKeepsFaith
  <2>3. ASSUME NEW c \in Clients, client'[c] = "waiting"
        PROVE  loop'.from = c \/ \E i \in 1..Len(queue') : queue'[i].from = c
    <3>1. client[c] = "waiting"
        BY <1>2, <2>3 DEF TakeRequest, user
    <3>2. PICK i \in 1..Len(queue) : queue[i].from = c
        BY <3>1, <2>2, NoneAssumption DEF IInv, NoRequestForgotten
    <3>3. CASE i = 1
        BY <3>2, <3>3, <2>1, <1>2 DEF TakeRequest, IInv, TypeOK
    <3>4. CASE i # 1
      <4>1. i - 1 \in 1..Len(queue') /\ queue'[i - 1] = queue[i]
          BY <3>4, <1>2 DEF TakeRequest, IInv, TypeOK
      <4> QED BY <4>1, <3>2
    <3> QED BY <3>3, <3>4
  <2> QED BY <1>t, <2>1, <2>3 DEF IInv, LoopKeepsFaith, NoRequestForgotten
<1>3. CASE Skip
  <2>1. loop.from = None
      BY <1>3 DEF Skip, IInv, LoopKeepsFaith
  <2>2. loop'.from = None /\ UNCHANGED <<client, queue>>
      BY <1>3 DEF Skip, Idle, user
  <2> QED BY <1>t, <2>1, <2>2 DEF IInv, LoopKeepsFaith, NoRequestForgotten
<1>4. CASE Admit \/ Begin
  <2>1. loop'.from = loop.from /\ loop'.trigger = loop.trigger /\ loop'.at # "select"
      BY <1>4 DEF Admit, Begin, IInv, TypeOK, Loop
  <2>2. UNCHANGED <<client, queue>>
      BY <1>4 DEF Admit, Begin, user
  <2> QED BY <1>t, <2>1, <2>2 DEF IInv, LoopKeepsFaith, NoRequestForgotten
<1>5. CASE PassSucceeds \/ PassFails
    BY <1>5, <1>t, AnswerKeeps DEF PassSucceeds, PassFails
<1>6. ASSUME NEW c \in Clients, Ask(c) PROVE IInv'
  <2>1. \A d \in Clients : client'[d] = "waiting" => client[d] = "waiting"
      BY <1>6 DEF Ask, IInv, TypeOK
  <2> QED BY <1>6, <1>t, <2>1 DEF Ask, IInv, LoopKeepsFaith, NoRequestForgotten
<1>7. ASSUME NEW c \in Clients, NEW b \in BOOLEAN, Send(c, b) PROVE IInv'
  <2>1. Len(queue') = Len(queue) + 1 /\ queue'[Len(queue')].from = c
        /\ \A i \in 1..Len(queue) : queue'[i] = queue[i]
      BY <1>7 DEF Send, IInv, TypeOK
  <2>2. \A d \in Clients \ {c} : client'[d] = client[d]
      BY <1>7 DEF Send, IInv, TypeOK
  <2>3. loop' = loop
      BY <1>7 DEF Send
  <2>4. Len(queue) \in Nat
      BY DEF IInv, TypeOK
  <2>5. ASSUME NEW d \in Clients, client'[d] = "waiting"
        PROVE  loop'.from = d \/ \E i \in 1..Len(queue') : queue'[i].from = d
    <3>1. CASE d = c
        BY <3>1, <2>1, <2>4
    <3>2. CASE d # c
        BY <3>2, <2>1, <2>2, <2>3, <2>4, <2>5 DEF IInv, NoRequestForgotten
    <3> QED BY <3>1, <3>2
  <2> QED BY <1>t, <2>3, <2>5 DEF IInv, LoopKeepsFaith, NoRequestForgotten
<1>8. CASE LocalChange \/ RemoteChange \/ WatcherFires \/ PollTick \/ Hint \/ CooldownEnds
           \/ Pause \/ Resume \/ UNCHANGED vars
    BY <1>8, <1>q DEF Quiet, LocalChange, RemoteChange, WatcherFires, PollTick, Hint,
       CooldownEnds, Pause, Resume, vars, user
<1> QED
    BY <1>1, <1>2, <1>3, <1>4, <1>5, <1>6, <1>7, <1>8 DEF Next, Work, LoopStep

(* No request is forgotten: whatever competes with it, a call of           *)
(* RequestSync that waits is queued or is being worked for, so that the    *)
(* loop's next answers reach it (syncLoop, runSync).                       *)
THEOREM RequestsKept == Spec => []NoRequestForgotten
<1>1. IInv => NoRequestForgotten
    BY DEF IInv
<1> QED BY <1>1, InitKeeps, StepKeeps, PTL DEF Spec

-----------------------------------------------------------------------------
(* The refinement of Serving.  Joining the line a first time needs to know *)
(* that a client that has yet to send its request has none in the channel, *)
(* and being told once that nobody is there twice.                         *)

From(i) == queue[i].from

OnePlaceEach ==
    /\ \A i \in 1..Len(queue) : client[From(i)] = "waiting" /\ From(i) # loop.from
    /\ \A i, j \in 1..Len(queue) : From(i) = From(j) => i = j
    /\ loop.from # None => client[loop.from] = "waiting"
    /\ loop.at = "select" => loop.from = None

RInv == TypeOK /\ LoopKeepsFaith /\ OnePlaceEach

Line == [i \in 1..Len(queue) |-> queue[i].from]

(* Steps of the others neither move a client nor its request.              *)
LEMMA QuietKeepsPlaces ==
    ASSUME RInv, Quiet, TypeOK'
    PROVE  RInv'
<1>1. client' = client /\ queue' = queue /\ loop' = loop
    BY DEF Quiet
<1>2. LoopKeepsFaith' /\ OnePlaceEach'
    BY <1>1 DEF RInv, LoopKeepsFaith, OnePlaceEach, From
<1> QED BY <1>2 DEF RInv

(* The entries of the channel name clients.                                *)
LEMMA QueueTypes ==
    ASSUME TypeOK
    PROVE  /\ Len(queue) \in Nat
           /\ \A i \in 1..Len(queue) : From(i) \in Clients /\ queue[i] \in Request
           /\ loop.from \in Clients \cup {None}
<1>1. queue \in Seq(Request) /\ loop \in Loop
    BY DEF TypeOK
<1>2. Len(queue) \in Nat /\ \A i \in 1..Len(queue) : queue[i] \in Request
    BY <1>1
<1>3. \A r \in Request : r.from \in Clients
    BY DEF Request
<1>4. loop.from \in Clients \cup {None}
    BY <1>1 DEF Loop
<1> QED BY <1>2, <1>3, <1>4 DEF From

(* Taking the first request leaves the places of the others.               *)
LEMMA TakeKeepsPlaces ==
    ASSUME RInv, TakeRequest, TypeOK'
    PROVE  RInv'
<1>1. loop'.from = From(1) /\ loop'.trigger = "manual" /\ loop'.at = "taken"
    BY DEF TakeRequest, Idle, From
<1>2. Len(queue) \in Nat \ {0} /\ Len(queue') = Len(queue) - 1
      /\ \A i \in 1..Len(queue') : i + 1 \in 1..Len(queue) /\ queue'[i] = queue[i + 1]
    BY DEF TakeRequest, RInv, TypeOK
<1>3. client' = client
    BY DEF TakeRequest, user
<1>4. 1 \in 1..Len(queue) /\ client[From(1)] = "waiting"
    BY <1>2 DEF RInv, OnePlaceEach
<1>5. ASSUME NEW i \in 1..Len(queue')
      PROVE  client'[From(i)'] = "waiting" /\ From(i)' # loop'.from
  <2>1. From(i)' = From(i + 1) /\ i + 1 \in 1..Len(queue) /\ i + 1 # 1
      BY <1>2 DEF From
  <2>2. client[From(i + 1)] = "waiting" /\ From(i + 1) # From(1)
      BY <2>1, <1>4 DEF RInv, OnePlaceEach
  <2> QED BY <2>1, <2>2, <1>1, <1>3
<1>6. ASSUME NEW i \in 1..Len(queue'), NEW j \in 1..Len(queue'), From(i)' = From(j)'
      PROVE  i = j
  <2>1. From(i)' = From(i + 1) /\ From(j)' = From(j + 1)
      BY <1>2 DEF From
  <2>2. i + 1 \in 1..Len(queue) /\ j + 1 \in 1..Len(queue)
      BY <1>2
  <2>3. i + 1 = j + 1
      BY <1>6, <2>1, <2>2 DEF RInv, OnePlaceEach
  <2> QED BY <2>3, <1>2
<1> QED BY <1>1, <1>3, <1>4, <1>5, <1>6 DEF RInv, LoopKeepsFaith, OnePlaceEach

(* A client that sends its request has no other.                           *)
LEMMA SendKeepsPlaces ==
    ASSUME RInv, NEW c \in Clients, NEW b \in BOOLEAN, Send(c, b), TypeOK'
    PROVE  RInv'
<1>1. Len(queue) \in Nat /\ Len(queue') = Len(queue) + 1
      /\ queue'[Len(queue) + 1].from = c
      /\ \A i \in 1..Len(queue) : queue'[i] = queue[i]
    BY DEF Send, RInv, TypeOK
<1>2. client'[c] = "waiting" /\ \A d \in Clients \ {c} : client'[d] = client[d]
    BY DEF Send, RInv, TypeOK
<1>3. loop' = loop /\ client[c] = "asking"
    BY DEF Send
<1>4. c # loop.from /\ \A i \in 1..Len(queue) : From(i) # c
    BY <1>3, NoneAssumption DEF RInv, OnePlaceEach
<1>5. \A i \in 1..Len(queue') :
         \/ i = Len(queue) + 1 /\ From(i)' = c
         \/ i \in 1..Len(queue) /\ From(i)' = From(i)
  <2>1. ASSUME NEW i \in 1..Len(queue') PROVE From(i)' = queue'[i].from
      BY DEF From
  <2>2. \A i \in 1..Len(queue') : i = Len(queue) + 1 \/ i \in 1..Len(queue)
      BY <1>1
  <2>3. ASSUME NEW i \in 1..Len(queue) PROVE From(i) = queue[i].from
      BY DEF From
  <2> QED BY <1>1, <2>1, <2>2, <2>3
<1>6. ASSUME NEW i \in 1..Len(queue')
      PROVE  client'[From(i)'] = "waiting" /\ From(i)' # loop'.from
  <2>1. CASE i = Len(queue) + 1 /\ From(i)' = c
      BY <2>1, <1>2, <1>3, <1>4
  <2>2. CASE i \in 1..Len(queue) /\ From(i)' = From(i)
    <3>1. From(i) \in Clients \ {c}
        BY <2>2, <1>4, QueueTypes DEF RInv
    <3> QED BY <2>2, <3>1, <1>2, <1>3 DEF RInv, OnePlaceEach
  <2> QED BY <1>5, <2>1, <2>2
<1>7. ASSUME NEW i \in 1..Len(queue'), NEW j \in 1..Len(queue'), From(i)' = From(j)'
      PROVE  i = j
  <2>1. CASE i \in 1..Len(queue) /\ From(i)' = From(i)
    <3>1. j \in 1..Len(queue) /\ From(j)' = From(j)
        BY <2>1, <1>5, <1>4, <1>7
    <3> QED BY <2>1, <3>1, <1>7 DEF RInv, OnePlaceEach
  <2>2. CASE i = Len(queue) + 1 /\ From(i)' = c
      BY <2>2, <1>5, <1>4, <1>7
  <2> QED BY <1>5, <2>1, <2>2
<1>8. loop.from # None => client'[loop.from] = "waiting"
    BY <1>2, <1>4, QueueTypes DEF RInv, OnePlaceEach
<1> QED BY <1>3, <1>6, <1>7, <1>8 DEF RInv, LoopKeepsFaith, OnePlaceEach

(* Answering the request that is worked for disturbs nobody else's.        *)
LEMMA AnswerKeepsPlaces ==
    ASSUME RInv, Answer, UNCHANGED queue, TypeOK'
    PROVE  RInv'
<1>1. loop' = Idle /\ Idle.from = None /\ Idle.at = "select"
    BY DEF Answer, Idle
<1>2. \A d \in Clients : d # loop.from => client'[d] = client[d]
    BY DEF Answer, RInv, TypeOK
<1>3. \A i \in 1..Len(queue) : /\ From(i)' = From(i) /\ From(i) \in Clients
                               /\ client[From(i)] = "waiting" /\ From(i) # loop.from
    BY QueueTypes DEF RInv, OnePlaceEach, From
<1>4. \A i \in 1..Len(queue) : client'[From(i)'] = "waiting" /\ From(i)' # loop'.from
    BY <1>1, <1>2, <1>3, NoneAssumption
<1>5. \A i, j \in 1..Len(queue) : From(i)' = From(j)' => i = j
    BY <1>3 DEF RInv, OnePlaceEach
<1> QED BY <1>1, <1>4, <1>5 DEF RInv, LoopKeepsFaith, OnePlaceEach

(* Every step keeps the places.                                            *)
LEMMA PlacesStep == RInv /\ [Next]_vars => RInv'
<1> SUFFICES ASSUME RInv, [Next]_vars PROVE RInv'
    OBVIOUS
<1>t. TypeOK'
    BY TypeStep DEF RInv
<1>q. CASE Quiet
    BY <1>q, <1>t, QuietKeepsPlaces
<1>1. CASE TakeWake \/ Skip
  <2>1. loop'.from = None /\ client' = client /\ queue' = queue
    <3>1. CASE TakeWake
        BY <3>1 DEF TakeWake, Idle, user
    <3>2. CASE Skip
        BY <3>2 DEF Skip, Idle, user
    <3> QED BY <1>1, <3>1, <3>2
  <2>2. loop.from = None
    <3>1. loop.at = "select" \/ loop.trigger # "manual"
        BY <1>1 DEF TakeWake, Skip
    <3> QED BY <3>1 DEF RInv, LoopKeepsFaith
  <2>3. LoopKeepsFaith'
      BY <2>1 DEF LoopKeepsFaith
  <2>4. OnePlaceEach'
      BY <2>1, <2>2, QueueTypes, NoneAssumption DEF RInv, OnePlaceEach, From
  <2> QED BY <1>t, <2>3, <2>4 DEF RInv
<1>2. CASE TakeRequest
    BY <1>2, <1>t, TakeKeepsPlaces
<1>3. CASE Admit \/ Begin
  <2>1. loop'.from = loop.from /\ loop'.trigger = loop.trigger /\ loop'.at # "select"
      BY <1>3 DEF Admit, Begin, RInv, TypeOK, Loop
  <2>2. UNCHANGED <<client, queue>>
      BY <1>3 DEF Admit, Begin, user
  <2> QED BY <1>t, <2>1, <2>2 DEF RInv, LoopKeepsFaith, OnePlaceEach, From
<1>4. CASE PassSucceeds \/ PassFails
    BY <1>4, <1>t, AnswerKeepsPlaces DEF PassSucceeds, PassFails
<1>5. ASSUME NEW c \in Clients, Ask(c) PROVE RInv'
  <2>1. \A d \in Clients : client[d] = "waiting" => client'[d] = "waiting"
      BY <1>5 DEF Ask, RInv, TypeOK
  <2>2. queue' = queue /\ loop' = loop
      BY <1>5 DEF Ask
  <2>3. \A i \in 1..Len(queue') : client'[From(i)'] = "waiting" /\ From(i)' # loop'.from
      BY <2>1, <2>2, QueueTypes DEF RInv, OnePlaceEach, From
  <2>4. \A i, j \in 1..Len(queue') : From(i)' = From(j)' => i = j
      BY <2>2 DEF RInv, OnePlaceEach, From
  <2>5. loop'.from # None => client'[loop'.from] = "waiting"
      BY <2>1, <2>2, QueueTypes DEF RInv, OnePlaceEach
  <2> QED BY <1>t, <2>2, <2>3, <2>4, <2>5 DEF RInv, LoopKeepsFaith, OnePlaceEach
<1>6. ASSUME NEW c \in Clients, NEW b \in BOOLEAN, Send(c, b) PROVE RInv'
    BY <1>6, <1>t, SendKeepsPlaces
<1>7. CASE LocalChange \/ RemoteChange \/ WatcherFires \/ PollTick \/ Hint \/ CooldownEnds
           \/ Pause \/ Resume \/ UNCHANGED vars
    BY <1>7, <1>q DEF Quiet, LocalChange, RemoteChange, WatcherFires, PollTick, Hint,
       CooldownEnds, Pause, Resume, vars, user
<1> QED
    BY <1>1, <1>2, <1>3, <1>4, <1>5, <1>6, <1>7 DEF Next, Work, LoopStep

(* What a step of the channels and the loop does to the line.              *)
LEMMA LineIsSeq ==
    ASSUME TypeOK
    PROVE  /\ Line \in Seq(Clients) /\ Len(Line) = Len(queue)
           /\ \A i \in 1..Len(queue) : Line[i] = From(i)
<1>1. Len(queue) \in Nat /\ \A i \in 1..Len(queue) : From(i) \in Clients
    BY QueueTypes
<1>2. Line \in [1..Len(queue) -> Clients]
    BY <1>1 DEF Line, From
<1>3. Line \in Seq(Clients)
    BY <1>1, <1>2
<1>4. Len(Line) = Len(queue)
    BY <1>1, <1>2
<1>5. \A i \in 1..Len(queue) : Line[i] = From(i)
    BY DEF Line, From
<1> QED BY <1>3, <1>4, <1>5

LEMMA LineGrows ==
    ASSUME TypeOK, TypeOK', NEW c \in Clients, NEW b \in BOOLEAN, Send(c, b)
    PROVE  Line' = Append(Line, c)
<1>1. Len(queue) \in Nat /\ Len(queue') = Len(queue) + 1
      /\ queue'[Len(queue) + 1].from = c
      /\ \A i \in 1..Len(queue) : queue'[i] = queue[i]
    BY DEF Send, TypeOK
<1>2. Line \in Seq(Clients) /\ Len(Line) = Len(queue)
      /\ \A i \in 1..Len(queue) : Line[i] = queue[i].from
    BY LineIsSeq DEF From
<1>3. Line' \in Seq(Clients) /\ Len(Line') = Len(queue')
      /\ \A i \in 1..Len(queue') : Line'[i] = queue'[i].from
  <2>a. queue' \in Seq(Request)
      BY DEF TypeOK
  <2>b. \A r \in Request : r.from \in Clients
      BY DEF Request
  <2>1. Len(queue') \in Nat /\ \A i \in 1..Len(queue') : queue'[i].from \in Clients
      BY <2>a, <2>b
  <2>2. Line' = [i \in 1..Len(queue') |-> queue'[i].from]
      BY DEF Line, From
  <2>3. Line' \in [1..Len(queue') -> Clients]
      BY <2>1, <2>2
  <2>4. Line' \in Seq(Clients) /\ Len(Line') = Len(queue')
      BY <2>1, <2>3
  <2> QED BY <2>2, <2>4
<1>4. /\ Append(Line, c) \in Seq(Clients) /\ Len(Append(Line, c)) = Len(queue) + 1
      /\ \A i \in 1..Len(queue) : Append(Line, c)[i] = Line[i]
      /\ Append(Line, c)[Len(queue) + 1] = c
    BY <1>2, AppendProperties
<1>5. ASSUME NEW i \in 1..Len(Line') PROVE Line'[i] = Append(Line, c)[i]
  <2>1. i \in 1..Len(queue) \/ i = Len(queue) + 1
      BY <1>1, <1>3
  <2> QED BY <2>1, <1>1, <1>2, <1>3, <1>4
<1> QED BY <1>1, <1>3, <1>4, <1>5, SeqEqual

LEMMA LineShrinks ==
    ASSUME TypeOK, TypeOK', TakeRequest
    PROVE  Line # <<>> /\ loop'.from = Head(Line) /\ Line' = Tail(Line)
<1>1. Len(queue) \in Nat \ {0} /\ Len(queue') = Len(queue) - 1
      /\ \A i \in 1..Len(queue') : i + 1 \in 1..Len(queue) /\ queue'[i] = queue[i + 1]
    BY DEF TakeRequest, TypeOK
<1>2. Line \in Seq(Clients) /\ Len(Line) = Len(queue)
      /\ \A i \in 1..Len(queue) : Line[i] = queue[i].from
    BY LineIsSeq DEF From
<1>3. loop'.from = Head(queue).from /\ Head(queue) = queue[1]
    BY DEF TakeRequest, Idle
<1>4. Line # <<>> /\ Head(Line) = queue[1].from
    BY <1>1, <1>2
<1>5. Line' \in Seq(Clients) /\ Len(Line') = Len(queue')
      /\ \A i \in 1..Len(queue') : Line'[i] = queue'[i].from
  <2>a. queue' \in Seq(Request)
      BY DEF TypeOK
  <2>b. \A r \in Request : r.from \in Clients
      BY DEF Request
  <2>1. Len(queue') \in Nat /\ \A i \in 1..Len(queue') : queue'[i].from \in Clients
      BY <2>a, <2>b
  <2>2. Line' = [i \in 1..Len(queue') |-> queue'[i].from]
      BY DEF Line, From
  <2>3. Line' \in [1..Len(queue') -> Clients]
      BY <2>1, <2>2
  <2>4. Line' \in Seq(Clients) /\ Len(Line') = Len(queue')
      BY <2>1, <2>3
  <2> QED BY <2>2, <2>4
<1>6. /\ Tail(Line) \in Seq(Clients) /\ Len(Tail(Line)) = Len(queue) - 1
      /\ \A i \in 1..(Len(queue) - 1) : Tail(Line)[i] = Line[i + 1]
    BY <1>2, <1>4, HeadTailProperties
<1>7. ASSUME NEW i \in 1..Len(Line') PROVE Line'[i] = Tail(Line)[i]
    BY <1>1, <1>2, <1>5, <1>6
<1>8. Line' = Tail(Line)
    BY <1>1, <1>5, <1>6, <1>7, SeqEqual
<1> QED BY <1>3, <1>4, <1>8

Served == {c \in Clients : client[c] = "answered"}

(* Only an answer changes who has been served.                             *)
LEMMA AnswerServes ==
    ASSUME RInv, Answer
    PROVE  Served' = Served \cup ({loop.from} \ {None})
<1>1. loop.from \in Clients \cup {None}
    BY QueueTypes DEF RInv
<1>2. CASE loop.from = None
    BY <1>2 DEF Answer, Served
<1>3. CASE loop.from \in Clients
  <2>1. loop.from # None
      BY <1>3, NoneAssumption
  <2>2. \A c \in Clients : client'[c] = IF c = loop.from THEN "answered" ELSE client[c]
      BY <2>1 DEF Answer, RInv, TypeOK
  <2> QED BY <1>3, <2>1, <2>2 DEF Served
<1> QED BY <1>1, <1>2, <1>3

(* Every step of the daemon is a step of the counter, or none.             *)
LEMMA StepImplements ==
    RInv /\ RInv' /\ [Next]_vars => [Counter!Next]_(Counter!vars)
<1> SUFFICES ASSUME RInv, RInv', [Next]_vars
             PROVE  [Counter!Next]_(Counter!vars)
    OBVIOUS
<1>n. [Counter!Next]_(Counter!vars) <=>
        \/ \E c \in Clients :
             /\ ~(\E i \in 1..Len(Line) : Line[i] = c)
             /\ loop.from # c /\ c \notin Served
             /\ Line' = Append(Line, c)
             /\ (loop'.at # "select") = (loop.at # "select")
             /\ loop'.from = loop.from /\ Served' = Served
        \/ /\ ~(loop.at # "select") /\ Line # <<>>
           /\ (loop'.at # "select") = TRUE
           /\ loop'.from = Head(Line) /\ Line' = Tail(Line) /\ Served' = Served
        \/ /\ ~(loop.at # "select") /\ (loop'.at # "select") = TRUE
           /\ Line' = Line /\ loop'.from = loop.from /\ Served' = Served
        \/ /\ loop.at # "select" /\ (loop'.at # "select") = FALSE
           /\ loop'.from = None /\ Line' = Line
           /\ Served' = Served \cup ({loop.from} \ {None})
        \/ /\ Line' = Line /\ (loop'.at # "select") = (loop.at # "select")
           /\ loop'.from = loop.from /\ Served' = Served
    BY DEF Counter!Next, Counter!vars, Counter!Join, Counter!Serve, Counter!OwnWork,
       Counter!Finish, Counter!InLine, Line, Served
<1>q. ASSUME queue' = queue, loop'.at # "select" <=> loop.at # "select",
             loop'.from = loop.from, Served' = Served
      PROVE  [Counter!Next]_(Counter!vars)
    BY <1>q, <1>n DEF Line
<1>1. CASE TakeWake
  <2>1. loop.at = "select" /\ loop'.at # "select" /\ loop'.from = None
        /\ client' = client /\ queue' = queue
      BY <1>1 DEF TakeWake, Idle, user
  <2>2. loop.from = None /\ Served' = Served /\ Line' = Line
      BY <2>1 DEF RInv, OnePlaceEach, Served, Line
  <2> QED BY <2>1, <2>2, <1>n
<1>2. CASE TakeRequest
  <2>1. loop.at = "select" /\ loop'.at # "select" /\ client' = client
      BY <1>2 DEF TakeRequest, Idle, user
  <2>2. Line # <<>> /\ loop'.from = Head(Line) /\ Line' = Tail(Line)
      BY <1>2, LineShrinks DEF RInv
  <2>3. Served' = Served
      BY <2>1 DEF Served
  <2> QED BY <2>1, <2>2, <2>3, <1>n
<1>3. CASE Skip
  <2>1. loop.at # "select" /\ loop'.at = "select" /\ loop'.from = None
        /\ client' = client /\ queue' = queue
      BY <1>3 DEF Skip, Idle, user
  <2>2. loop.from = None
      BY <1>3 DEF Skip, RInv, LoopKeepsFaith
  <2>3. Served' = Served \cup ({loop.from} \ {None}) /\ Line' = Line
      BY <2>1, <2>2 DEF Served, Line
  <2> QED BY <2>1, <2>3, <1>n
<1>4. CASE Admit \/ Begin
  <2>1. loop'.from = loop.from /\ loop'.at # "select" /\ loop.at # "select"
      BY <1>4 DEF Admit, Begin, RInv, TypeOK, Loop
  <2>2. client' = client /\ queue' = queue
      BY <1>4 DEF Admit, Begin, user
  <2> QED BY <2>1, <2>2, <1>q DEF Served
<1>5. CASE PassSucceeds \/ PassFails
  <2>1. Answer /\ queue' = queue /\ loop.at # "select"
      BY <1>5 DEF PassSucceeds, PassFails
  <2>2. loop'.at = "select" /\ loop'.from = None
      BY <2>1 DEF Answer, Idle
  <2>3. Line' = Line /\ Served' = Served \cup ({loop.from} \ {None})
      BY <2>1, AnswerServes DEF Line
  <2> QED BY <2>1, <2>2, <2>3, <1>n
<1>6. ASSUME NEW c \in Clients, Ask(c) PROVE [Counter!Next]_(Counter!vars)
  <2>1. queue' = queue /\ loop' = loop /\ client[c] = "away"
      BY <1>6 DEF Ask
  <2>2. \A d \in Clients : client'[d] = "answered" <=> client[d] = "answered"
      BY <1>6 DEF Ask, RInv, TypeOK
  <2> QED BY <2>1, <2>2, <1>q DEF Served
<1>7. ASSUME NEW c \in Clients, NEW b \in BOOLEAN, Send(c, b)
      PROVE  [Counter!Next]_(Counter!vars)
  <2>1. Line' = Append(Line, c)
      BY <1>7, LineGrows DEF RInv
  <2>2. loop' = loop /\ client[c] = "asking"
      BY <1>7 DEF Send
  <2>3. \A d \in Clients : client'[d] = "answered" <=> client[d] = "answered"
      BY <1>7 DEF Send, RInv, TypeOK
  <2>4. Len(Line) = Len(queue) /\ \A i \in 1..Len(queue) : Line[i] = From(i)
      BY LineIsSeq DEF RInv
  <2>5. ~(\E i \in 1..Len(Line) : Line[i] = c)
      BY <2>2, <2>4 DEF RInv, OnePlaceEach
  <2>6. loop.from # c /\ c \notin Served /\ Served' = Served
      BY <2>2, <2>3, NoneAssumption DEF RInv, OnePlaceEach, Served
  <2> QED BY <2>1, <2>2, <2>5, <2>6, <1>n
<1>8. CASE LocalChange \/ RemoteChange \/ WatcherFires \/ PollTick \/ Hint \/ CooldownEnds
           \/ Pause \/ Resume \/ UNCHANGED vars
  <2>1. Quiet
      BY <1>8 DEF Quiet, LocalChange, RemoteChange, WatcherFires, PollTick, Hint,
         CooldownEnds, Pause, Resume, vars, user
  <2> QED BY <2>1, <1>q DEF Quiet, Served
<1> QED
    BY <1>1, <1>2, <1>3, <1>4, <1>5, <1>6, <1>7, <1>8 DEF Next, Work, LoopStep

(* The sync loop with its two channels implements the counter of Serving:  *)
(* for any number of clients and any capacities, requests are taken in the *)
(* order in which they were sent, one at a time and each once, and whoever *)
(* is worked for is told (RequestSync, syncLoop, runSync).                 *)
THEOREM LoopImplementsServing == Spec => ImplementsServing
<1>1. Init => RInv
  <2> SUFFICES ASSUME Init PROVE RInv
      OBVIOUS
  <2>1. TypeOK /\ LoopKeepsFaith
      BY InitKeeps DEF IInv
  <2>2. queue = <<>> /\ loop.from = None
      BY DEF Init, Idle
  <2> QED BY <2>1, <2>2 DEF RInv, OnePlaceEach
<1>2. Init => Counter!Init
  <2> SUFFICES ASSUME Init PROVE Counter!Init
      OBVIOUS
  <2>1. queue = <<>> /\ loop.from = None /\ loop.at = "select"
        /\ \A c \in Clients : client[c] = "away"
      BY DEF Init, Idle
  <2>2. [i \in 1..Len(queue) |-> queue[i].from] = <<>>
      BY <2>1
  <2> QED BY <2>1, <2>2 DEF Counter!Init
<1> QED BY <1>1, <1>2, PlacesStep, StepImplements, PTL
    DEF Spec, ImplementsServing, Counter!Spec
=============================================================================
