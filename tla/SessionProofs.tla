--------------------------- MODULE SessionProofs ---------------------------
(***************************************************************************)
(* What the sharing of one session between programs keeps, for any number  *)
(* of sessions, programs and rotations, while the user begins nothing else *)
(* before a command of the TUI has ended.                                  *)
(***************************************************************************)
EXTENDS Session, TLAPS

-----------------------------------------------------------------------------
(* 1. The inductive invariant.                                             *)

(* A new pair is on its way from Proton to memory and the file.            *)
InFlight(c) == refresh[c] # None /\ refresh[c].at # "refused"

(* Proton has given the token out, and it is no newer than the newest.     *)
Known(tok) == tok.sid \in born /\ tok.gen <= gen[tok.sid]

TokensKnown ==
    /\ \A s \in Sids \ born : gen[s] = 0
    /\ file # None => file.uid = file.tok.sid /\ Known(file.tok)
    /\ \A c \in Clients :
          mem[c] # None => mem[c].uid = mem[c].tok.sid /\ Known(mem[c].tok)

(* A client refreshes the pair it holds, for one of its calls.             *)
Asked ==
    /\ \A c \in Clients : refresh[c] # None => mem[c] # None
    /\ refresh[TUI] # None =>
          \/ refresh[TUI].who = "resume" /\ screen = "resuming"
          \/ /\ refresh[TUI].who = "login"
             /\ job # None /\ job.at \in {"code", "verify"}
          \/ refresh[TUI].who = "logout" /\ logout = "asking"

(* The pair in flight is the newest of its session, nobody else holds it,  *)
(* and the file does not have it yet.                                      *)
FlightAhead ==
    \A c \in Clients : InFlight(c) =>
        LET s == refresh[c].tok.sid IN
        /\ refresh[c].uid = s /\ mem[c].tok.sid = s
        /\ refresh[c].tok.gen = gen[s] /\ c \in rotators[s]
        /\ file # None /\ file.tok.sid = s => file.tok.gen < gen[s]
        /\ \A o \in Clients \ {c} :
              mem[o] # None /\ mem[o].tok.sid = s =>
                  ~InFlight(o) /\ mem[o].tok.gen < gen[s]

(* It carries the key passphrase that the file has for its session.        *)
KeyInFlight ==
    \A c \in Clients :
        /\ refresh[c] # None /\ refresh[c].at = "loaded"
        /\ file # None /\ file.tok.sid = refresh[c].tok.sid /\ file.key
        => refresh[c].key

(* One thing at a time: the form, the resume and the sign-out.             *)
OneAtATime ==
    /\ job # None => screen = "login" /\ logout = "none" /\ step = "working"
    /\ logout # "none" => screen = "login" /\ step = "form"
    /\ screen = "main" => step \in {"form", "working"}
    /\ screen \in {"closed", "resuming"} => step = "form"
    /\ screen = "closed" => mem[TUI] = None

(* Of a session that is being signed into, the TUI alone has the pair.     *)
SigningIn ==
    \/ job # None /\ job.at # "srp"
    \/ step \in {"2fa", "mailbox"}
OwnSession ==
    SigningIn =>
        /\ mem[TUI] # None
        /\ \A b \in Bridges :
              mem[b] # None => mem[b].tok.sid # mem[TUI].tok.sid
        /\ job = None /\ file # None /\ file.tok.sid = mem[TUI].tok.sid
              => ~file.key
SavesNewest ==
    job # None /\ job.at \in {"finish", "save"} =>
        /\ mem[TUI].tok.gen = gen[mem[TUI].tok.sid]
        /\ job.at = "save" => job.pair = mem[TUI]

(* A client is behind only if another client rotated the session, or the   *)
(* new pair was lost, or is about to reach it.                             *)
Behind ==
    \A c \in Clients :
        mem[c] # None /\ mem[c].tok.gen < gen[mem[c].tok.sid] =>
            \/ mem[c].tok.sid \in spoilt
            \/ rotators[mem[c].tok.sid] \ {c} # {}
            \/ refresh[c] # None /\ refresh[c].at = "granted"

IInv ==
    /\ TokensKnown /\ Asked /\ FlightAhead /\ KeyInFlight
    /\ OneAtATime /\ OwnSession /\ SavesNewest
    /\ Behind /\ NewestOnDisk /\ ReplayNeedsAnother

-----------------------------------------------------------------------------
(* 2. The types.                                                           *)

(* What a client or the TUI does keeps every variable in its range.        *)
LEMMA TypesKept == TypeOK /\ [Next]_vars => TypeOK'
<1> SUFFICES ASSUME TypeOK, [Next]_vars  PROVE TypeOK'
  OBVIOUS
<1> USE DEF proton, tui, seen
<1>1. ASSUME NEW c \in Clients, NEW who \in Callers, Refresh(c, who)
      PROVE  TypeOK'
  BY <1>1, GenAssumption
     DEF Refresh, Accepted, Newest, TypeOK, Token, Pair, Refreshes
<1>2. ASSUME NEW c \in Clients, Lose(c)  PROVE TypeOK'
  BY <1>2 DEF Lose, LostBy, TypeOK, Token, Refreshes
<1>3. ASSUME NEW c \in Clients, Receive(c)  PROVE TypeOK'
  BY <1>3 DEF Receive, TypeOK, Pair, Refreshes
<1>4. ASSUME NEW c \in Clients, Store(c)  PROVE TypeOK'
  BY <1>4 DEF Store, TypeOK, Stored, Refreshes
<1>5. ASSUME NEW c \in Clients, StoreFails(c)  PROVE TypeOK'
  BY <1>5 DEF StoreFails, LostBy, TypeOK, Token, Refreshes
<1>6. ASSUME NEW b \in Bridges, Start(b)  PROVE TypeOK'
  BY <1>6 DEF Start, TypeOK, Clients, Pair, Stored
<1>7. ASSUME NEW b \in Bridges, Stop(b)  PROVE TypeOK'
  BY <1>7 DEF Stop, LostBy, TypeOK, Clients, Token, Refreshes
<1>8. ASSUME NEW b \in Bridges, Deauth(b)  PROVE TypeOK'
  BY <1>8 DEF Deauth, TypeOK, Clients
<1>9. ASSUME Open  PROVE TypeOK'
  BY <1>9 DEF Open, TypeOK, Clients, Pair, Stored
<1>10. ASSUME Quit  PROVE TypeOK'
  BY <1>10 DEF Quit, LostBy, TypeOK, Clients, Token, Refreshes
<1>11. ASSUME Resumed  PROVE TypeOK'
  BY <1>11 DEF Resumed, TypeOK
<1>12. ASSUME ResumeFails  PROVE TypeOK'
  BY <1>12 DEF ResumeFails, TypeOK
<1>13. ASSUME Submit  PROVE TypeOK'
  BY <1>13 DEF Submit, TypeOK, Jobs
<1>14. ASSUME NEW s \in Sids, Login(s)  PROVE TypeOK'
  BY <1>14, GenAssumption DEF Login, TypeOK, Clients, Token, Pair, Jobs
<1>15. ASSUME SubmitCode  PROVE TypeOK'
  BY <1>15 DEF SubmitCode, TypeOK, Jobs
<1>16. ASSUME CodeAccepted  PROVE TypeOK'
  BY <1>16 DEF CodeAccepted, TypeOK, Jobs
<1>17. ASSUME FinishLogin  PROVE TypeOK'
  BY <1>17 DEF FinishLogin, TypeOK, Clients, Jobs
<1>18. ASSUME SubmitMailbox  PROVE TypeOK'
  BY <1>18 DEF SubmitMailbox, TypeOK, Jobs
<1>19. ASSUME Verified  PROVE TypeOK'
  BY <1>19 DEF Verified, Accepted, TypeOK, Clients, Jobs
<1>20. ASSUME SaveLogin  PROVE TypeOK'
  BY <1>20 DEF SaveLogin, TypeOK, Pair, Stored, Jobs
<1>21. ASSUME LoginFails  PROVE TypeOK'
  BY <1>21 DEF LoginFails, TypeOK
<1>22. ASSUME SignOut  PROVE TypeOK'
  BY <1>22 DEF SignOut, TypeOK
<1>23. ASSUME Revoke  PROVE TypeOK'
  BY <1>23 DEF Revoke, TypeOK
<1>24. ASSUME RevokeFails  PROVE TypeOK'
  BY <1>24 DEF RevokeFails, TypeOK
<1>25. ASSUME Wipe  PROVE TypeOK'
  BY <1>25 DEF Wipe, TypeOK, Clients
<1>26. ASSUME Refused  PROVE TypeOK'
  BY <1>26 DEF Refused, TypeOK, Clients
<1>27. CASE UNCHANGED vars
  BY <1>27 DEF TypeOK, vars
<1> QED  BY <1>1, <1>2, <1>3, <1>4, <1>5, <1>6, <1>7, <1>8, <1>9, <1>10,
    <1>11, <1>12, <1>13, <1>14, <1>15, <1>16, <1>17, <1>18, <1>19, <1>20,
    <1>21, <1>22, <1>23, <1>24, <1>25, <1>26, <1>27
       DEF Next, RefreshStep, LoginStep, LogoutStep

(* The state of the file, of the clients and of the TUI keeps its types,   *)
(* however the user hurries.                                               *)
THEOREM TypesHold == Spec => []TypeOK
<1>1. Init => TypeOK
  BY GenAssumption DEF Init, TypeOK
<1> QED  BY <1>1, TypesKept, PTL DEF Spec

-----------------------------------------------------------------------------
(* 3. The tokens and the TUI's state: one lemma for an action.             *)

(* Six conjuncts speak of nothing but the tokens and who holds them.       *)
LEMMA TokensStay ==
    ASSUME IInv,
           UNCHANGED <<born, gen, file, mem, refresh>>,
           UNCHANGED <<spoilt, rotators, replays>>
    PROVE  /\ TokensKnown' /\ FlightAhead' /\ KeyInFlight'
           /\ Behind' /\ NewestOnDisk' /\ ReplayNeedsAnother'
BY DEF IInv, TokensKnown, Known, FlightAhead, InFlight, KeyInFlight, Behind,
       NewestOnDisk, LostBy, ReplayNeedsAnother

(* A refresh is granted, and then the client holds the newest pair, or is  *)
(* refused.                                                                *)
LEMMA RefreshKeeps ==
    ASSUME TypeOK, IInv, ~Hurried, NEW c \in Clients, NEW who \in Callers,
           Refresh(c, who)
    PROVE  IInv'
<1> USE DEF proton, tui, seen
<1>1. OneAtATime' /\ OwnSession'
  BY DEF IInv, Refresh, OneAtATime, OwnSession, SigningIn
<1>2. TokensKnown'
  BY DEF IInv, Refresh, TokensKnown, Known, TypeOK, Token, Pair, Stored
<1>3. Asked'
  BY ClientsAssumption DEF IInv, Refresh, Asking, Asked, TypeOK, Clients
<1>4. FlightAhead'
  BY DEF IInv, Refresh, Accepted, Newest, FlightAhead, TokensKnown, Asked,
         InFlight, Known, TypeOK, Clients, Token, Pair, Stored
<1>5. KeyInFlight'
  BY DEF IInv, Refresh, KeyInFlight, TypeOK
<1>6. SavesNewest'
  BY DEF IInv, Refresh, Asking, SavesNewest, OwnSession, OneAtATime,
         SigningIn, TypeOK, Clients, Token, Pair
<1>7. Behind'
  <2>1. CASE Accepted(c)
    <3>1. \A s \in Sids :
             gen'[s] = gen[s] + (IF s = mem[c].tok.sid THEN 1 ELSE 0)
      BY <2>1 DEF Refresh, TypeOK, Pair, Token
    <3>2. \A o \in Clients \ {c} : refresh'[o] = refresh[o]
      BY DEF Refresh, TypeOK
    <3>3. refresh'[c] # None /\ refresh'[c].at = "granted"
      <4> DEFINE t   == mem[c].tok
                 new == [at |-> "granted", who |-> who, uid |-> mem[c].uid,
                         tok |-> [t EXCEPT !.gen = @ + 1]]
      <4>1. refresh'[c] = new
        BY <2>1 DEF Refresh, TypeOK
      <4>2. new \in Refreshes
        BY <2>1, GenAssumption DEF Refresh, Refreshes, TypeOK, Pair, Token
      <4> QED  BY <4>1, <4>2, NoneAssumption
    <3>4. \A s \in Sids : /\ rotators[s] \subseteq rotators'[s]
                         /\ s = mem[c].tok.sid => c \in rotators'[s]
      BY <2>1 DEF Refresh, TypeOK, Pair, Token
    <3> QED  BY <3>1, <3>2, <3>3, <3>4
            DEF IInv, Refresh, Behind, TypeOK, Pair, Token
  <2>2. CASE ~Accepted(c)
    BY <2>2 DEF IInv, Refresh, Behind, TypeOK
  <2> QED  BY <2>1, <2>2
<1>8. NewestOnDisk'
  BY GenAssumption, NoneAssumption
     DEF IInv, Refresh, NewestOnDisk, LostBy, TypeOK, Token, Pair, Stored,
         Refreshes
<1>9. ReplayNeedsAnother'
  BY DEF IInv, Refresh, ReplayNeedsAnother, Behind, TypeOK, Token, Pair
<1> QED  BY <1>1, <1>2, <1>3, <1>4, <1>5, <1>6, <1>7, <1>8, <1>9 DEF IInv

(* A new pair is lost, on its way to memory or to the file.                *)
LEMMA LoseKeeps ==
    ASSUME TypeOK, IInv, ~Hurried, NEW c \in Clients, Lose(c)
    PROVE  IInv'
<1> USE DEF proton, tui, seen
<1>1. TokensKnown' /\ OneAtATime' /\ OwnSession' /\ SavesNewest'
  BY DEF IInv, Lose, TokensKnown, Known, OneAtATime, OwnSession, SigningIn,
         SavesNewest
<1>2. Asked'
  BY DEF IInv, Lose, Asked
<1>3. FlightAhead'
  BY DEF IInv, Lose, FlightAhead, InFlight
<1>4. KeyInFlight'
  BY DEF IInv, Lose, KeyInFlight
<1>5. Behind'
  BY DEF IInv, Lose, LostBy, Behind, FlightAhead, InFlight
<1>6. NewestOnDisk'
  BY DEF IInv, Lose, LostBy, NewestOnDisk
<1>7. ReplayNeedsAnother'
  BY DEF IInv, Lose, ReplayNeedsAnother
<1> QED  BY <1>1, <1>2, <1>3, <1>4, <1>5, <1>6, <1>7 DEF IInv

(* The new pair replaces the one in memory.                                *)
LEMMA ReceiveKeeps ==
    ASSUME TypeOK, IInv, ~Hurried, NEW c \in Clients, Receive(c)
    PROVE  IInv'
<1> USE DEF proton, tui, seen
<1>1. ReplayNeedsAnother'
  BY DEF IInv, Receive, ReplayNeedsAnother
<1>2. TokensKnown'
  BY DEF IInv, Receive, TokensKnown, FlightAhead, Asked, Known, InFlight,
         TypeOK
<1>3. Asked'
  BY NoneAssumption DEF IInv, Receive, Asked, TypeOK, Pair, Refreshes
<1>4. FlightAhead'
  BY DEF IInv, Receive, FlightAhead, Asked, InFlight
<1>5. KeyInFlight'
  BY DEF IInv, Receive, KeyInFlight, TypeOK, Stored
<1>6. OneAtATime'
  BY DEF IInv, Receive, OneAtATime, Asked
<1>7. OwnSession'
  BY NoneAssumption
     DEF IInv, Receive, OwnSession, Asked, FlightAhead, SigningIn, InFlight,
         TypeOK, Pair, Refreshes
<1>8. SavesNewest'
  BY DEF IInv, Receive, SavesNewest, Asked, OneAtATime
<1>9. Behind'
  BY DEF IInv, Receive, Behind, FlightAhead, Asked, InFlight, TypeOK, Token,
         Pair
<1>10. NewestOnDisk'
  BY NoneAssumption
     DEF IInv, Receive, NewestOnDisk, LostBy, TypeOK, Stored, Refreshes
<1> QED  BY <1>1, <1>2, <1>3, <1>4, <1>5, <1>6, <1>7, <1>8, <1>9, <1>10 DEF IInv

(* The new pair reaches the file.                                          *)
LEMMA StoreKeeps ==
    ASSUME TypeOK, IInv, ~Hurried, NEW c \in Clients, Store(c)
    PROVE  IInv'
<1> USE DEF proton, tui, seen
<1>1. OneAtATime' /\ SavesNewest' /\ ReplayNeedsAnother'
  BY DEF IInv, Store, OneAtATime, SavesNewest, ReplayNeedsAnother
<1>2. TokensKnown'
  BY DEF IInv, Store, TokensKnown, FlightAhead, Asked, Known, InFlight, TypeOK
<1>3. Asked'
  BY DEF IInv, Store, Asked
<1>4. FlightAhead'
  BY DEF IInv, Store, FlightAhead, Asked, InFlight, TypeOK
<1>5. KeyInFlight'
  BY DEF IInv, Store, KeyInFlight, FlightAhead, Asked, InFlight
<1>6. OwnSession'
  BY DEF IInv, Store, OwnSession, OneAtATime, Asked, FlightAhead, SigningIn,
         InFlight, Clients
<1>7. Behind'
  BY DEF IInv, Store, Behind
<1>8. NewestOnDisk'
  BY DEF IInv, Store, NewestOnDisk, FlightAhead, InFlight
<1> QED  BY <1>1, <1>2, <1>3, <1>4, <1>5, <1>6, <1>7, <1>8 DEF IInv

LEMMA StoreFailsKeeps ==
    ASSUME TypeOK, IInv, ~Hurried, NEW c \in Clients, StoreFails(c)
    PROVE  IInv'
<1> USE DEF proton, tui, seen
<1>1. TokensKnown' /\ OneAtATime' /\ OwnSession' /\ SavesNewest'
  BY DEF IInv, StoreFails, TokensKnown, Known, OneAtATime, OwnSession,
         SigningIn, SavesNewest
<1>2. Asked'
  BY DEF IInv, StoreFails, Asked
<1>3. FlightAhead'
  BY DEF IInv, StoreFails, FlightAhead, InFlight
<1>4. KeyInFlight'
  BY DEF IInv, StoreFails, KeyInFlight
<1>5. Behind'
  BY DEF IInv, StoreFails, Behind
<1>6. NewestOnDisk'
  BY DEF IInv, StoreFails, LostBy, NewestOnDisk
<1>7. ReplayNeedsAnother'
  BY DEF IInv, StoreFails, ReplayNeedsAnother
<1> QED  BY <1>1, <1>2, <1>3, <1>4, <1>5, <1>6, <1>7 DEF IInv

(* Bridges start, stop and are signed out.                                 *)
LEMMA StartKeeps ==
    ASSUME TypeOK, IInv, ~Hurried, NEW b \in Bridges, Start(b)
    PROVE  IInv'
<1> USE DEF proton, tui, seen
<1>1. KeyInFlight' /\ NewestOnDisk' /\ ReplayNeedsAnother'
  BY DEF IInv, Start, KeyInFlight, NewestOnDisk, LostBy, ReplayNeedsAnother
<1>2. TokensKnown'
  BY DEF IInv, Start, TokensKnown, Known
<1>3. Asked'
  BY DEF IInv, Start, Asked
<1>4. FlightAhead'
  BY DEF IInv, Start, FlightAhead, Asked, InFlight
<1>5. OneAtATime'
  BY ClientsAssumption DEF IInv, Start, OneAtATime
<1>6. OwnSession'
  BY DEF IInv, Start, OwnSession, SigningIn
<1>7. SavesNewest'
  BY DEF IInv, Start, SavesNewest
<1>8. Behind'
  BY DEF IInv, Start, Behind, FlightAhead, Asked, NewestOnDisk, InFlight,
         LostBy, TypeOK, Token, Stored
<1> QED  BY <1>1, <1>2, <1>3, <1>4, <1>5, <1>6, <1>7, <1>8 DEF IInv

LEMMA StopKeeps ==
    ASSUME TypeOK, IInv, ~Hurried, NEW b \in Bridges, Stop(b)
    PROVE  IInv'
<1> USE DEF proton, tui, seen
<1>1. TokensKnown'
  BY DEF IInv, Stop, TokensKnown, Known
<1>2. Asked'
  BY DEF IInv, Stop, Asked, TypeOK
<1>3. FlightAhead'
  BY DEF IInv, Stop, FlightAhead, InFlight, TypeOK
<1>4. KeyInFlight'
  BY DEF IInv, Stop, KeyInFlight
<1>5. OneAtATime'
  BY DEF IInv, Stop, OneAtATime
<1>6. OwnSession'
  BY DEF IInv, Stop, OwnSession, SigningIn
<1>7. SavesNewest'
  BY DEF IInv, Stop, SavesNewest, OwnSession, SigningIn
<1>8. Behind'
  BY DEF IInv, Stop, LostBy, Behind, FlightAhead, InFlight
<1>9. NewestOnDisk'
  BY DEF IInv, Stop, LostBy, NewestOnDisk
<1>10. ReplayNeedsAnother'
  BY DEF IInv, Stop, ReplayNeedsAnother
<1> QED  BY <1>1, <1>2, <1>3, <1>4, <1>5, <1>6, <1>7, <1>8, <1>9, <1>10 DEF IInv

LEMMA DeauthKeeps ==
    ASSUME TypeOK, IInv, ~Hurried, NEW b \in Bridges, Deauth(b)
    PROVE  IInv'
<1> USE DEF proton, tui, seen
<1>1. OneAtATime' /\ SavesNewest' /\ ReplayNeedsAnother'
  BY DEF IInv, Deauth, OneAtATime, SavesNewest, ReplayNeedsAnother
<1>2. TokensKnown'
  BY DEF IInv, Deauth, TokensKnown, Known
<1>3. Asked'
  BY DEF IInv, Deauth, Asked
<1>4. FlightAhead'
  BY DEF IInv, Deauth, FlightAhead, InFlight
<1>5. KeyInFlight'
  BY DEF IInv, Deauth, KeyInFlight
<1>6. OwnSession'
  BY DEF IInv, Deauth, OwnSession, SigningIn
<1>7. Behind'
  BY DEF IInv, Deauth, Behind
<1>8. NewestOnDisk'
  BY DEF IInv, Deauth, NewestOnDisk, LostBy
<1> QED  BY <1>1, <1>2, <1>3, <1>4, <1>5, <1>6, <1>7, <1>8 DEF IInv

(* The TUI opens, resumes and quits.                                       *)
LEMMA OpenKeeps ==
    ASSUME TypeOK, IInv, ~Hurried, Open
    PROVE  IInv'
<1> USE DEF proton, tui, seen
<1>1. KeyInFlight' /\ NewestOnDisk' /\ ReplayNeedsAnother'
  BY DEF IInv, Open, KeyInFlight, NewestOnDisk, LostBy, ReplayNeedsAnother
<1>2. TokensKnown'
  BY DEF IInv, Open, TokensKnown, Known
<1>3. Asked'
  BY DEF IInv, Open, Asked, OneAtATime
<1>4. FlightAhead'
  BY DEF IInv, Open, FlightAhead, Asked, OneAtATime, InFlight
<1>5. OneAtATime'
  BY DEF IInv, Open, OneAtATime
<1>6. OwnSession'
  BY DEF IInv, Open, OwnSession, OneAtATime, SigningIn
<1>7. SavesNewest'
  BY DEF IInv, Open, SavesNewest, OneAtATime
<1>8. Behind'
  BY DEF IInv, Open, Behind, FlightAhead, Asked, NewestOnDisk, OneAtATime,
         InFlight, LostBy, TypeOK, Token, Stored
<1> QED  BY <1>1, <1>2, <1>3, <1>4, <1>5, <1>6, <1>7, <1>8 DEF IInv

LEMMA QuitKeeps ==
    ASSUME TypeOK, IInv, ~Hurried, Quit
    PROVE  IInv'
<1> USE DEF proton, tui, seen
<1>1. TokensKnown'
  BY DEF IInv, Quit, TokensKnown, Known
<1>2. Asked'
  BY DEF IInv, Quit, Asked, TypeOK, Clients
<1>3. FlightAhead'
  BY DEF IInv, Quit, FlightAhead, InFlight, TypeOK
<1>4. KeyInFlight'
  BY DEF IInv, Quit, KeyInFlight
<1>5. OneAtATime'
  BY DEF IInv, Quit, OneAtATime, TypeOK, Clients
<1>6. OwnSession'
  BY DEF IInv, Quit, OwnSession, SigningIn
<1>7. SavesNewest'
  BY DEF IInv, Quit, SavesNewest
<1>8. Behind'
  BY DEF IInv, Quit, LostBy, Behind, FlightAhead, InFlight
<1>9. NewestOnDisk'
  BY DEF IInv, Quit, LostBy, NewestOnDisk
<1>10. ReplayNeedsAnother'
  BY DEF IInv, Quit, ReplayNeedsAnother
<1> QED  BY <1>1, <1>2, <1>3, <1>4, <1>5, <1>6, <1>7, <1>8, <1>9, <1>10 DEF IInv

LEMMA ResumedKeeps ==
    ASSUME TypeOK, IInv, ~Hurried, Resumed
    PROVE  IInv'
<1> USE DEF proton, tui, seen
<1>1. /\ TokensKnown' /\ FlightAhead' /\ KeyInFlight'
      /\ Behind' /\ NewestOnDisk' /\ ReplayNeedsAnother'
  BY TokensStay DEF Resumed
<1>2. OwnSession' /\ SavesNewest'
  BY DEF IInv, Resumed, OwnSession, SigningIn, SavesNewest
<1>3. Asked'
  BY DEF IInv, Resumed, Waits, Asked
<1>4. OneAtATime'
  BY DEF IInv, Resumed, OneAtATime
<1> QED  BY <1>1, <1>2, <1>3, <1>4 DEF IInv

LEMMA ResumeFailsKeeps ==
    ASSUME TypeOK, IInv, ~Hurried, ResumeFails
    PROVE  IInv'
<1> USE DEF proton, tui, seen
<1>1. /\ TokensKnown' /\ FlightAhead' /\ KeyInFlight'
      /\ Behind' /\ NewestOnDisk' /\ ReplayNeedsAnother'
  BY TokensStay DEF ResumeFails
<1>2. OwnSession' /\ SavesNewest'
  BY DEF IInv, ResumeFails, OwnSession, SigningIn, SavesNewest
<1>3. Asked'
  BY DEF IInv, ResumeFails, Waits, Asked
<1>4. OneAtATime'
  BY DEF IInv, ResumeFails, OneAtATime
<1> QED  BY <1>1, <1>2, <1>3, <1>4 DEF IInv

(* Signing in.                                                             *)
LEMMA SubmitKeeps ==
    ASSUME TypeOK, IInv, ~Hurried, Submit
    PROVE  IInv'
<1> USE DEF proton, tui, seen
<1>1. /\ TokensKnown' /\ FlightAhead' /\ KeyInFlight'
      /\ Behind' /\ NewestOnDisk' /\ ReplayNeedsAnother'
  BY TokensStay DEF Submit
<1>2. Asked'
  BY DEF IInv, Submit, Asked
<1>3. OneAtATime'
  BY DEF IInv, Submit, OneAtATime
<1>4. OwnSession'
  BY DEF IInv, Submit, OwnSession, SigningIn
<1>5. SavesNewest'
  BY DEF IInv, Submit, SavesNewest
<1> QED  BY <1>1, <1>2, <1>3, <1>4, <1>5 DEF IInv

LEMMA LoginKeeps ==
    ASSUME TypeOK, IInv, ~Hurried, NEW s \in Sids, Login(s)
    PROVE  IInv'
<1> USE DEF proton, tui, seen
<1>1. KeyInFlight' /\ NewestOnDisk' /\ ReplayNeedsAnother'
  BY DEF IInv, Login, KeyInFlight, NewestOnDisk, LostBy, ReplayNeedsAnother
<1>2. TokensKnown'
  BY DEF IInv, Login, TokensKnown, Known
<1>3. Asked'
  BY DEF IInv, Login, Asked, OneAtATime
<1>4. FlightAhead'
  BY DEF IInv, Login, FlightAhead, TokensKnown, Asked, OneAtATime, InFlight,
         Known
<1>5. OneAtATime'
  BY DEF IInv, Login, OneAtATime
<1>6. OwnSession'
  BY ClientsAssumption, NoneAssumption
     DEF IInv, Login, OwnSession, TokensKnown, Known, TypeOK, Clients, Token,
         Pair
<1>7. SavesNewest'
  <2>1. gen[s] = 0 /\ mem'[TUI] = [uid |-> s, tok |-> [sid |-> s, gen |-> 0]]
    BY DEF IInv, Login, TokensKnown, TypeOK, Clients
  <2>2. job' # None => job' = [at |-> "finish"]
    BY DEF Login
  <2> QED  BY <2>1, <2>2 DEF Login, SavesNewest
<1>8. Behind'
  <2>1. gen[s] = 0 /\ mem'[TUI] = [uid |-> s, tok |-> [sid |-> s, gen |-> 0]]
    BY DEF IInv, Login, TokensKnown, TypeOK, Clients
  <2>2. \A b \in Clients \ {TUI} : mem'[b] = mem[b]
    BY DEF Login, TypeOK
  <2> QED  BY <2>1, <2>2 DEF IInv, Login, Behind
<1> QED  BY <1>1, <1>2, <1>3, <1>4, <1>5, <1>6, <1>7, <1>8 DEF IInv

LEMMA SubmitCodeKeeps ==
    ASSUME TypeOK, IInv, ~Hurried, SubmitCode
    PROVE  IInv'
<1> USE DEF proton, tui, seen
<1>1. /\ TokensKnown' /\ FlightAhead' /\ KeyInFlight'
      /\ Behind' /\ NewestOnDisk' /\ ReplayNeedsAnother'
  BY TokensStay DEF SubmitCode
<1>2. Asked'
  BY DEF IInv, SubmitCode, Asked
<1>3. OneAtATime'
  BY DEF IInv, SubmitCode, OneAtATime, TypeOK
<1>4. OwnSession'
  BY DEF IInv, SubmitCode, OwnSession, SigningIn
<1>5. SavesNewest'
  BY DEF IInv, SubmitCode, SavesNewest
<1> QED  BY <1>1, <1>2, <1>3, <1>4, <1>5 DEF IInv

LEMMA CodeAcceptedKeeps ==
    ASSUME TypeOK, IInv, ~Hurried, CodeAccepted
    PROVE  IInv'
<1> USE DEF proton, tui, seen
<1>1. /\ TokensKnown' /\ FlightAhead' /\ KeyInFlight'
      /\ Behind' /\ NewestOnDisk' /\ ReplayNeedsAnother'
  BY TokensStay DEF CodeAccepted
<1>2. Asked'
  BY DEF IInv, CodeAccepted, Waits, Asked
<1>3. OneAtATime'
  BY DEF IInv, CodeAccepted, OneAtATime
<1>4. OwnSession'
  BY DEF IInv, CodeAccepted, OwnSession, OneAtATime, SigningIn
<1>5. SavesNewest'
  BY DEF IInv, CodeAccepted, Accepted, Newest, SavesNewest
<1> QED  BY <1>1, <1>2, <1>3, <1>4, <1>5 DEF IInv

LEMMA FinishLoginKeeps ==
    ASSUME TypeOK, IInv, ~Hurried, FinishLogin
    PROVE  IInv'
<1> USE DEF proton, tui, seen
<1>1. /\ TokensKnown' /\ FlightAhead' /\ KeyInFlight'
      /\ Behind' /\ NewestOnDisk' /\ ReplayNeedsAnother'
  BY TokensStay DEF FinishLogin
<1>2. Asked'
  BY DEF IInv, FinishLogin, Asked
<1>3. OneAtATime'
  BY DEF IInv, FinishLogin, OneAtATime
<1>4. OwnSession'
  BY DEF IInv, FinishLogin, OwnSession, OneAtATime, SigningIn
<1>5. SavesNewest'
  BY DEF IInv, FinishLogin, SavesNewest
<1> QED  BY <1>1, <1>2, <1>3, <1>4, <1>5 DEF IInv

LEMMA SubmitMailboxKeeps ==
    ASSUME TypeOK, IInv, ~Hurried, SubmitMailbox
    PROVE  IInv'
<1> USE DEF proton, tui, seen
<1>1. /\ TokensKnown' /\ FlightAhead' /\ KeyInFlight'
      /\ Behind' /\ NewestOnDisk' /\ ReplayNeedsAnother'
  BY TokensStay DEF SubmitMailbox
<1>2. Asked'
  BY DEF IInv, SubmitMailbox, Asked
<1>3. OneAtATime'
  BY DEF IInv, SubmitMailbox, OneAtATime, TypeOK
<1>4. OwnSession'
  BY DEF IInv, SubmitMailbox, OwnSession, SigningIn
<1>5. SavesNewest'
  BY DEF IInv, SubmitMailbox, SavesNewest
<1> QED  BY <1>1, <1>2, <1>3, <1>4, <1>5 DEF IInv

LEMMA VerifiedKeeps ==
    ASSUME TypeOK, IInv, ~Hurried, Verified
    PROVE  IInv'
<1> USE DEF proton, tui, seen
<1>1. /\ TokensKnown' /\ FlightAhead' /\ KeyInFlight'
      /\ Behind' /\ NewestOnDisk' /\ ReplayNeedsAnother'
  BY TokensStay DEF Verified
<1>2. Asked'
  BY DEF IInv, Verified, Waits, Asked
<1>3. OneAtATime'
  BY DEF IInv, Verified, OneAtATime
<1>4. OwnSession'
  BY DEF IInv, Verified, OwnSession, OneAtATime, SigningIn
<1>5. SavesNewest'
  BY DEF IInv, Verified, Accepted, Newest, SavesNewest
<1> QED  BY <1>1, <1>2, <1>3, <1>4, <1>5 DEF IInv

LEMMA SaveLoginKeeps ==
    ASSUME TypeOK, IInv, ~Hurried, SaveLogin
    PROVE  IInv'
<1> USE DEF proton, tui, seen
<1>1. Behind' /\ ReplayNeedsAnother'
  BY DEF IInv, SaveLogin, Behind, ReplayNeedsAnother
<1>2. TokensKnown'
  BY NoneAssumption
     DEF IInv, SaveLogin, TokensKnown, SavesNewest, Known, TypeOK, Clients,
         Jobs
<1>3. Asked'
  BY DEF IInv, SaveLogin, Asked
<1>4. FlightAhead'
  BY DEF IInv, SaveLogin, FlightAhead, Asked, OneAtATime, OwnSession,
         SavesNewest, InFlight, SigningIn, Clients
<1>5. KeyInFlight'
  BY DEF IInv, SaveLogin, KeyInFlight, FlightAhead, OwnSession, Asked,
         SavesNewest, OneAtATime, InFlight, SigningIn, Clients
<1>6. OneAtATime'
  BY DEF IInv, SaveLogin, OneAtATime
<1>7. OwnSession'
  BY DEF IInv, SaveLogin, OwnSession, OneAtATime, SigningIn
<1>8. SavesNewest'
  BY DEF IInv, SaveLogin, SavesNewest
<1>9. NewestOnDisk'
  BY DEF IInv, SaveLogin, NewestOnDisk, SavesNewest
<1> QED  BY <1>1, <1>2, <1>3, <1>4, <1>5, <1>6, <1>7, <1>8, <1>9 DEF IInv

LEMMA LoginFailsKeeps ==
    ASSUME TypeOK, IInv, ~Hurried, LoginFails
    PROVE  IInv'
<1> USE DEF proton, tui, seen
<1>1. /\ TokensKnown' /\ FlightAhead' /\ KeyInFlight'
      /\ Behind' /\ NewestOnDisk' /\ ReplayNeedsAnother'
  BY TokensStay DEF LoginFails
<1>2. Asked'
  BY DEF IInv, LoginFails, Waits, Asked
<1>3. OneAtATime'
  BY DEF IInv, LoginFails, OneAtATime
<1>4. OwnSession'
  BY DEF IInv, LoginFails, OwnSession, OneAtATime, SigningIn
<1>5. SavesNewest'
  BY DEF IInv, LoginFails, SavesNewest
<1> QED  BY <1>1, <1>2, <1>3, <1>4, <1>5 DEF IInv

(* Signing out.                                                            *)
LEMMA SignOutKeeps ==
    ASSUME TypeOK, IInv, ~Hurried, SignOut
    PROVE  IInv'
<1> USE DEF proton, tui, seen
<1>1. SavesNewest' /\ Behind' /\ ReplayNeedsAnother'
  BY DEF IInv, SignOut, SavesNewest, Behind, ReplayNeedsAnother
<1>2. TokensKnown'
  BY DEF IInv, SignOut, TokensKnown, Known
<1>3. Asked'
  BY DEF IInv, SignOut, Asked
<1>4. FlightAhead'
  BY DEF IInv, SignOut, FlightAhead, InFlight
<1>5. KeyInFlight'
  BY DEF IInv, SignOut, KeyInFlight
<1>6. OneAtATime'
  BY DEF IInv, SignOut, OneAtATime
<1>7. OwnSession'
  BY DEF IInv, SignOut, OwnSession, SigningIn
<1>8. NewestOnDisk'
  BY DEF IInv, SignOut, NewestOnDisk
<1> QED  BY <1>1, <1>2, <1>3, <1>4, <1>5, <1>6, <1>7, <1>8 DEF IInv

LEMMA RevokeKeeps ==
    ASSUME TypeOK, IInv, ~Hurried, Revoke
    PROVE  IInv'
<1> USE DEF proton, tui, seen
<1>1. /\ TokensKnown' /\ FlightAhead' /\ KeyInFlight'
      /\ Behind' /\ NewestOnDisk' /\ ReplayNeedsAnother'
  BY TokensStay DEF Revoke
<1>2. OwnSession' /\ SavesNewest'
  BY DEF IInv, Revoke, OwnSession, SigningIn, SavesNewest
<1>3. Asked'
  BY DEF IInv, Revoke, Waits, Asked
<1>4. OneAtATime'
  BY DEF IInv, Revoke, OneAtATime
<1> QED  BY <1>1, <1>2, <1>3, <1>4 DEF IInv

LEMMA RevokeFailsKeeps ==
    ASSUME TypeOK, IInv, ~Hurried, RevokeFails
    PROVE  IInv'
<1> USE DEF proton, tui, seen
<1>1. /\ TokensKnown' /\ FlightAhead' /\ KeyInFlight'
      /\ Behind' /\ NewestOnDisk' /\ ReplayNeedsAnother'
  BY TokensStay DEF RevokeFails
<1>2. OwnSession' /\ SavesNewest'
  BY DEF IInv, RevokeFails, OwnSession, SigningIn, SavesNewest
<1>3. Asked'
  BY DEF IInv, RevokeFails, Waits, Asked
<1>4. OneAtATime'
  BY DEF IInv, RevokeFails, OneAtATime
<1> QED  BY <1>1, <1>2, <1>3, <1>4 DEF IInv

LEMMA WipeKeeps ==
    ASSUME TypeOK, IInv, ~Hurried, Wipe
    PROVE  IInv'
<1> USE DEF proton, tui, seen
<1>1. KeyInFlight' /\ NewestOnDisk' /\ ReplayNeedsAnother'
  BY DEF IInv, Wipe, KeyInFlight, NewestOnDisk, LostBy, ReplayNeedsAnother
<1>2. TokensKnown'
  BY DEF IInv, Wipe, TokensKnown, Known
<1>3. Asked'
  BY DEF IInv, Wipe, Asked, OneAtATime
<1>4. FlightAhead'
  BY DEF IInv, Wipe, FlightAhead, Asked, OneAtATime, InFlight
<1>5. OneAtATime'
  BY DEF IInv, Wipe, OneAtATime
<1>6. OwnSession'
  BY DEF IInv, Wipe, OwnSession, OneAtATime, SigningIn
<1>7. SavesNewest'
  BY DEF IInv, Wipe, SavesNewest, OneAtATime
<1>8. Behind'
  BY DEF IInv, Wipe, Behind
<1> QED  BY <1>1, <1>2, <1>3, <1>4, <1>5, <1>6, <1>7, <1>8 DEF IInv

LEMMA RefusedKeeps ==
    ASSUME TypeOK, IInv, ~Hurried, Refused
    PROVE  IInv'
<1> USE DEF proton, tui, seen
<1>1. ReplayNeedsAnother'
  BY DEF IInv, Refused, ReplayNeedsAnother
<1>2. TokensKnown'
  BY DEF IInv, Refused, TokensKnown, Known
<1>3. Asked'
  BY DEF IInv, Refused, Asked, TypeOK, Clients
<1>4. FlightAhead'
  BY DEF IInv, Refused, FlightAhead, InFlight
<1>5. KeyInFlight'
  BY DEF IInv, Refused, KeyInFlight
<1>6. OneAtATime'
  BY DEF IInv, Refused, OneAtATime, Asked
<1>7. OwnSession'
  BY DEF IInv, Refused, OwnSession, OneAtATime, SigningIn
<1>8. SavesNewest'
  BY DEF IInv, Refused, SavesNewest
<1>9. Behind'
  BY DEF IInv, Refused, Behind
<1>10. NewestOnDisk'
  BY DEF IInv, Refused, NewestOnDisk, LostBy
<1> QED  BY <1>1, <1>2, <1>3, <1>4, <1>5, <1>6, <1>7, <1>8, <1>9, <1>10 DEF IInv

-----------------------------------------------------------------------------
(* 4. The theorems.                                                        *)

LEMMA IInvInit == Init => IInv
<1> SUFFICES ASSUME Init  PROVE IInv
  OBVIOUS
<1>1. /\ \A s \in Sids : gen[s] = 0
      /\ \A c \in Clients : mem[c] = None /\ refresh[c] = None
      /\ TUI \in Clients
  BY DEF Init, Clients
<1>2. TokensKnown /\ FlightAhead /\ KeyInFlight /\ Behind
  BY <1>1 DEF Init, TokensKnown, FlightAhead, InFlight, KeyInFlight, Behind
<1>3. Asked /\ OneAtATime /\ OwnSession /\ SavesNewest
  BY <1>1 DEF Init, Asked, OneAtATime, OwnSession, SigningIn, SavesNewest
<1>4. NewestOnDisk /\ ReplayNeedsAnother
  BY DEF Init, NewestOnDisk, ReplayNeedsAnother
<1> QED  BY <1>2, <1>3, <1>4 DEF IInv

LEMMA IInvKept ==
    ASSUME TypeOK, IInv, ~Hurried, [Next]_vars
    PROVE  IInv'
<1>1. ASSUME NEW c \in Clients, RefreshStep(c)
      PROVE  IInv'
  BY <1>1, RefreshKeeps, LoseKeeps, ReceiveKeeps, StoreKeeps, StoreFailsKeeps
     DEF RefreshStep
<1>2. ASSUME NEW b \in Bridges, Start(b) \/ Stop(b) \/ Deauth(b)
      PROVE  IInv'
  BY <1>2, StartKeeps, StopKeeps, DeauthKeeps
<1>3. CASE Open \/ Quit \/ Resumed \/ ResumeFails \/ Refused
  BY <1>3, OpenKeeps, QuitKeeps, ResumedKeeps, ResumeFailsKeeps, RefusedKeeps
<1>4. CASE LoginStep
  BY <1>4, SubmitKeeps, SubmitCodeKeeps, SubmitMailboxKeeps, LoginKeeps,
     CodeAcceptedKeeps, FinishLoginKeeps, VerifiedKeeps, SaveLoginKeeps,
     LoginFailsKeeps DEF LoginStep
<1>5. CASE LogoutStep
  BY <1>5, SignOutKeeps, RevokeKeeps, RevokeFailsKeeps, WipeKeeps DEF LogoutStep
<1>6. CASE UNCHANGED vars
  <2> USE <1>6 DEF vars, proton, tui, seen
  <2>1. /\ TokensKnown' /\ FlightAhead' /\ KeyInFlight'
        /\ Behind' /\ NewestOnDisk' /\ ReplayNeedsAnother'
    BY TokensStay
  <2>2. Asked' /\ OneAtATime' /\ OwnSession' /\ SavesNewest'
    BY DEF IInv, Asked, OneAtATime, OwnSession, SigningIn, SavesNewest
  <2> QED  BY <2>1, <2>2 DEF IInv
<1> QED  BY <1>1, <1>2, <1>3, <1>4, <1>5, <1>6 DEF Next

(* While nothing is begun before a command of the TUI has ended, all of    *)
(* this holds of any number of sessions, bridges and rotations.            *)
THEOREM TokensHold ==
    ASSUME ~Hurried
    PROVE  Spec => [](TypeOK /\ IInv)
<1>1. Init => IInv
  BY IInvInit
<1>2. TypeOK /\ IInv /\ [Next]_vars => IInv'
  BY IInvKept
<1> QED  BY <1>1, <1>2, TypesHold, PTL DEF Spec

(* The file has the newest pair of its session, unless that pair is on its *)
(* way there or was lost.                                                  *)
THEOREM NewestOnDiskHolds ==
    ASSUME ~Hurried
    PROVE  Spec => []NewestOnDisk
<1>1. IInv => NewestOnDisk
  BY DEF IInv
<1> QED  BY <1>1, TokensHold, PTL

(* Only after another client's rotation, or a lost pair, is a spent token  *)
(* presented.                                                              *)
THEOREM ReplaysNeedAnother ==
    ASSUME ~Hurried
    PROVE  Spec => []ReplayNeedsAnother
<1>1. IInv => ReplayNeedsAnother
  BY DEF IInv
<1> QED  BY <1>1, TokensHold, PTL

(* No rotation takes the key passphrase from the session in the file: the  *)
(* pair that is written carries what the file had when it was granted, and *)
(* the file has gained no key since.                                       *)
THEOREM KeysKept ==
    ASSUME ~Hurried
    PROVE  Spec => KeyKept
<1> DEFINE Kept == UNCHANGED job /\ file # None /\ file' # None
                      /\ file.uid = file'.uid => (file.key => file'.key)
<1>1. TypeOK /\ IInv /\ [Next]_vars => [Kept]_vars
  <2> SUFFICES ASSUME TypeOK, IInv, Next  PROVE Kept
    OBVIOUS
  <2>1. CASE UNCHANGED file
    BY <2>1
  <2>2. ASSUME NEW c \in Clients, Store(c)
        PROVE  Kept
    BY <2>2 DEF IInv, Store, KeyInFlight, FlightAhead, InFlight, TokensKnown
  <2>3. CASE SaveLogin
    BY <2>3 DEF SaveLogin
  <2>4. ASSUME NEW b \in Bridges, Deauth(b)
        PROVE  Kept
    BY <2>4 DEF Deauth
  <2>5. CASE SignOut \/ Refused
    BY <2>5 DEF SignOut, Refused
  <2> HIDE DEF Kept
  <2>6. ASSUME NEW c \in Clients, RefreshStep(c)
        PROVE  Kept
    BY <2>6, <2>1, <2>2 DEF RefreshStep, Refresh, Lose, Receive, StoreFails
  <2>7. ASSUME NEW b \in Bridges, Start(b) \/ Stop(b) \/ Deauth(b)
        PROVE  Kept
    BY <2>7, <2>1, <2>4 DEF Start, Stop
  <2>8. CASE Open \/ Quit \/ Resumed \/ ResumeFails \/ Refused
    BY <2>8, <2>1, <2>5 DEF Open, Quit, Resumed, ResumeFails
  <2>9. CASE LoginStep
    BY <2>9, <2>1, <2>3 DEF LoginStep, Submit, SubmitCode, SubmitMailbox, Login,
       CodeAccepted, FinishLogin, Verified, LoginFails
  <2>10. CASE LogoutStep
    BY <2>10, <2>1, <2>5 DEF LogoutStep, Revoke, RevokeFails, Wipe
  <2> QED  BY <2>6, <2>7, <2>8, <2>9, <2>10 DEF Next
<1>2. Spec => [][Kept]_vars
  <2> HIDE DEF Kept
  <2> QED  BY <1>1, TokensHold, PTL DEF Spec
<1> QED  BY <1>2 DEF KeyKept

=============================================================================
