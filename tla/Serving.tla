------------------------------ MODULE Serving ------------------------------
(***************************************************************************)
(* What RequestSync promises an interactive client (daemon.go:276-303),    *)
(* without channels, triggers, pauses or rate limits: one counter with one *)
(* line before it.  A client joins the line once, the line is served in    *)
(* its order and one at a time, the counter may do work of its own between *)
(* two clients, and whoever is attended to is told when it is over.        *)
(***************************************************************************)
EXTENDS Naturals, Sequences

CONSTANTS
    Clients,  \* who may ask
    Nobody    \* for whom the counter's own work is

VARIABLES
    line,     \* the clients that wait, in order
    busy,     \* is the counter at work?
    for,      \* and for whom
    served    \* the clients that have been told

vars == <<line, busy, for, served>>

Init ==
    /\ line = <<>> /\ served = {}
    /\ busy = FALSE /\ for = Nobody

InLine(c) == \E i \in 1 .. Len(line) : line[i] = c

Join(c) ==
    /\ ~InLine(c) /\ for # c /\ c \notin served
    /\ line' = Append(line, c)
    /\ UNCHANGED <<busy, for, served>>

Serve ==
    /\ ~busy /\ line # <<>>
    /\ busy' = TRUE
    /\ for' = Head(line) /\ line' = Tail(line)
    /\ UNCHANGED served

OwnWork ==
    /\ ~busy
    /\ busy' = TRUE
    /\ UNCHANGED <<line, for, served>>

Finish ==
    /\ busy
    /\ busy' = FALSE /\ for' = Nobody
    /\ served' = served \cup ({for} \ {Nobody})
    /\ UNCHANGED line

Next == (\E c \in Clients : Join(c)) \/ Serve \/ OwnWork \/ Finish

Spec == Init /\ [][Next]_vars
=============================================================================
