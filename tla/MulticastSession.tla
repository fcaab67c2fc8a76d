-------------------------- MODULE MulticastSession --------------------------
(***************************************************************************)
(* What multicast promises the nodes that ask for an image, without ports, *)
(* rows, locks or ready channels.  A session gathers members until it is   *)
(* closed, once and for good, with enough of them, or called off.  Nobody  *)
(* joins one that is closed, and a node receives only from a session that  *)
(* it has joined and that sends; whoever is not served falls back to       *)
(* unicast.                                                                *)
(***************************************************************************)
EXTENDS Integers

CONSTANTS
    Nodes, Sessions,
    Threshold   \* members that make a stream worth while

VARIABLES
    phase,      \* [Sessions -> {"none", "gathering", "closed", "done"}]
    members,    \* [Sessions -> Nat], how often it was joined
    verdict,    \* [Sessions -> {"none", "send", "fallback"}], what its members are told
    place,      \* [Nodes -> where its agent is]
    mine        \* [Nodes -> the session it joined, or none]

vars == <<phase, members, verdict, place, mine>>

Goes(n, p) == place' = [place EXCEPT ![n] = p] /\ UNCHANGED mine
SessionsStay == UNCHANGED <<phase, members, verdict>>

Init ==
    /\ phase = [s \in Sessions |-> "none"]
    /\ members = [s \in Sessions |-> 0]
    /\ verdict = [s \in Sessions |-> "none"]
    /\ place = [n \in Nodes |-> "idle"]
    /\ mine = [n \in Nodes |-> 0]

Enrolls(n, s) ==
    /\ place[n] = "idle"
    /\ place' = [place EXCEPT ![n] = "enrolled"]
    /\ mine' = [mine EXCEPT ![n] = s]
    /\ members' = [members EXCEPT ![s] = @ + 1]
    /\ UNCHANGED verdict

Begin(n, s) == phase[s] = "none" /\ phase' = [phase EXCEPT ![s] = "gathering"] /\ Enrolls(n, s)

\* A session that has been called off can be joined until it is done: its members fall back.
Join(n, s) == phase[s] = "gathering" /\ UNCHANGED phase /\ Enrolls(n, s)

Alone(n) == /\ place[n] = "idle"
            /\ Goes(n, "unicast")
            /\ SessionsStay

Decide(s, v) == verdict[s] = "none" /\ verdict' = [verdict EXCEPT ![s] = v]

Close(s) ==
    /\ phase[s] = "gathering" /\ verdict[s] = "none"
    /\ members[s] >= Threshold
    /\ phase' = [phase EXCEPT ![s] = "closed"]
    /\ UNCHANGED <<members, verdict, place, mine>>

CallOff(s) ==
    /\ phase[s] = "gathering"
    /\ members[s] < Threshold
    /\ Decide(s, "fallback")
    /\ UNCHANGED <<phase, members, place, mine>>

Send(s) ==
    /\ phase[s] = "closed"
    /\ Decide(s, "send")
    /\ UNCHANGED <<phase, members, place, mine>>

End(s) ==
    /\ phase[s] \in {"gathering", "closed"}
    /\ verdict[s] # "none"
    /\ phase' = [phase EXCEPT ![s] = "done"]
    /\ UNCHANGED <<members, verdict, place, mine>>

\* The first poll: a session that is done cannot be waited for.
Wait(n) ==
    /\ place[n] = "enrolled"
    /\ Goes(n, IF phase[mine[n]] = "done" THEN "unicast" ELSE "polling")
    /\ SessionsStay

Receive(n) ==
    /\ place[n] = "polling"
    /\ verdict[mine[n]] = "send"
    /\ Goes(n, "receiving")
    /\ SessionsStay

\* The session was called off, the poll takes too long, or the stream breaks.
FallBack(n) ==
    /\ place[n] \in {"polling", "receiving"}
    /\ Goes(n, "unicast")
    /\ SessionsStay

\* A node has its image, and tells so, unless there is no session to tell it of.
Deployed(n) ==
    /\ \/ place[n] \in {"receiving", "unicast"} /\ mine[n] # 0 /\ Goes(n, "reporting")
       \/ place[n] = "unicast" /\ mine[n] = 0 /\ Goes(n, "done")
       \/ place[n] = "reporting" /\ Goes(n, "done")
    /\ SessionsStay

Reboot(n) ==
    /\ place[n] # "idle"
    /\ place' = [place EXCEPT ![n] = "idle"]
    /\ mine' = [mine EXCEPT ![n] = 0]
    /\ SessionsStay

\* The server forgets its sessions, and those who wait for one fall back.
Restart ==
    /\ phase' = [s \in Sessions |-> IF phase[s] = "none" THEN "none" ELSE "done"]
    /\ place' = [n \in Nodes |-> IF place[n] = "polling" THEN "unicast" ELSE place[n]]
    /\ UNCHANGED <<members, verdict, mine>>

Next ==
    \/ \E n \in Nodes : \/ \E s \in Sessions : Begin(n, s) \/ Join(n, s)
                        \/ Alone(n) \/ Wait(n) \/ Receive(n) \/ FallBack(n) \/ Deployed(n) \/ Reboot(n)
    \/ \E s \in Sessions : Close(s) \/ CallOff(s) \/ Send(s) \/ End(s)
    \/ Restart

Spec == Init /\ [][Next]_vars
=============================================================================
