-------------------------- MODULE RequestLifecycle --------------------------
(***************************************************************************)
(* The life of reimage requests as those who make them see it, without     *)
(* nodes, columns or program counters.  A row is closed for good, except   *)
(* by a call that has it in hands since it was open; a machine is power-   *)
(* cycled once per time Trigger takes a request in hands; Trigger takes an *)
(* immediate request once, and a scheduled one when its time has come and  *)
(* whenever it is found pending after that.                                *)
(***************************************************************************)
EXTENDS Integers

CONSTANTS
    Reqs        \* requests that may be made

VARIABLES
    status,     \* [Reqs -> status], "none" before the request is made
    later,      \* those made with a time to start at
    ripe,       \* those whose time has come
    hands,      \* [Reqs -> SUBSET Hands], what the calls at work may still do to a request
    cycles      \* [Reqs -> Nat], power cycles

vars == <<status, later, ripe, hands, cycles>>

\* "trigger": start its machine; "mark": say that it did; "cancel" and "report": write the
\* status an operator's cancel or a node's report calls for.
Hands    == {"trigger", "mark", "cancel", "report"}
Open     == {r \in Reqs : status[r] \in {"pending", "triggered"}}
Closures == {"complete", "failed", "canceled"}

Init ==
    /\ status = [r \in Reqs |-> "none"]
    /\ later = {}
    /\ ripe = {}
    /\ hands = [r \in Reqs |-> {}]
    /\ cycles = [r \in Reqs |-> 0]

\* The request passes its checks; its row comes later, or never when serverd ends.
Accept(r, L) ==
    /\ status[r] = "none"
    /\ status' = [status EXCEPT ![r] = "checked"]
    /\ later' = later \cup L
    /\ UNCHANGED <<ripe, hands, cycles>>

Insert(r) ==
    /\ status[r] = "checked"
    /\ status' = [status EXCEPT ![r] = "pending"]
    /\ hands' = [hands EXCEPT ![r] = IF r \in later THEN {} ELSE {"trigger"}]
    /\ UNCHANGED <<later, ripe, cycles>>

Ripen(r) ==
    /\ status[r] = "pending"
    /\ r \in later \ ripe
    /\ ripe' = ripe \cup {r}
    /\ UNCHANGED <<status, later, hands, cycles>>

Take(S, h) ==
    /\ \/ h = "trigger" /\ S \subseteq {r \in ripe : status[r] = "pending" /\ "mark" \notin hands[r]}
       \/ h \in {"cancel", "report"}
    /\ hands' = [r \in Reqs |-> IF r \in S THEN hands[r] \cup {h} ELSE hands[r]]
    /\ UNCHANGED <<status, later, ripe, cycles>>

\* The machine is cycled, or left alone for a dry run: for this time that is done.
Start(r) ==
    /\ "trigger" \in hands[r]
    /\ hands' = [hands EXCEPT ![r] = (@ \ {"trigger"}) \cup {"mark"}]
    /\ \E k \in {0, 1} : cycles' = [cycles EXCEPT ![r] = @ + k]
    /\ UNCHANGED <<status, later, ripe>>

\* A call writes what it set out to write, whatever the row says by now. A Trigger that fails
\* may have cycled the machine all the same.
Write(r, h) ==
    /\ h \in hands[r]
    /\ status' = [status EXCEPT ![r] = CASE h = "mark"   -> "triggered"
                                         [] h = "cancel" -> "canceled"
                                         [] OTHER        -> "failed"]
    /\ hands' = [hands EXCEPT ![r] = @ \ {h}]
    /\ \E k \in {0, 1} : cycles' = [cycles EXCEPT ![r] = IF h = "trigger" THEN @ + k ELSE @]
    /\ UNCHANGED <<later, ripe>>

\* A statement over the open rows: a node's callback, or a cancel of everything.
Close(S, s) ==
    /\ status' = [r \in Reqs |-> IF r \in S THEN s ELSE status[r]]
    /\ UNCHANGED <<later, ripe, hands, cycles>>

\* A call ends without its write.
Release(r, h) ==
    /\ h \in hands[r]
    /\ hands' = [hands EXCEPT ![r] = @ \ {h}]
    /\ UNCHANGED <<status, later, ripe, cycles>>

Crash ==
    /\ status' = [r \in Reqs |-> IF status[r] = "checked" THEN "dropped" ELSE status[r]]
    /\ hands' = [r \in Reqs |-> {}]
    /\ UNCHANGED <<later, ripe, cycles>>

Next ==
    \/ \E S \in SUBSET Open : \/ \E s \in Closures : Close(S, s)
                              \/ \E h \in Hands : Take(S, h)
    \/ \E r \in Reqs : \/ \E L \in {{}, {r}} : Accept(r, L)
                       \/ Insert(r) \/ Ripen(r) \/ Start(r)
                       \/ \E h \in hands[r] : Write(r, h) \/ Release(r, h)
    \/ Crash

Spec == Init /\ [][Next]_vars
=============================================================================
