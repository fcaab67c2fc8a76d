---------------------------- MODULE NodeRequests ----------------------------
(***************************************************************************)
(* What the clientd hub promises those who ask something of a node,        *)
(* without connections, channels or acknowledgements: the node handles a   *)
(* request at most once, a request may be lost, and an answer is true of   *)
(* the request it is given to, for good.                                   *)
(***************************************************************************)
CONSTANTS
    Msgs        \* requests

VARIABLES
    pending,    \* requests the node may still come to handle
    applied,    \* requests it has carried out
    answer      \* [Msgs -> what its operator was told, "none" so far]

vars == <<pending, applied, answer>>

Unanswered == {m \in Msgs : answer[m] = "none"}
Tell(m, a) == m \in Unanswered /\ answer' = [answer EXCEPT ![m] = a]

Init ==
    /\ pending = Msgs
    /\ applied = {}
    /\ answer = [m \in Msgs |-> "none"]

Handle(m, ok) ==
    /\ m \in pending
    /\ pending' = pending \ {m}
    /\ applied' = IF ok THEN applied \cup {m} ELSE applied
    /\ UNCHANGED answer

Lose(m) ==
    /\ m \in pending
    /\ pending' = pending \ {m}
    /\ UNCHANGED <<applied, answer>>

\* The node's own answer: what became of the request is settled.
Succeed(m) ==
    /\ m \in applied
    /\ Tell(m, "ok")
    /\ UNCHANGED <<pending, applied>>

Fail(m) ==
    /\ m \notin applied \cup pending
    /\ Tell(m, "failed")
    /\ UNCHANGED <<pending, applied>>

\* The hub's answer: the request is withdrawn, and the node will never see it.
Refuse(m, a) ==
    /\ m \in pending
    /\ Tell(m, a)
    /\ pending' = pending \ {m}
    /\ UNCHANGED applied

\* No answer in time says nothing: the node may have handled the request, or may yet.
GiveUp(m) ==
    /\ Tell(m, "timeout")
    /\ UNCHANGED <<pending, applied>>

\* serverd ends: some requests never leave it, and those who wait hear nothing.
Crash(L, S) ==
    /\ pending' = pending \ L
    /\ answer' = [m \in Msgs |-> IF m \in S THEN "lost" ELSE answer[m]]
    /\ UNCHANGED applied

Next ==
    \/ \E L \in SUBSET pending, S \in SUBSET Unanswered : Crash(L, S)
    \/ \E m \in Msgs :
          \/ \E ok \in BOOLEAN : Handle(m, ok)
          \/ Lose(m) \/ Succeed(m) \/ Fail(m) \/ GiveUp(m)
          \/ \E a \in {"offline", "refused"} : Refuse(m, a)

Spec == Init /\ [][Next]_vars
=============================================================================
