----------------------------- MODULE Multicast -----------------------------
(***************************************************************************)
(* The multicast scheduler (internal/multicast) and the agents that use it *)
(* (cmd/clustr, pkg/client): sessions that gather nodes for one image      *)
(* until a window closes, the goroutine that fires each of them, the ports *)
(* they send from, and their rows in multicast_sessions.                   *)
(*                                                                         *)
(* What runs under Scheduler.mu is one step; a session's goroutine drops   *)
(* the lock between its steps, and statements on a row need no lock.       *)
(***************************************************************************)
EXTENDS Integers, FiniteSets

CONSTANTS
    Nodes, Images,
    MaxSessions,  \* bound: sessions an instance may create
    NPorts,       \* the ports 9000..9999
    Threshold,    \* multicast_config.threshold
    FaultKinds,   \* a refused insert, a refused update of a row, a reboot of a node, a restart
    MaxFaults     \* bound: how many of them

ASSUME MulticastAssumption ==
    /\ MaxSessions \in Nat
    /\ NPorts \in Nat
    /\ Threshold \in Nat
    /\ MaxFaults \in Nat

Sessions  == 1..MaxSessions
Ports     == 1..NPorts
NoSession == 0
NoPort    == 0

VARIABLES
    entry,   \* [Sessions -> Entry], the session and the place of its goroutine
    open,    \* Scheduler.sessions: those in the map
    used,    \* portAlloc.used
    row,     \* [Sessions -> Row], table multicast_sessions
    agent,   \* [Nodes -> Agent], the deploy agents
    faults

vars == <<entry, open, used, row, agent, faults>>

\* Where runWindow is. "below" and "ended" have the terminal state still to settle.
Stages  == {"free", "window", "fired", "described", "sending", "below", "ended", "released",
            "forgotten", "over", "unsettled"}
Holding == {"window", "fired", "described", "sending", "below", "ended"}
Entry == [stage : Stages, state : {"staging", "transmitting"}, image : Images, port : Ports,
          members : Nat, failed : BOOLEAN, descriptor : BOOLEAN, ready : BOOLEAN, final : {"failed", "complete"}]
NoEntry == [stage |-> "free"]

Terminal == {"complete", "failed", "partial"}
Row == [state : {"none", "staging", "transmitting"} \cup Terminal, members : Nat]

Places == {"idle", "enrolled", "polling", "receiving", "unicast", "reporting", "done"}
Agent  == [at : Places, session : Sessions \cup {NoSession},
           outcome : {"none", "success", "failed", "fellback"}]

FreePorts == {p \in Ports : used[p] = NoSession}
Fault(kind) == kind \in FaultKinds /\ faults < MaxFaults /\ faults' = faults + 1
SetState(s, state) == row' = [row EXCEPT ![s].state = state]
\* An UPDATE whose error is logged or ignored: the row may stay as it was.
Attempts(update) == \/ update /\ UNCHANGED faults
                    \/ UNCHANGED row /\ Fault("record")
Goes(n, place) == agent' = [agent EXCEPT ![n].at = place]
GoesWith(n, place, s) == agent' = [agent EXCEPT ![n] = [at |-> place, session |-> s, outcome |-> "none"]]

Init ==
    /\ entry = [s \in Sessions |-> NoEntry]
    /\ open = {}
    /\ used = [p \in Ports |-> NoSession]
    /\ row = [s \in Sessions |-> [state |-> "none", members |-> 0]]
    /\ agent = [n \in Nodes |-> [at |-> "idle", session |-> NoSession, outcome |-> "none"]]
    /\ faults = 0
-----------------------------------------------------------------------------
(* Scheduler.Enqueue, under the lock.                                      *)

\* A session of this image (and layout) that is still staging, though its goroutine may have
\* failed it a moment ago and not yet taken it out of the map.
Attachable(s, img) == s \in open /\ entry[s].state = "staging" /\ entry[s].image = img

\* attachMember: every call counts, whether or not the node is a member already.
Attaches(n, img) ==
    \E s \in Sessions :
        /\ agent[n].at = "idle"
        /\ Attachable(s, img)
        /\ entry' = [entry EXCEPT ![s].members = @ + 1]
        /\ Attempts(row' = [row EXCEPT ![s] = [state |-> "staging", members |-> entry[s].members + 1]])
        /\ GoesWith(n, "enrolled", s)
        /\ UNCHANGED <<open, used>>

NeedsSession(n, img) == agent[n].at = "idle" /\ ~\E s \in Sessions : Attachable(s, img)
Unused(s) == entry[s].stage = "free" /\ \A t \in Sessions : t < s => entry[t].stage # "free"

\* createSession: the lowest free port, the row, the entry and its goroutine.
Creates(n, img) ==
    \E s \in Sessions, p \in FreePorts :
        /\ NeedsSession(n, img)
        /\ Unused(s)
        /\ \A q \in FreePorts : p <= q
        /\ used' = [used EXCEPT ![p] = s]
        /\ entry' = [entry EXCEPT ![s] =
               [stage |-> "window", state |-> "staging", image |-> img, port |-> p,
                members |-> 1, failed |-> FALSE, descriptor |-> FALSE, ready |-> FALSE,
                final |-> "failed"]]
        /\ open' = open \cup {s}
        /\ row' = [row EXCEPT ![s] = [state |-> "staging", members |-> 1]]
        /\ GoesWith(n, "enrolled", s)
        /\ UNCHANGED faults

\* Mutant: the port is not given back when the row cannot be inserted.
CreateRefused_KeepsPort(n, img) ==
    \E s \in Sessions, p \in FreePorts :
        /\ NeedsSession(n, img)
        /\ Unused(s)
        /\ Fault("insert")
        /\ used' = [used EXCEPT ![p] = s]
        /\ GoesWith(n, "unicast", NoSession)
        /\ UNCHANGED <<entry, open, row>>
\* The row cannot be inserted: the port is given back and the node goes on by unicast.
CreateRefused(n, img) ==
    /\ NeedsSession(n, img)
    /\ FreePorts # {}
    /\ Fault("insert")
    /\ GoesWith(n, "unicast", NoSession)
    /\ UNCHANGED <<entry, open, used, row>>

\* Acquire finds every port in use.
PortsExhausted(n, img) ==
    /\ NeedsSession(n, img)
    /\ FreePorts = {}
    /\ GoesWith(n, "unicast", NoSession)
    /\ UNCHANGED <<entry, open, used, row, faults>>
-----------------------------------------------------------------------------
(* runWindow and cleanupSession: the goroutine of a session.               *)

\* The window is over with too few members: the waiters are told, then the session is cleaned up.
FallsBelow(s) ==
    /\ entry[s].stage = "window"
    /\ entry[s].members < Threshold
    /\ entry' = [entry EXCEPT ![s].stage = "below", ![s].failed = TRUE, ![s].ready = TRUE]
    /\ UNCHANGED <<open, used, row, agent, faults>>

\* The window is over: from here on nobody may join.
Fires(s) ==
    /\ entry[s].stage = "window"
    /\ entry[s].members >= Threshold
    /\ entry' = [entry EXCEPT ![s].stage = "fired", ![s].state = "transmitting"]
    /\ UNCHANGED <<open, used, row, agent, faults>>

\* Mutant: ready is closed before the descriptor is there.
Describes_ReadyFirst(s) ==
    /\ entry[s].stage = "fired"
    /\ Attempts(SetState(s, "transmitting"))
    /\ entry' = [entry EXCEPT ![s].stage = "described", ![s].ready = TRUE]
    /\ UNCHANGED <<open, used, agent>>
\* Persist "transmitting", then set the descriptor.
Describes(s) ==
    /\ entry[s].stage = "fired"
    /\ Attempts(SetState(s, "transmitting"))
    /\ entry' = [entry EXCEPT ![s].stage = "described", ![s].descriptor = TRUE]
    /\ UNCHANGED <<open, used, agent>>

\* close(ready), and the sender starts.
Announces(s) ==
    /\ entry[s].stage = "described"
    /\ entry' = [entry EXCEPT ![s].stage = "sending", ![s].ready = TRUE]
    /\ UNCHANGED <<open, used, row, agent, faults>>

\* udp-sender exits, in one way or the other.
SenderEnds(s, final) ==
    /\ entry[s].stage = "sending"
    /\ entry' = [entry EXCEPT ![s].stage = "ended", ![s].final = final]
    /\ UNCHANGED <<open, used, row, agent, faults>>

\* cleanupSession: release the port, then forget the session, then settle its row.
Releases(s) ==
    /\ entry[s].stage \in {"below", "ended"}
    /\ entry' = [entry EXCEPT ![s].stage = "released"]
    /\ used' = [used EXCEPT ![entry[s].port] = NoSession]
    /\ UNCHANGED <<open, row, agent, faults>>

\* Mutant: the row is settled while the session can still be joined.
Forgets_AfterSettling(s) ==
    \/ /\ entry[s].stage = "released"
       /\ entry' = [entry EXCEPT ![s].stage = "forgotten"]
       /\ SetState(s, entry[s].final)
       /\ UNCHANGED <<open, used, agent, faults>>
    \/ /\ entry[s].stage = "forgotten"
       /\ entry' = [entry EXCEPT ![s].stage = "over"]
       /\ open' = open \ {s}
       /\ UNCHANGED <<used, row, agent, faults>>
Forgets(s) ==
    /\ entry[s].stage = "released"
    /\ entry' = [entry EXCEPT ![s].stage = "forgotten"]
    /\ open' = open \ {s}
    /\ UNCHANGED <<used, row, agent, faults>>

Settles(s) ==
    /\ entry[s].stage = "forgotten"
    /\ entry' = [entry EXCEPT ![s].stage = "over"]
    /\ SetState(s, entry[s].final)
    /\ UNCHANGED <<open, used, agent, faults>>

\* The terminal state is written once, and an error is ignored.
SettleRefused(s) ==
    /\ entry[s].stage = "forgotten"
    /\ Fault("record")
    /\ entry' = [entry EXCEPT ![s].stage = "unsettled"]
    /\ UNCHANGED <<open, used, row, agent>>
-----------------------------------------------------------------------------
(* The agent: attemptMulticastReceive, Wait and the outcome it reports.    *)

\* Wait on a session in the map blocks on its ready channel; any other is a fallback.
Polls(n) ==
    /\ agent[n].at = "enrolled"
    /\ Goes(n, IF agent[n].session \in open THEN "polling" ELSE "unicast")
    /\ UNCHANGED <<entry, open, used, row, faults>>

\* ready is closed: the node falls back, or starts a receiver with the descriptor.
PollAnswered(n) ==
    LET e == entry[agent[n].session]
    IN  /\ agent[n].at = "polling"
        /\ e.ready
        /\ Goes(n, IF e.failed THEN "unicast" ELSE "receiving")
        /\ UNCHANGED <<entry, open, used, row, faults>>

\* After 5 s the handler answers 202 without a body. MulticastWait decodes it all the same,
\* fails at its end, and the agent goes on by unicast.
PollTimesOut(n) ==
    /\ agent[n].at = "polling"
    /\ Goes(n, "unicast")
    /\ UNCHANGED <<entry, open, used, row, faults>>

\* udp-receiver has delivered the image, or the deploy from its stream failed: the outcome is
\* reported before the node deploys again by unicast.
Receives(n) ==
    /\ agent[n].at = "receiving"
    /\ agent' = [agent EXCEPT ![n].at = "reporting", ![n].outcome = "success"]
    /\ UNCHANGED <<entry, open, used, row, faults>>

\* RecordOutcome: a node that failed or fell back makes its session partial, whatever its state.
RecordOutcome(s, outcome) ==
    row' = [row EXCEPT ![s].state = IF outcome = "success" THEN @ ELSE "partial"]

ReceiverFails(n) ==
    /\ agent[n].at = "receiving"
    /\ RecordOutcome(agent[n].session, "fellback")
    /\ Goes(n, "unicast")
    /\ UNCHANGED <<entry, open, used, faults>>

UnicastEnds(n, outcome) ==
    /\ agent[n].at = "unicast"
    /\ agent' = [agent EXCEPT ![n].at = IF agent[n].session = NoSession THEN "done" ELSE "reporting",
                              ![n].outcome = outcome]
    /\ UNCHANGED <<entry, open, used, row, faults>>

Reports(n) ==
    /\ agent[n].at = "reporting"
    /\ RecordOutcome(agent[n].session, agent[n].outcome)
    /\ Goes(n, "done")
    /\ UNCHANGED <<entry, open, used, faults>>

\* The node is power-cycled and deploys anew: a member twice, if its session still stages.
NodeReboots(n) ==
    /\ agent[n].at # "idle"
    /\ Fault("reboot")
    /\ GoesWith(n, "idle", NoSession)
    /\ UNCHANGED <<entry, open, used, row>>

Unsettled == {s \in Sessions : row[s].state \in {"staging", "transmitting"}}

\* serverd stops and starts: memory and blocked polls are lost, and Start marks the rows left
\* behind as failed. It ignores an error, and the row waits for the next Start.
ServerRestarts ==
    /\ Fault("restart")
    /\ \E lost \in SUBSET Unsettled :
          /\ lost # {} => "record" \in FaultKinds
          /\ entry' = [s \in Sessions |->
                 IF entry[s].stage = "free" THEN NoEntry
                 ELSE [entry[s] EXCEPT !.stage = IF s \in lost THEN "unsettled" ELSE "over"]]
          /\ row' = [s \in Sessions |-> IF s \in Unsettled \ lost
                                        THEN [row[s] EXCEPT !.state = "failed"] ELSE row[s]]
    /\ open' = {}
    /\ used' = [p \in Ports |-> NoSession]
    /\ agent' = [n \in Nodes |-> IF agent[n].at = "polling"
                                 THEN [agent[n] EXCEPT !.at = "unicast"] ELSE agent[n]]
-----------------------------------------------------------------------------
Enqueue(n) == \E img \in Images : \/ Attaches(n, img)
                                  \/ Creates(n, img)
                                  \/ CreateRefused(n, img)
                                  \/ PortsExhausted(n, img)

RunWindow(s) == \/ FallsBelow(s) \/ Fires(s) \/ Describes(s) \/ Announces(s)
                \/ \E final \in {"failed", "complete"} : SenderEnds(s, final)
                \/ Releases(s) \/ Forgets(s) \/ Settles(s) \/ SettleRefused(s)

AgentStep(n) == \/ Polls(n) \/ PollAnswered(n) \/ PollTimesOut(n)
                \/ Receives(n) \/ ReceiverFails(n)
                \/ \E outcome \in {"fellback", "failed"} : UnicastEnds(n, outcome)
                \/ Reports(n)

Next == \/ \E n \in Nodes : Enqueue(n) \/ AgentStep(n) \/ NodeReboots(n)
        \/ \E s \in Sessions : RunWindow(s)
        \/ ServerRestarts

Spec == Init /\ [][Next]_vars

\* The goroutine of a session goes on: its window has a timer and udp-sender ends.
MulticastFair == \A s \in Sessions : WF_vars(RunWindow(s))
-----------------------------------------------------------------------------
TypeOK ==
    /\ entry \in [Sessions -> Entry \cup {NoEntry}]
    /\ open \subseteq {s \in Sessions : entry[s].stage # "free"}
    /\ used \in [Ports -> Sessions \cup {NoSession}]
    /\ row \in [Sessions -> Row]
    /\ agent \in [Nodes -> Agent]
    /\ faults \in 0..MaxFaults

\* A port is taken by exactly the session that may be sending from it: two senders never share
\* one, and none is lost, whichever way sessions start, fail, overlap or end (portalloc.go).
PortsHeld ==
    \A p \in Ports, s \in Sessions :
        used[p] = s <=> entry[s].stage \in Holding /\ entry[s].port = p

\* A row in staging or transmitting belongs to a goroutine that will still write to it, or whose
\* last statement was refused: no late attachment brings a settled session back (cleanupSession
\* forgets the session under the lock before it settles the row).
RowHasOwner ==
    \A s \in Sessions : row[s].state \in {"staging", "transmitting"} =>
        entry[s].stage \notin {"free", "over"}

\* Whoever is woken by ready finds an answer, and only one: failed or a descriptor (Wait reads
\* them without looking at the session's state).
ReadyIsDecided ==
    \A s \in Sessions : entry[s].stage # "free" /\ entry[s].ready =>
        (entry[s].failed <=> ~entry[s].descriptor)

\* Every session that was begun ends in the database too, also when clustr-serverd restarts in
\* the middle of it, and its row never leaves the terminal states again.
RowSettles ==
    \A s \in Sessions :
        \/ row[s].state \in {"staging", "transmitting"} ~> [](row[s].state \in Terminal)
        \/ <>(entry[s].stage = "unsettled")

(* What the nodes may rely on (MulticastSession): through windows, restarts, reboots and   *)
(* late polls, a node receives only from a session that it joined in time and that sends.  *)
Phase(s) == CASE entry[s].stage = "free" -> "none"
              [] entry[s].stage \in {"forgotten", "over", "unsettled"} -> "done"
              [] OTHER -> IF entry[s].state = "staging" THEN "gathering" ELSE "closed"
Verdict(s) == IF entry[s].stage = "free" \/ ~entry[s].ready THEN "none"
              ELSE IF entry[s].failed THEN "fallback"
              ELSE IF entry[s].descriptor THEN "send" ELSE "none"
Joined(s) == IF entry[s].stage = "free" THEN 0 ELSE entry[s].members
Promise == INSTANCE MulticastSession WITH
    phase   <- [s \in Sessions |-> Phase(s)],
    members <- [s \in Sessions |-> Joined(s)],
    verdict <- [s \in Sessions |-> Verdict(s)],
    place   <- [n \in Nodes |-> agent[n].at],
    mine    <- [n \in Nodes |-> agent[n].session]
SessionSpec == Promise!Spec
=============================================================================
