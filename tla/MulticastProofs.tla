-------------------------- MODULE MulticastProofs --------------------------
(***************************************************************************)
(* Theorems about Multicast, for any nodes, images, ports and threshold,   *)
(* with refused statements, reboots of nodes and restarts of the server.   *)
(***************************************************************************)
EXTENDS Multicast, TLAPS

(* In the initial state every variable has its type.                                       *)
LEMMA InitTyped == Init => TypeOK
BY MulticastAssumption DEF Init, TypeOK, NoEntry, Row, Agent, Places, Terminal, NoSession, Sessions

(* Giving a waiting agent a new place keeps its type.                                      *)
LEMMA GoesTyped ==
    ASSUME TypeOK, NEW n \in Nodes, NEW place \in Places, Goes(n, place)
    PROVE  agent' \in [Nodes -> Agent]
BY DEF TypeOK, Goes, Agent

(* So does enrolling it.                                                                   *)
LEMMA GoesWithTyped ==
    ASSUME TypeOK, NEW n \in Nodes, NEW place \in Places,
           NEW s \in Sessions \cup {NoSession}, GoesWith(n, place, s)
    PROVE  agent' \in [Nodes -> Agent]
BY DEF TypeOK, GoesWith, Agent

(* A node that asks for an image keeps the types.                                          *)
LEMMA EnqueueTyped ==
    ASSUME TypeOK, NEW n \in Nodes, NEW img \in Images,
           \/ Attaches(n, img) \/ Creates(n, img) \/ CreateRefused(n, img) \/ PortsExhausted(n, img)
    PROVE  TypeOK'
<1> USE DEF Places, NoSession
<1>1. ASSUME Attaches(n, img) PROVE TypeOK'
  <2>1. PICK s \in Sessions :
           /\ Attachable(s, img)
           /\ entry' = [entry EXCEPT ![s].members = @ + 1]
           /\ Attempts(row' = [row EXCEPT ![s] = [state |-> "staging", members |-> entry[s].members + 1]])
           /\ GoesWith(n, "enrolled", s)
    BY <1>1 DEF Attaches
  <2>2. agent' \in [Nodes -> Agent]
    BY <2>1, GoesWithTyped
  <2>3. entry[s] \in Entry /\ entry[s].stage # "free"
    BY <2>1 DEF TypeOK, Attachable, NoEntry
  <2>4. entry[s].members + 1 \in Nat
    BY <2>3 DEF Entry
  <2>5. entry' \in [Sessions -> Entry \cup {NoEntry}] /\ \A t \in Sessions : entry'[t].stage = entry[t].stage
    BY <2>1, <2>3, <2>4 DEF TypeOK, Entry
  <2>6. row' \in [Sessions -> Row] /\ faults' \in 0..MaxFaults
    BY <2>1, <2>4, MulticastAssumption DEF TypeOK, Row, Attempts, Fault
  <2> QED
    BY <1>1, <2>2, <2>5, <2>6 DEF Attaches, TypeOK
<1>2. ASSUME Creates(n, img) PROVE TypeOK'
  <2>1. agent' \in [Nodes -> Agent]
    BY <1>2, GoesWithTyped DEF Creates
  <2>2. PICK s \in Sessions, p \in FreePorts :
           /\ used' = [used EXCEPT ![p] = s]
           /\ entry' = [entry EXCEPT ![s] =
                  [stage |-> "window", state |-> "staging", image |-> img, port |-> p,
                   members |-> 1, failed |-> FALSE, descriptor |-> FALSE, ready |-> FALSE,
                   final |-> "failed"]]
           /\ open' = open \cup {s}
           /\ row' = [row EXCEPT ![s] = [state |-> "staging", members |-> 1]]
           /\ UNCHANGED faults
    BY <1>2 DEF Creates
  <2>3. entry' \in [Sessions -> Entry \cup {NoEntry}]
    BY <2>2 DEF TypeOK, Entry, Stages, FreePorts
  <2>4. open' \subseteq {t \in Sessions : entry'[t].stage # "free"}
    BY <2>2 DEF TypeOK
  <2>5. row' \in [Sessions -> Row]
    BY <2>2 DEF TypeOK, Row
  <2> QED
    BY <2>1, <2>2, <2>3, <2>4, <2>5 DEF TypeOK
<1>3. CASE CreateRefused(n, img)
  BY <1>3, GoesWithTyped, MulticastAssumption DEF CreateRefused, Fault, TypeOK
<1>4. CASE PortsExhausted(n, img)
  BY <1>4, GoesWithTyped DEF PortsExhausted, TypeOK
<1> QED
  BY <1>1, <1>2, <1>3, <1>4

(* A session's goroutine keeps the types.                                                  *)
LEMMA RunWindowTyped ==
    ASSUME TypeOK, NEW s \in Sessions, RunWindow(s)
    PROVE  TypeOK'
<1>1. entry[s] \in Entry /\ entry[s].stage # "free"
  BY DEF RunWindow, FallsBelow, Fires, Describes, Announces, SenderEnds, Releases, Forgets,
         Settles, SettleRefused, TypeOK, NoEntry
<1> USE <1>1 DEF TypeOK, Entry, Stages, Row, Terminal, SetState
<1>2. CASE FallsBelow(s)
  BY <1>2 DEF FallsBelow
<1>3. CASE Fires(s)
  BY <1>3 DEF Fires
<1>4. CASE Describes(s)
  <2>1. row' \in [Sessions -> Row] /\ faults' \in 0..MaxFaults
    BY <1>4, MulticastAssumption DEF Describes, Attempts, Fault
  <2> QED
    BY <1>4, <2>1 DEF Describes
<1>5. CASE Announces(s)
  BY <1>5 DEF Announces
<1>6. ASSUME NEW final \in {"failed", "complete"}, SenderEnds(s, final) PROVE TypeOK'
  BY <1>6 DEF SenderEnds
<1>7. CASE Releases(s)
  BY <1>7 DEF Releases
<1>8. CASE Forgets(s)
  BY <1>8 DEF Forgets
<1>9. CASE Settles(s)
  BY <1>9 DEF Settles
<1>10. CASE SettleRefused(s)
  BY <1>10, MulticastAssumption DEF SettleRefused, Fault
<1> QED
  BY <1>2, <1>3, <1>4, <1>5, <1>6, <1>7, <1>8, <1>9, <1>10 DEF RunWindow

(* An agent keeps the types.                                                               *)
LEMMA AgentTyped ==
    ASSUME TypeOK, NEW n \in Nodes, AgentStep(n)
    PROVE  TypeOK'
<1> USE DEF Places
<1>1. CASE Polls(n)
  BY <1>1, GoesTyped DEF Polls, TypeOK
<1>2. CASE PollAnswered(n)
  BY <1>2, GoesTyped DEF PollAnswered, TypeOK
<1>3. CASE PollTimesOut(n)
  BY <1>3, GoesTyped DEF PollTimesOut, TypeOK
<1>4. CASE Receives(n)
  BY <1>4 DEF Receives, TypeOK, Agent
<1>5. ASSUME NEW s, NEW outcome, RecordOutcome(s, outcome) PROVE row' \in [Sessions -> Row]
  BY <1>5 DEF RecordOutcome, TypeOK, Row, Terminal
<1>6. CASE ReceiverFails(n)
  BY <1>5, <1>6, GoesTyped DEF ReceiverFails, TypeOK
<1>7. ASSUME NEW outcome \in {"fellback", "failed"}, UnicastEnds(n, outcome) PROVE TypeOK'
  <2>1. PICK place \in {"done", "reporting"} :
           agent' = [agent EXCEPT ![n].at = place, ![n].outcome = outcome]
    BY <1>7 DEF UnicastEnds
  <2>2. agent' \in [Nodes -> Agent]
    BY <2>1 DEF TypeOK, Agent
  <2> QED
    BY <1>7, <2>2 DEF UnicastEnds, TypeOK
<1>8. CASE Reports(n)
  BY <1>5, <1>8, GoesTyped DEF Reports, TypeOK
<1> QED
  BY <1>1, <1>2, <1>3, <1>4, <1>6, <1>7, <1>8 DEF AgentStep

(* A restart of the server keeps the types.                                                *)
LEMMA RestartTyped ==
    ASSUME TypeOK, ServerRestarts
    PROVE  TypeOK'
<1>1. entry' \in [Sessions -> Entry \cup {NoEntry}]
  BY DEF ServerRestarts, TypeOK, Entry, Stages, NoEntry
<1>2. row' \in [Sessions -> Row]
  BY DEF ServerRestarts, TypeOK, Row, Terminal
<1>3. agent' \in [Nodes -> Agent]
  BY DEF ServerRestarts, TypeOK, Agent, Places
<1> QED
  BY <1>1, <1>2, <1>3, MulticastAssumption DEF ServerRestarts, Fault, TypeOK

(* Every step keeps the types.                                                             *)
LEMMA NextTyped == TypeOK /\ [Next]_vars => TypeOK'
<1> SUFFICES ASSUME TypeOK, [Next]_vars PROVE TypeOK'
  OBVIOUS
<1>1. ASSUME NEW n \in Nodes, NodeReboots(n) PROVE TypeOK'
  BY <1>1, GoesWithTyped, MulticastAssumption DEF NodeReboots, Fault, TypeOK, Places
<1>2. CASE UNCHANGED vars
  BY <1>2 DEF TypeOK, vars
<1> QED
  BY <1>1, <1>2, EnqueueTyped, RunWindowTyped, AgentTyped, RestartTyped DEF Next, Enqueue

(* Every variable keeps its type.                                                          *)
THEOREM TypeCorrect == Spec => []TypeOK
<1> QED
  BY InitTyped, NextTyped, PTL DEF Spec
-----------------------------------------------------------------------------
(* A port belongs to one session.  A session that holds one holds the port of its entry,   *)
(* nobody else has that, and what ends gives it back.                                      *)

(* No port is taken in the initial state.                                                  *)
LEMMA PortsInit == Init => PortsHeld
BY DEF Init, PortsHeld, NoEntry, Holding, Sessions, NoSession

(* A step of a session's goroutine changes its own stage; only Releases gives up the port. *)
LEMMA PortsRunWindow ==
    ASSUME TypeOK, PortsHeld, NEW s \in Sessions, RunWindow(s)
    PROVE  PortsHeld'
<1>1. entry[s] \in Entry /\ entry[s].stage # "free"
  BY DEF RunWindow, FallsBelow, Fires, Describes, Announces, SenderEnds, Releases, Forgets,
         Settles, SettleRefused, TypeOK, NoEntry
<1>2. ASSUME Releases(s) PROVE PortsHeld'
  <2>1. entry[s].stage \in Holding /\ entry[s].port \in Ports
    BY <1>1, <1>2 DEF Releases, Holding, Entry
  <2>2. entry'[s].stage = "released"
    BY <1>1, <1>2 DEF Releases, TypeOK, Entry
  <2>3. \A t \in Sessions \ {s} : entry'[t] = entry[t]
    BY <1>2 DEF Releases, TypeOK
  <2>4. \A p \in Ports : used'[p] = IF p = entry[s].port THEN NoSession ELSE used[p]
    BY <1>2 DEF Releases, TypeOK
  <2> QED
    BY <2>1, <2>2, <2>3, <2>4 DEF PortsHeld, Holding, NoSession, Sessions
<1>3. ASSUME ~Releases(s)
      PROVE  /\ used' = used
             /\ entry'[s].stage \in Holding <=> entry[s].stage \in Holding
             /\ entry'[s].port = entry[s].port
             /\ \A t \in Sessions \ {s} : entry'[t] = entry[t]
  BY <1>1, <1>3 DEF RunWindow, FallsBelow, Fires, Describes, Announces, SenderEnds, Forgets,
     Settles, SettleRefused, TypeOK, Entry, Holding
<1> QED
  BY <1>2, <1>3 DEF PortsHeld

(* So does every step.                                                                     *)
LEMMA PortsStep == TypeOK /\ PortsHeld /\ [Next]_vars => PortsHeld'
<1> SUFFICES ASSUME TypeOK, PortsHeld, [Next]_vars PROVE PortsHeld'
  OBVIOUS
<1>1. ASSUME NEW n \in Nodes, NEW img \in Images, Attaches(n, img) PROVE PortsHeld'
  <2>1. used' = used /\ \A s \in Sessions : entry'[s].stage = entry[s].stage /\ entry'[s].port = entry[s].port
    BY <1>1 DEF Attaches, TypeOK
  <2> QED
    BY <2>1 DEF PortsHeld
<1>2. ASSUME NEW n \in Nodes, NEW img \in Images, Creates(n, img) PROVE PortsHeld'
  <2>1. PICK s \in Sessions, p \in FreePorts :
           /\ Unused(s)
           /\ used' = [used EXCEPT ![p] = s]
           /\ entry' = [entry EXCEPT ![s] =
                  [stage |-> "window", state |-> "staging", image |-> img, port |-> p,
                   members |-> 1, failed |-> FALSE, descriptor |-> FALSE, ready |-> FALSE,
                   final |-> "failed"]]
    BY <1>2 DEF Creates
  <2>2. entry[s].stage = "free" /\ used[p] = NoSession /\ p \in Ports
    BY <2>1 DEF Unused, FreePorts
  <2>3. \A q \in Ports : used[q] # s /\ (used'[q] = IF q = p THEN s ELSE used[q])
    BY <2>1, <2>2 DEF PortsHeld, Holding, TypeOK
  <2>4. entry'[s].stage = "window" /\ entry'[s].port = p
    BY <2>1 DEF TypeOK
  <2>5. \A t \in Sessions \ {s} : entry'[t] = entry[t]
    BY <2>1 DEF TypeOK
  <2> QED
    BY <2>2, <2>3, <2>4, <2>5 DEF PortsHeld, Holding, NoSession, Sessions
<1>3. ASSUME NEW n \in Nodes, NEW img \in Images, CreateRefused(n, img) \/ PortsExhausted(n, img)
      PROVE  PortsHeld'
  BY <1>3 DEF CreateRefused, PortsExhausted, PortsHeld
<1>4. ASSUME NEW n \in Nodes, AgentStep(n) \/ NodeReboots(n) PROVE PortsHeld'
  BY <1>4 DEF AgentStep, Polls, PollAnswered, PollTimesOut, Receives, ReceiverFails, UnicastEnds,
     Reports, NodeReboots, PortsHeld
<1>5. ASSUME ServerRestarts PROVE PortsHeld'
  <2>1. \A s \in Sessions : entry'[s].stage \notin Holding
    BY <1>5 DEF ServerRestarts, TypeOK, NoEntry, Entry, Holding
  <2> QED
    BY <1>5, <2>1 DEF ServerRestarts, PortsHeld, NoSession, Sessions
<1>6. CASE UNCHANGED vars
  BY <1>6 DEF vars, PortsHeld
<1> QED
  BY <1>1, <1>2, <1>3, <1>4, <1>5, <1>6, PortsRunWindow DEF Next, Enqueue

(* A port is taken by exactly the session that may be sending from it, through every       *)
(* failure of its start, its window and its sender, and through restarts.                  *)
THEOREM PortsAreHeld == Spec => []PortsHeld
<1> QED
  BY PortsInit, PortsStep, TypeCorrect, PTL DEF Spec
-----------------------------------------------------------------------------
(* Nobody brings a settled row back.  Only a session in the map can be joined, and its     *)
(* goroutine takes it out before it writes the terminal state.                             *)
LiveStages == Stages \ {"free", "forgotten", "over", "unsettled"}
RowInv ==
    /\ RowHasOwner
    /\ \A s \in open : entry[s].stage \in LiveStages

(* There are no rows in the initial state.                                                 *)
LEMMA RowInit == Init => RowInv
BY DEF Init, RowInv, RowHasOwner, Terminal

(* A session's goroutine leaves the map before it settles.                                 *)
LEMMA RowRunWindow ==
    ASSUME TypeOK, RowInv, NEW s \in Sessions, RunWindow(s)
    PROVE  RowInv'
<1>1. entry[s] \in Entry /\ entry[s].stage # "free"
  BY DEF RunWindow, FallsBelow, Fires, Describes, Announces, SenderEnds, Releases, Forgets,
         Settles, SettleRefused, TypeOK, NoEntry
<1>2. \A t \in Sessions \ {s} : entry'[t] = entry[t] /\ row'[t] = row[t]
  BY DEF RunWindow, FallsBelow, Fires, Describes, Announces, SenderEnds, Releases, Forgets,
         Settles, SettleRefused, SetState, Attempts, TypeOK
<1>3. open' = open \/ open' = open \ {s}
  BY DEF RunWindow, FallsBelow, Fires, Describes, Announces, SenderEnds, Releases, Forgets,
         Settles, SettleRefused
<1>4. s \in open' => entry'[s].stage \in LiveStages
  <2>1. CASE Forgets(s)
    BY <2>1 DEF Forgets
  <2>2. CASE Settles(s) \/ SettleRefused(s)
    BY <2>2 DEF Settles, SettleRefused, RowInv, LiveStages
  <2>3. CASE FallsBelow(s) \/ Fires(s) \/ Describes(s) \/ Announces(s) \/ Releases(s)
             \/ \E final \in {"failed", "complete"} : SenderEnds(s, final)
    <3>1. entry'[s].stage \in {"below", "fired", "described", "sending", "ended", "released"}
      BY <1>1, <2>3 DEF FallsBelow, Fires, Describes, Announces, SenderEnds, Releases, TypeOK, Entry
    <3> QED
      BY <3>1 DEF LiveStages, Stages
  <2> QED
    BY <2>1, <2>2, <2>3 DEF RunWindow
<1>5. row'[s].state \in {"staging", "transmitting"} => entry'[s].stage \notin {"free", "over"}
  <2>1. CASE Settles(s)
    BY <1>1, <2>1 DEF Settles, SetState, TypeOK, Entry
  <2>2. CASE ~Settles(s)
    <3>1. entry'[s].stage \in {"below", "fired", "described", "sending", "ended", "released",
                               "forgotten", "unsettled"}
      BY <1>1, <2>2 DEF RunWindow, FallsBelow, Fires, Describes, Announces, SenderEnds, Releases,
         Forgets, SettleRefused, TypeOK, Entry
    <3> QED
      BY <3>1
  <2> QED
    BY <2>1, <2>2
<1> QED
  BY <1>2, <1>3, <1>4, <1>5 DEF RowInv, RowHasOwner, TypeOK

(* Every step keeps the rows with their owners.                                            *)
LEMMA RowStep == TypeOK /\ RowInv /\ [Next]_vars => RowInv'
<1> SUFFICES ASSUME TypeOK, RowInv, [Next]_vars PROVE RowInv'
  OBVIOUS
<1>1. ASSUME NEW n \in Nodes, NEW img \in Images, Attaches(n, img) PROVE RowInv'
  <2>1. PICK s \in open :
           row' \in {row, [row EXCEPT ![s] = [state |-> "staging", members |-> entry[s].members + 1]]}
    BY <1>1 DEF Attaches, Attachable, Attempts
  <2>2. \A t \in Sessions : entry'[t].stage = entry[t].stage
    BY <1>1 DEF Attaches, TypeOK
  <2> QED
    BY <1>1, <2>1, <2>2 DEF Attaches, RowInv, RowHasOwner, TypeOK, LiveStages
<1>2. ASSUME NEW n \in Nodes, NEW img \in Images, Creates(n, img) PROVE RowInv'
  <2>1. PICK s \in Sessions, p \in FreePorts :
           /\ entry' = [entry EXCEPT ![s] =
                  [stage |-> "window", state |-> "staging", image |-> img, port |-> p,
                   members |-> 1, failed |-> FALSE, descriptor |-> FALSE, ready |-> FALSE,
                   final |-> "failed"]]
           /\ open' = open \cup {s}
           /\ row' = [row EXCEPT ![s] = [state |-> "staging", members |-> 1]]
    BY <1>2 DEF Creates
  <2>2. entry'[s].stage = "window" /\ \A t \in Sessions \ {s} : entry'[t] = entry[t] /\ row'[t] = row[t]
    BY <2>1 DEF TypeOK
  <2> QED
    BY <2>1, <2>2 DEF RowInv, RowHasOwner, LiveStages, Stages, TypeOK
<1>3. ASSUME NEW n \in Nodes, NEW img \in Images, CreateRefused(n, img) \/ PortsExhausted(n, img)
      PROVE  RowInv'
  BY <1>3 DEF CreateRefused, PortsExhausted, RowInv, RowHasOwner
<1>4. ASSUME NEW n \in Nodes, AgentStep(n) \/ NodeReboots(n) PROVE RowInv'
  <2>1. UNCHANGED <<entry, open>>
    BY <1>4 DEF AgentStep, Polls, PollAnswered, PollTimesOut, Receives, ReceiverFails, UnicastEnds,
       Reports, NodeReboots
  <2>2. \A s \in Sessions : row'[s].state \in {row[s].state, "partial"}
    <3>1. ASSUME NEW t, NEW outcome, RecordOutcome(t, outcome)
          PROVE  \A s \in Sessions : row'[s].state \in {row[s].state, "partial"}
      BY <3>1 DEF RecordOutcome, TypeOK, Row
    <3>2. UNCHANGED row \/ \E t, outcome : RecordOutcome(t, outcome)
      BY <1>4 DEF AgentStep, Polls, PollAnswered, PollTimesOut, Receives, ReceiverFails,
         UnicastEnds, Reports, NodeReboots
    <3> QED
      BY <3>1, <3>2
  <2> QED
    BY <2>1, <2>2 DEF RowInv, RowHasOwner
<1>5. ASSUME ServerRestarts PROVE RowInv'
  <2>1. PICK lost \in SUBSET Unsettled :
           /\ entry' = [s \in Sessions |->
                 IF entry[s].stage = "free" THEN NoEntry
                 ELSE [entry[s] EXCEPT !.stage = IF s \in lost THEN "unsettled" ELSE "over"]]
           /\ row' = [s \in Sessions |-> IF s \in Unsettled \ lost
                                         THEN [row[s] EXCEPT !.state = "failed"] ELSE row[s]]
    BY <1>5 DEF ServerRestarts
  <2>2. \A s \in Sessions : row'[s].state \in {"staging", "transmitting"} => s \in lost
    BY <2>1 DEF Unsettled, TypeOK, Row
  <2>3. \A s \in lost : entry[s] \in Entry
    BY DEF Unsettled, RowInv, RowHasOwner, TypeOK, NoEntry
  <2>4. \A s \in lost : entry'[s].stage = "unsettled"
    BY <2>1, <2>3 DEF Unsettled, RowInv, RowHasOwner, Entry
  <2> QED
    BY <1>5, <2>2, <2>4 DEF ServerRestarts, RowInv, RowHasOwner
<1>6. CASE UNCHANGED vars
  BY <1>6 DEF vars, RowInv, RowHasOwner
<1> QED
  BY <1>1, <1>2, <1>3, <1>4, <1>5, <1>6, RowRunWindow DEF Next, Enqueue

(* A row in staging or transmitting has a goroutine that will still write to it, unless    *)
(* its last statement was refused.                                                         *)
THEOREM RowsHaveOwners == Spec => []RowHasOwner
<1>1. RowInv => RowHasOwner
  BY DEF RowInv
<1> QED
  BY <1>1, RowInit, RowStep, TypeCorrect, PTL DEF Spec
-----------------------------------------------------------------------------
(* The verdict on a session is written before ready is closed.  Before that, how far its   *)
(* goroutine has come says what is there.                                                  *)
VerdictInv ==
    \A s \in Sessions :
        /\ entry[s].stage \in {"window", "fired"} =>
               ~entry[s].ready /\ ~entry[s].failed /\ ~entry[s].descriptor
        /\ entry[s].stage = "described" => ~entry[s].failed /\ entry[s].descriptor
        /\ entry[s].stage # "free" /\ entry[s].ready => (entry[s].failed <=> ~entry[s].descriptor)

(* A session's goroutine decides once.                                                     *)
LEMMA VerdictRunWindow ==
    ASSUME TypeOK, VerdictInv, NEW s \in Sessions, RunWindow(s)
    PROVE  VerdictInv'
<1>1. entry[s] \in Entry /\ entry[s].stage # "free"
  BY DEF RunWindow, FallsBelow, Fires, Describes, Announces, SenderEnds, Releases, Forgets,
         Settles, SettleRefused, TypeOK, NoEntry
<1>2. \A t \in Sessions \ {s} : entry'[t] = entry[t]
  BY DEF RunWindow, FallsBelow, Fires, Describes, Announces, SenderEnds, Releases, Forgets,
         Settles, SettleRefused, TypeOK
<1>3. CASE FallsBelow(s)
  <2>1. entry'[s].stage = "below" /\ entry'[s].failed /\ entry'[s].descriptor = entry[s].descriptor
    BY <1>1, <1>3 DEF FallsBelow, TypeOK, Entry
  <2> QED
    BY <1>2, <1>3, <2>1 DEF FallsBelow, VerdictInv
<1>4. CASE Fires(s)
  BY <1>1, <1>2, <1>4 DEF Fires, TypeOK, VerdictInv
<1>5. CASE Describes(s)
  BY <1>1, <1>2, <1>5 DEF Describes, TypeOK, Entry, VerdictInv
<1>6. CASE Announces(s)
  BY <1>1, <1>2, <1>6 DEF Announces, TypeOK, VerdictInv
<1>7. CASE Releases(s) \/ Forgets(s) \/ Settles(s) \/ SettleRefused(s)
           \/ \E final \in {"failed", "complete"} : SenderEnds(s, final)
  <2>1. /\ entry'[s].stage \in {"ended", "released", "forgotten", "over", "unsettled"}
        /\ entry'[s].ready = entry[s].ready /\ entry'[s].failed = entry[s].failed
        /\ entry'[s].descriptor = entry[s].descriptor
    BY <1>1, <1>7 DEF Releases, Forgets, Settles, SettleRefused, SenderEnds, TypeOK, Entry
  <2> QED
    BY <1>1, <1>2, <2>1 DEF VerdictInv
<1> QED
  BY <1>3, <1>4, <1>5, <1>6, <1>7 DEF RunWindow

(* Every step leaves the verdicts decided.                                                 *)
LEMMA VerdictStep == TypeOK /\ VerdictInv /\ [Next]_vars => VerdictInv'
<1> SUFFICES ASSUME TypeOK, VerdictInv, [Next]_vars PROVE VerdictInv'
  OBVIOUS
<1>1. ASSUME NEW n \in Nodes, NEW img \in Images, Attaches(n, img) PROVE VerdictInv'
  <2>1. \A s \in Sessions : /\ entry'[s].stage = entry[s].stage
                            /\ entry'[s].ready = entry[s].ready
                            /\ entry'[s].failed = entry[s].failed
                            /\ entry'[s].descriptor = entry[s].descriptor
    BY <1>1 DEF Attaches, TypeOK
  <2> QED
    BY <2>1 DEF VerdictInv
<1>2. ASSUME NEW n \in Nodes, NEW img \in Images, Creates(n, img) PROVE VerdictInv'
  <2>1. PICK s \in Sessions, p \in FreePorts :
           entry' = [entry EXCEPT ![s] =
                  [stage |-> "window", state |-> "staging", image |-> img, port |-> p,
                   members |-> 1, failed |-> FALSE, descriptor |-> FALSE, ready |-> FALSE,
                   final |-> "failed"]]
    BY <1>2 DEF Creates
  <2> QED
    BY <2>1 DEF VerdictInv, TypeOK
<1>3. ASSUME NEW n \in Nodes, NEW img \in Images, CreateRefused(n, img) \/ PortsExhausted(n, img)
      PROVE  VerdictInv'
  BY <1>3 DEF CreateRefused, PortsExhausted, VerdictInv
<1>4. ASSUME NEW n \in Nodes, AgentStep(n) \/ NodeReboots(n) PROVE VerdictInv'
  BY <1>4 DEF AgentStep, Polls, PollAnswered, PollTimesOut, Receives, ReceiverFails, UnicastEnds,
     Reports, NodeReboots, VerdictInv
<1>5. ASSUME ServerRestarts PROVE VerdictInv'
  <2>1. \A s \in Sessions :
           \/ entry'[s].stage = "free"
           \/ /\ entry[s].stage # "free"
              /\ entry'[s].stage \in {"over", "unsettled"}
              /\ entry'[s].ready = entry[s].ready
              /\ entry'[s].failed = entry[s].failed
              /\ entry'[s].descriptor = entry[s].descriptor
    BY <1>5 DEF ServerRestarts, TypeOK, NoEntry, Entry
  <2> QED
    BY <2>1 DEF VerdictInv
<1>6. CASE UNCHANGED vars
  BY <1>6 DEF vars, VerdictInv
<1> QED
  BY <1>1, <1>2, <1>3, <1>4, <1>5, <1>6, VerdictRunWindow DEF Next, Enqueue

(* Whoever is woken by ready finds the session failed or its descriptor, never neither.    *)
THEOREM VerdictsAreDecided == Spec => []ReadyIsDecided
<1>1. Init => VerdictInv
  BY DEF Init, VerdictInv, NoEntry
<1>2. VerdictInv => ReadyIsDecided
  BY DEF VerdictInv, ReadyIsDecided
<1> QED
  BY <1>1, <1>2, VerdictStep, TypeCorrect, PTL DEF Spec
-----------------------------------------------------------------------------
(* Refinement.  What MulticastSession sees of a session is told by how far its goroutine   *)
(* has come: SessionInv says what each stage has made of the entry, that the map holds the *)
(* sessions that can still be found, and that an agent that waits or receives has one.     *)
SessionInv ==
    /\ VerdictInv
    /\ open = {s \in Sessions : entry[s].stage \in LiveStages}
    /\ \A s \in Sessions :
          /\ entry[s].stage = "described" => ~entry[s].ready
          /\ entry[s].stage \in {"below", "sending", "ended", "released"} => entry[s].ready
          /\ entry[s].stage \in {"window", "below"} => entry[s].state = "staging"
          /\ entry[s].stage \in {"fired", "described", "sending", "ended"} => entry[s].state = "transmitting"
          /\ entry[s].stage = "window" => ~entry[s].ready
    /\ \A n \in Nodes : agent[n].at \in {"enrolled", "polling", "receiving"} =>
                           agent[n].session \in Sessions /\ entry[agent[n].session].stage # "free"
    /\ \A n \in Nodes : agent[n].at = "idle" => agent[n].session = NoSession

(* There are no sessions in the initial state.                                             *)
LEMMA SessionInit == Init => SessionInv
BY DEF Init, SessionInv, VerdictInv, NoEntry, LiveStages

(* A session's goroutine does what its stages say, and leaves the map when it forgets.     *)
LEMMA SessionRunWindow ==
    ASSUME TypeOK, SessionInv, NEW s \in Sessions, RunWindow(s)
    PROVE  SessionInv'
<1>1. entry[s] \in Entry /\ entry[s].stage # "free"
  BY DEF RunWindow, FallsBelow, Fires, Describes, Announces, SenderEnds, Releases, Forgets,
         Settles, SettleRefused, TypeOK, NoEntry
<1>2. agent' = agent /\ \A t \in Sessions \ {s} : entry'[t] = entry[t]
  BY DEF RunWindow, FallsBelow, Fires, Describes, Announces, SenderEnds, Releases, Forgets,
         Settles, SettleRefused, TypeOK
<1>3. VerdictInv'
  BY VerdictRunWindow DEF SessionInv
<1>4. entry'[s].stage # "free"
  BY <1>1 DEF RunWindow, FallsBelow, Fires, Describes, Announces, SenderEnds, Releases, Forgets,
         Settles, SettleRefused, TypeOK, Entry
<1>5. open' = {t \in Sessions : entry'[t].stage \in LiveStages}
  <2>1. CASE Forgets(s)
    <3>1. entry'[s].stage = "forgotten" /\ open' = open \ {s}
      BY <1>1, <2>1 DEF Forgets, TypeOK, Entry
    <3> QED
      BY <1>2, <3>1 DEF SessionInv, LiveStages
  <2>2. CASE Settles(s) \/ SettleRefused(s)
    <3>1. entry[s].stage = "forgotten" /\ entry'[s].stage \in {"over", "unsettled"} /\ open' = open
      BY <1>1, <2>2 DEF Settles, SettleRefused, TypeOK, Entry
    <3> QED
      BY <1>2, <3>1 DEF SessionInv, LiveStages
  <2>3. CASE FallsBelow(s) \/ Fires(s) \/ Describes(s) \/ Announces(s) \/ Releases(s)
             \/ \E final \in {"failed", "complete"} : SenderEnds(s, final)
    <3>1. /\ entry[s].stage \in {"window", "fired", "described", "sending", "below", "ended"}
          /\ entry'[s].stage \in {"below", "fired", "described", "sending", "ended", "released"}
          /\ open' = open
      BY <1>1, <2>3 DEF FallsBelow, Fires, Describes, Announces, SenderEnds, Releases, TypeOK, Entry
    <3> QED
      BY <1>2, <3>1 DEF SessionInv, LiveStages, Stages
  <2> QED
    BY <2>1, <2>2, <2>3 DEF RunWindow
<1>6. /\ entry'[s].stage = "described" => ~entry'[s].ready
      /\ entry'[s].stage \in {"below", "sending", "ended", "released"} => entry'[s].ready
      /\ entry'[s].stage \in {"window", "below"} => entry'[s].state = "staging"
      /\ entry'[s].stage \in {"fired", "described", "sending", "ended"} => entry'[s].state = "transmitting"
      /\ entry'[s].stage = "window" => ~entry'[s].ready
  BY <1>1 DEF RunWindow, FallsBelow, Fires, Describes, Announces, SenderEnds, Releases, Forgets,
     Settles, SettleRefused, TypeOK, Entry, SessionInv, VerdictInv
<1> QED
  BY <1>2, <1>3, <1>4, <1>5, <1>6 DEF SessionInv

(* Every step keeps what the stages say.                                                   *)
LEMMA SessionStep == TypeOK /\ SessionInv /\ [Next]_vars => SessionInv'
<1> SUFFICES ASSUME TypeOK, SessionInv, [Next]_vars PROVE SessionInv'
  OBVIOUS
<1>0. VerdictInv'
  BY VerdictStep DEF SessionInv
<1>1. ASSUME NEW n \in Nodes, NEW img \in Images, Attaches(n, img) PROVE SessionInv'
  <2>1. \A s \in Sessions : /\ entry'[s].stage = entry[s].stage
                            /\ entry'[s].ready = entry[s].ready
                            /\ entry'[s].state = entry[s].state
    BY <1>1 DEF Attaches, TypeOK
  <2>2. open' = open /\ \E s \in open : agent' = [agent EXCEPT ![n] = [at |-> "enrolled", session |-> s, outcome |-> "none"]]
    BY <1>1 DEF Attaches, Attachable, GoesWith
  <2>3. \A s \in open : s \in Sessions /\ entry[s].stage # "free"
    BY DEF SessionInv, LiveStages
  <2> QED
    BY <1>0, <2>1, <2>2, <2>3 DEF SessionInv, TypeOK
<1>2. ASSUME NEW n \in Nodes, NEW img \in Images, Creates(n, img) PROVE SessionInv'
  <2>1. PICK s \in Sessions, p \in FreePorts :
           /\ entry[s].stage = "free"
           /\ entry' = [entry EXCEPT ![s] =
                  [stage |-> "window", state |-> "staging", image |-> img, port |-> p,
                   members |-> 1, failed |-> FALSE, descriptor |-> FALSE, ready |-> FALSE,
                   final |-> "failed"]]
           /\ open' = open \cup {s}
           /\ agent' = [agent EXCEPT ![n] = [at |-> "enrolled", session |-> s, outcome |-> "none"]]
    BY <1>2 DEF Creates, GoesWith, Unused
  <2>2. /\ entry'[s].stage = "window" /\ entry'[s].state = "staging" /\ entry'[s].ready = FALSE
        /\ \A t \in Sessions \ {s} : entry'[t] = entry[t]
    BY <2>1 DEF TypeOK
  <2>3. open' = {t \in Sessions : entry'[t].stage \in LiveStages}
    BY <2>1, <2>2 DEF SessionInv, LiveStages, Stages
  <2> QED
    BY <1>0, <2>1, <2>2, <2>3 DEF SessionInv, TypeOK
<1>3. ASSUME NEW n \in Nodes, NEW img \in Images, CreateRefused(n, img) \/ PortsExhausted(n, img)
      PROVE  SessionInv'
  BY <1>0, <1>3 DEF CreateRefused, PortsExhausted, GoesWith, SessionInv, TypeOK
<1>4. ASSUME NEW n \in Nodes, AgentStep(n) \/ NodeReboots(n) PROVE SessionInv'
  <2>1. UNCHANGED <<entry, open>>
    BY <1>4 DEF AgentStep, Polls, PollAnswered, PollTimesOut, Receives, ReceiverFails, UnicastEnds,
       Reports, NodeReboots
  <2>2. /\ \A m \in Nodes \ {n} : agent'[m] = agent[m]
        /\ agent'[n].at \in {"enrolled", "polling", "receiving"} =>
              agent'[n].session = agent[n].session /\ agent[n].at \in {"enrolled", "polling"}
        /\ agent'[n].at = "idle" => agent'[n].session = NoSession
    BY <1>4 DEF AgentStep, Polls, PollAnswered, PollTimesOut, Receives, ReceiverFails, UnicastEnds,
       Reports, NodeReboots, Goes, GoesWith, TypeOK, Agent
  <2> QED
    BY <1>0, <2>1, <2>2 DEF SessionInv
<1>5. ASSUME ServerRestarts PROVE SessionInv'
  <2>1. \A s \in Sessions : IF entry[s].stage = "free" THEN entry'[s].stage = "free"
                            ELSE entry'[s].stage \in {"over", "unsettled"}
    BY <1>5 DEF ServerRestarts, TypeOK, NoEntry, Entry
  <2>2. open' = {t \in Sessions : entry'[t].stage \in LiveStages}
    BY <1>5, <2>1 DEF ServerRestarts, LiveStages
  <2>3. \A n \in Nodes : agent'[n].at \in {"enrolled", "polling", "receiving"} =>
           agent'[n].session = agent[n].session /\ agent[n].at \in {"enrolled", "receiving"}
    BY <1>5 DEF ServerRestarts, TypeOK, Agent
  <2>4. \A n \in Nodes : agent'[n].at = "idle" => agent[n].at = "idle" /\ agent'[n].session = agent[n].session
    BY <1>5 DEF ServerRestarts, TypeOK, Agent
  <2> QED
    BY <1>0, <2>1, <2>2, <2>3, <2>4 DEF SessionInv
<1>6. CASE UNCHANGED vars
  BY <1>0, <1>6 DEF vars, SessionInv
<1> QED
  BY <1>1, <1>2, <1>3, <1>4, <1>5, <1>6, SessionRunWindow DEF Next, Enqueue

(* It holds always.                                                                        *)
LEMMA SessionInvariant == Spec => [](TypeOK /\ SessionInv)
<1>1. Init => TypeOK /\ SessionInv
  BY InitTyped, SessionInit
<1>2. TypeOK /\ SessionInv /\ [Next]_vars => TypeOK' /\ SessionInv'
  BY NextTyped, SessionStep
<1> QED
  BY <1>1, <1>2, PTL DEF Spec
-----------------------------------------------------------------------------
(* What MulticastSession sees.                                                             *)
Phases   == [s \in Sessions |-> Phase(s)]
Members  == [s \in Sessions |-> Joined(s)]
Verdicts == [s \in Sessions |-> Verdict(s)]
Place    == [n \in Nodes |-> agent[n].at]
Mine     == [n \in Nodes |-> agent[n].session]

(* What it is told of nodes while sessions stay.                                           *)
LEMMA SessionsUnseen ==
    ASSUME UNCHANGED entry
    PROVE  Phases' = Phases /\ Members' = Members /\ Verdicts' = Verdicts
BY DEF Phases, Members, Verdicts, Phase, Joined, Verdict

(* An agent that goes from one place to another.                                           *)
LEMMA AgentSeen ==
    ASSUME TypeOK, NEW n \in Nodes, NEW place,
           \A m \in Nodes \ {n} : agent'[m] = agent[m],
           agent'[n].at = place, agent'[n].session = agent[n].session
    PROVE  Place' = [Place EXCEPT ![n] = place] /\ Mine' = Mine
BY DEF Place, Mine

(* One session changes, the others and the agents do not.                                  *)
LEMMA SessionSeen ==
    ASSUME NEW s \in Sessions, \A t \in Sessions \ {s} : entry'[t] = entry[t]
    PROVE  /\ Phases' = [Phases EXCEPT ![s] = Phase(s)']
           /\ Members' = [Members EXCEPT ![s] = Joined(s)']
           /\ Verdicts' = [Verdicts EXCEPT ![s] = Verdict(s)']
<1>1. \A t \in Sessions \ {s} : Phase(t)' = Phase(t) /\ Joined(t)' = Joined(t) /\ Verdict(t)' = Verdict(t)
  BY DEF Phase, Joined, Verdict
<1> QED
  BY <1>1 DEF Phases, Members, Verdicts

(* The initial states are initial states of the abstract sessions.                         *)
LEMMA RefinesInit == Init => Promise!Init
BY DEF Init, Promise!Init, Phase, Joined, Verdict, NoEntry, NoSession

(* Each step of a session's goroutine is a decision about it, its end, or a stutter.       *)
LEMMA RefinesRunWindow ==
    ASSUME TypeOK, SessionInv, NEW s \in Sessions, RunWindow(s)
    PROVE  Promise!Next \/ UNCHANGED Promise!vars
<1>1. entry[s] \in Entry /\ entry[s].stage # "free"
  BY DEF RunWindow, FallsBelow, Fires, Describes, Announces, SenderEnds, Releases, Forgets,
         Settles, SettleRefused, TypeOK, NoEntry
<1>2. agent' = agent /\ \A t \in Sessions \ {s} : entry'[t] = entry[t]
  BY DEF RunWindow, FallsBelow, Fires, Describes, Announces, SenderEnds, Releases, Forgets,
         Settles, SettleRefused, TypeOK
<1>3. /\ Phases' = [Phases EXCEPT ![s] = Phase(s)']
      /\ Members' = [Members EXCEPT ![s] = Joined(s)']
      /\ Verdicts' = [Verdicts EXCEPT ![s] = Verdict(s)']
      /\ Place' = Place /\ Mine' = Mine
  BY <1>2, SessionSeen DEF Place, Mine
<1>4. Phases[s] = Phase(s) /\ Members[s] = Joined(s) /\ Verdicts[s] = Verdict(s)
  BY DEF Phases, Members, Verdicts
<1> USE DEF Phase, Joined, Verdict
<1>5. ASSUME FallsBelow(s) PROVE Promise!CallOff(s)
  <2>1. /\ Phase(s) = "gathering" /\ Phase(s)' = "gathering"
        /\ Verdict(s) = "none" /\ Verdict(s)' = "fallback"
        /\ Joined(s) < Threshold /\ Joined(s)' = Joined(s)
    BY <1>1, <1>5 DEF FallsBelow, TypeOK, Entry, SessionInv
  <2> HIDE DEF Phase, Joined, Verdict
  <2>2. Phases' = Phases /\ Members' = Members /\ Verdicts' = [Verdicts EXCEPT ![s] = "fallback"]
    BY <1>3, <1>4, <2>1 DEF Phases, Members
  <2> QED
    BY <1>3, <1>4, <2>1, <2>2 DEF Promise!CallOff, Promise!Decide, Phases, Members, Verdicts, Place, Mine
<1>6. ASSUME Fires(s) PROVE Promise!Close(s)
  <2>1. /\ Phase(s) = "gathering" /\ Phase(s)' = "closed"
        /\ Verdict(s) = "none" /\ Verdict(s)' = "none"
        /\ Joined(s) >= Threshold /\ Joined(s)' = Joined(s)
    BY <1>1, <1>6 DEF Fires, TypeOK, Entry, SessionInv
  <2> HIDE DEF Phase, Joined, Verdict
  <2>2. Phases' = [Phases EXCEPT ![s] = "closed"] /\ Members' = Members /\ Verdicts' = Verdicts
    BY <1>3, <1>4, <2>1 DEF Verdicts, Members
  <2> QED
    BY <1>3, <1>4, <2>1, <2>2 DEF Promise!Close, Phases, Members, Verdicts, Place, Mine
<1>7. ASSUME Announces(s) PROVE Promise!Send(s)
  <2>1. /\ Phase(s) = "closed" /\ Phase(s)' = "closed"
        /\ Verdict(s) = "none" /\ Verdict(s)' = "send"
        /\ Joined(s)' = Joined(s)
    BY <1>1, <1>7 DEF Announces, TypeOK, Entry, SessionInv, VerdictInv
  <2> HIDE DEF Phase, Joined, Verdict
  <2>2. Phases' = Phases /\ Members' = Members /\ Verdicts' = [Verdicts EXCEPT ![s] = "send"]
    BY <1>3, <1>4, <2>1 DEF Phases, Members
  <2> QED
    BY <1>3, <1>4, <2>1, <2>2 DEF Promise!Send, Promise!Decide, Phases, Members, Verdicts, Place, Mine
<1>8. ASSUME Forgets(s) PROVE Promise!End(s)
  <2>1. /\ Phase(s) \in {"gathering", "closed"} /\ Phase(s)' = "done"
        /\ Verdict(s) # "none" /\ Verdict(s)' = Verdict(s) /\ Joined(s)' = Joined(s)
    BY <1>1, <1>8 DEF Forgets, TypeOK, Entry, SessionInv, VerdictInv
  <2> HIDE DEF Phase, Joined, Verdict
  <2>2. Phases' = [Phases EXCEPT ![s] = "done"] /\ Members' = Members /\ Verdicts' = Verdicts
    BY <1>3, <1>4, <2>1 DEF Verdicts, Members
  <2> QED
    BY <1>3, <1>4, <2>1, <2>2 DEF Promise!End, Phases, Members, Verdicts, Place, Mine
<1>9. ASSUME Phase(s)' = Phase(s), Joined(s)' = Joined(s), Verdict(s)' = Verdict(s)
      PROVE  UNCHANGED Promise!vars
  <2> HIDE DEF Phase, Joined, Verdict
  <2>1. Phases' = Phases /\ Members' = Members /\ Verdicts' = Verdicts
    BY <1>3, <1>9 DEF Phases, Members, Verdicts
  <2> QED
    BY <1>3, <2>1 DEF Promise!vars, Phases, Members, Verdicts, Place, Mine
<1>10. CASE Describes(s)
  BY <1>1, <1>9, <1>10 DEF Describes, TypeOK, Entry, SessionInv, VerdictInv
<1>11. ASSUME NEW final \in {"failed", "complete"}, SenderEnds(s, final) PROVE UNCHANGED Promise!vars
  BY <1>1, <1>9, <1>11 DEF SenderEnds, TypeOK, Entry
<1>12. CASE Releases(s)
  BY <1>1, <1>9, <1>12 DEF Releases, TypeOK, Entry
<1>13. CASE Settles(s) \/ SettleRefused(s)
  BY <1>1, <1>9, <1>13 DEF Settles, SettleRefused, TypeOK, Entry
<1> QED
  BY <1>5, <1>6, <1>7, <1>8, <1>10, <1>11, <1>12, <1>13 DEF RunWindow, Promise!Next

(* A node that asks for an image begins a session, joins one, or goes on alone.            *)
LEMMA RefinesEnqueue ==
    ASSUME TypeOK, SessionInv, NEW n \in Nodes, Enqueue(n)
    PROVE  Promise!Next
<1> USE DEF TypeOK
<1>1. ASSUME NEW img \in Images, NEW s \in Sessions, agent[n].at = "idle",
             \A t \in Sessions \ {s} : entry'[t] = entry[t],
             GoesWith(n, "enrolled", s), Joined(s)' = Joined(s) + 1, Verdict(s)' = Verdict(s)
      PROVE  Promise!Enrolls(n, s)
  <2>1. Place' = [Place EXCEPT ![n] = "enrolled"] /\ Mine' = [Mine EXCEPT ![n] = s] /\ Place[n] = "idle"
    BY <1>1 DEF GoesWith, Place, Mine
  <2>2. Members' = [Members EXCEPT ![s] = @ + 1] /\ Verdicts' = Verdicts
    BY <1>1, SessionSeen DEF Members, Verdicts
  <2> QED
    BY <2>1, <2>2 DEF Promise!Enrolls, Members, Verdicts, Place, Mine
<1>2. ASSUME NEW img \in Images, Attaches(n, img) PROVE Promise!Next
  <2>1. PICK s \in Sessions :
           /\ agent[n].at = "idle" /\ Attachable(s, img)
           /\ entry' = [entry EXCEPT ![s].members = @ + 1]
           /\ GoesWith(n, "enrolled", s)
    BY <1>2 DEF Attaches
  <2>2. entry[s] \in Entry /\ entry[s].stage \in LiveStages /\ entry[s].state = "staging"
    BY <2>1 DEF Attachable, SessionInv, LiveStages, NoEntry
  <2>3. entry'[s] = [entry[s] EXCEPT !.members = @ + 1] /\ \A t \in Sessions \ {s} : entry'[t] = entry[t]
    BY <2>1
  <2>4. /\ Phase(s) = "gathering" /\ Phase(s)' = "gathering"
        /\ Joined(s)' = Joined(s) + 1 /\ Verdict(s)' = Verdict(s)
    BY <2>2, <2>3 DEF Phase, Joined, Verdict, Entry, LiveStages
  <2>5. Promise!Enrolls(n, s)
    BY <1>1, <2>1, <2>3, <2>4
  <2>6. Phases[s] = "gathering" /\ Phases' = Phases
    <3>1. Phases' = [Phases EXCEPT ![s] = Phase(s)']
      BY <2>3, SessionSeen
    <3> QED
      BY <2>4, <3>1 DEF Phases
  <2> QED
    BY <2>5, <2>6 DEF Promise!Next, Promise!Join, Phases
<1>3. ASSUME NEW img \in Images, Creates(n, img) PROVE Promise!Next
  <2>1. PICK s \in Sessions, p \in FreePorts :
           /\ agent[n].at = "idle" /\ entry[s].stage = "free"
           /\ entry' = [entry EXCEPT ![s] =
                  [stage |-> "window", state |-> "staging", image |-> img, port |-> p,
                   members |-> 1, failed |-> FALSE, descriptor |-> FALSE, ready |-> FALSE,
                   final |-> "failed"]]
           /\ GoesWith(n, "enrolled", s)
    BY <1>3 DEF Creates, NeedsSession, Unused
  <2>2. /\ entry'[s].stage = "window" /\ entry'[s].state = "staging" /\ entry'[s].ready = FALSE
        /\ entry'[s].members = 1
        /\ \A t \in Sessions \ {s} : entry'[t] = entry[t]
    BY <2>1
  <2>3. /\ Phase(s) = "none" /\ Phase(s)' = "gathering"
        /\ Joined(s) = 0 /\ Joined(s)' = 1 /\ Verdict(s) = "none" /\ Verdict(s)' = "none"
    BY <2>1, <2>2 DEF Phase, Joined, Verdict
  <2>4. Promise!Enrolls(n, s)
    BY <1>1, <2>1, <2>2, <2>3
  <2>5. Phases[s] = "none" /\ Phases' = [Phases EXCEPT ![s] = "gathering"]
    BY <2>2, <2>3, SessionSeen DEF Phases
  <2> QED
    BY <2>4, <2>5 DEF Promise!Next, Promise!Begin, Phases
<1>4. ASSUME NEW img \in Images, CreateRefused(n, img) \/ PortsExhausted(n, img) PROVE Promise!Next
  <2>1. /\ agent[n].at = "idle" /\ agent[n].session = NoSession /\ entry' = entry
        /\ GoesWith(n, "unicast", NoSession)
    BY <1>4 DEF CreateRefused, PortsExhausted, NeedsSession, SessionInv
  <2>2. Place[n] = "idle" /\ Place' = [Place EXCEPT ![n] = "unicast"] /\ Mine' = Mine
    BY <2>1 DEF GoesWith, Place, Mine
  <2> QED
    BY <2>1, <2>2, SessionsUnseen DEF Promise!Next, Promise!Alone, Promise!Goes, Promise!SessionsStay,
       Phases, Members, Verdicts, Place, Mine
<1> QED
  BY <1>2, <1>3, <1>4 DEF Enqueue

(* An agent waits, receives, falls back and reports as it may.                             *)
LEMMA RefinesAgent ==
    ASSUME TypeOK, SessionInv, NEW n \in Nodes, AgentStep(n)
    PROVE  Promise!Next
<1>0. /\ entry' = entry /\ Phases' = Phases /\ Members' = Members /\ Verdicts' = Verdicts
      /\ agent[n] \in Agent /\ Place[n] = agent[n].at /\ Mine[n] = agent[n].session
  BY SessionsUnseen DEF AgentStep, Polls, PollAnswered, PollTimesOut, Receives, ReceiverFails, UnicastEnds,
     Reports, TypeOK, Place, Mine
<1>1. ASSUME NEW place, Goes(n, place) PROVE Place' = [Place EXCEPT ![n] = place] /\ Mine' = Mine
  BY <1>1, AgentSeen DEF Goes, TypeOK, Agent
<1> USE DEF Promise!Goes, Promise!SessionsStay, Phases, Members, Verdicts, Place, Mine
<1>2. ASSUME Polls(n) PROVE Promise!Wait(n)
  <2>1. agent[n].session \in Sessions /\ entry[agent[n].session].stage # "free" /\ agent[n].at = "enrolled"
    BY <1>2 DEF Polls, SessionInv
  <2>2. agent[n].session \in open <=> Phase(agent[n].session) # "done"
    <3>1. entry[agent[n].session].stage \in Stages
      BY <2>1 DEF TypeOK, Entry, NoEntry
    <3> QED
      BY <2>1, <3>1 DEF SessionInv, LiveStages, Phase, Stages
  <2>3. Goes(n, IF Phase(agent[n].session) = "done" THEN "unicast" ELSE "polling")
    BY <1>2, <2>2 DEF Polls
  <2>4. Place' = [Place EXCEPT ![n] = IF Phases[Mine[n]] = "done" THEN "unicast" ELSE "polling"]
        /\ Mine' = Mine
    BY <1>1, <2>1, <2>3
  <2> QED
    BY <1>0, <2>1, <2>4 DEF Promise!Wait
<1>3. ASSUME PollAnswered(n) PROVE Promise!Receive(n) \/ Promise!FallBack(n)
  <2> DEFINE s == agent[n].session
  <2>1. s \in Sessions /\ entry[s].stage # "free" /\ agent[n].at = "polling" /\ entry[s].ready
    BY <1>3 DEF PollAnswered, SessionInv
  <2>2. CASE entry[s].failed
    <3>1. Place' = [Place EXCEPT ![n] = "unicast"] /\ Mine' = Mine
      BY <1>1, <1>3, <2>2 DEF PollAnswered
    <3> QED
      BY <1>0, <2>1, <3>1 DEF Promise!FallBack
  <2>3. CASE ~entry[s].failed
    <3>1. Place' = [Place EXCEPT ![n] = "receiving"] /\ Mine' = Mine
      BY <1>1, <1>3, <2>3 DEF PollAnswered
    <3>2. Verdict(s) = "send"
      BY <2>1, <2>3 DEF SessionInv, VerdictInv, Verdict
    <3> QED
      BY <1>0, <2>1, <3>1, <3>2 DEF Promise!Receive
  <2> QED
    BY <2>2, <2>3
<1>4. ASSUME PollTimesOut(n) \/ ReceiverFails(n) PROVE Promise!FallBack(n)
  <2>1. agent[n].at \in {"polling", "receiving"} /\ Goes(n, "unicast")
    BY <1>4 DEF PollTimesOut, ReceiverFails
  <2>2. Place' = [Place EXCEPT ![n] = "unicast"] /\ Mine' = Mine
    BY <1>1, <2>1
  <2> QED
    BY <1>0, <2>1, <2>2 DEF Promise!FallBack
<1>5. ASSUME Receives(n) PROVE Promise!Deployed(n)
  <2>1. agent[n].at = "receiving" /\ agent[n].session # NoSession
    BY <1>5 DEF Receives, SessionInv, Sessions, NoSession
  <2>2. Place' = [Place EXCEPT ![n] = "reporting"] /\ Mine' = Mine
    BY <1>0, <1>5, AgentSeen DEF Receives, TypeOK, Agent
  <2> QED
    BY <1>0, <2>1, <2>2 DEF Promise!Deployed, NoSession
<1>6. ASSUME NEW outcome \in {"fellback", "failed"}, UnicastEnds(n, outcome) PROVE Promise!Deployed(n)
  <2>1. agent[n].at = "unicast"
    BY <1>6 DEF UnicastEnds
  <2>2. /\ Place' = [Place EXCEPT ![n] = IF agent[n].session = NoSession THEN "done" ELSE "reporting"]
        /\ Mine' = Mine
    BY <1>0, <1>6, AgentSeen DEF UnicastEnds, TypeOK, Agent
  <2> QED
    BY <1>0, <2>1, <2>2 DEF Promise!Deployed, NoSession
<1>7. ASSUME Reports(n) PROVE Promise!Deployed(n)
  <2>1. agent[n].at = "reporting" /\ Goes(n, "done")
    BY <1>7 DEF Reports
  <2>2. Place' = [Place EXCEPT ![n] = "done"] /\ Mine' = Mine
    BY <1>1, <2>1
  <2> QED
    BY <1>0, <2>1, <2>2 DEF Promise!Deployed
<1> QED
  BY <1>2, <1>3, <1>4, <1>5, <1>6, <1>7 DEF AgentStep, Promise!Next

(* A reboot of a node is one, and a restart of the server is one.                          *)
LEMMA RefinesFaults ==
    ASSUME TypeOK, SessionInv, ServerRestarts \/ \E n \in Nodes : NodeReboots(n)
    PROVE  Promise!Next
<1>1. ASSUME NEW n \in Nodes, NodeReboots(n) PROVE Promise!Next
  <2>1. /\ Place[n] # "idle" /\ Place' = [Place EXCEPT ![n] = "idle"] /\ Mine' = [Mine EXCEPT ![n] = 0]
        /\ entry' = entry
    BY <1>1 DEF NodeReboots, GoesWith, Place, Mine, NoSession, TypeOK
  <2> QED
    BY <2>1, SessionsUnseen DEF Promise!Next, Promise!Reboot, Promise!SessionsStay, Phases, Members,
       Verdicts, Place, Mine
<1>2. ASSUME ServerRestarts PROVE Promise!Restart
  <2>1. \A s \in Sessions :
           /\ Phase(s)' = IF Phase(s) = "none" THEN "none" ELSE "done"
           /\ Joined(s)' = Joined(s) /\ Verdict(s)' = Verdict(s)
    <3> SUFFICES ASSUME NEW s \in Sessions
                 PROVE  /\ Phase(s)' = IF Phase(s) = "none" THEN "none" ELSE "done"
                        /\ Joined(s)' = Joined(s) /\ Verdict(s)' = Verdict(s)
      OBVIOUS
    <3>1. CASE entry[s].stage = "free"
      BY <1>2, <3>1 DEF ServerRestarts, NoEntry, Phase, Joined, Verdict
    <3>2. CASE entry[s].stage # "free"
      <4>1. entry[s] \in Entry /\ \E stage \in {"over", "unsettled"} :
                                     entry'[s] = [entry[s] EXCEPT !.stage = stage]
        BY <1>2, <3>2 DEF ServerRestarts, TypeOK, NoEntry
      <4> QED
        BY <3>2, <4>1 DEF Entry, Phase, Joined, Verdict
    <3> QED
      BY <3>1, <3>2
  <2>2. /\ Phases' = [s \in Sessions |-> IF Phases[s] = "none" THEN "none" ELSE "done"]
        /\ Members' = Members /\ Verdicts' = Verdicts
    BY <2>1 DEF Phases, Members, Verdicts
  <2>3. /\ Place' = [n \in Nodes |-> IF Place[n] = "polling" THEN "unicast" ELSE Place[n]]
        /\ Mine' = Mine
    BY <1>2 DEF ServerRestarts, Place, Mine, TypeOK, Agent
  <2> QED
    BY <2>2, <2>3 DEF Promise!Restart, Phases, Members, Verdicts, Place, Mine
<1> QED
  BY <1>1, <1>2 DEF Promise!Next

(* For any nodes, sessions, ports and faults, the scheduler and its agents keep the        *)
(* promise: a closed session has members enough and gets no more, and a node receives only *)
(* from one that it joined and that sends.                                                 *)
THEOREM KeepsPromise == Spec => SessionSpec
<1>1. TypeOK /\ SessionInv /\ [Next]_vars => [Promise!Next]_(Promise!vars)
  <2> SUFFICES ASSUME TypeOK, SessionInv, [Next]_vars PROVE Promise!Next \/ UNCHANGED Promise!vars
    OBVIOUS
  <2>1. CASE UNCHANGED vars
    <3>1. Phases' = Phases /\ Members' = Members /\ Verdicts' = Verdicts /\ Place' = Place /\ Mine' = Mine
      BY <2>1, SessionsUnseen DEF vars, Place, Mine
    <3> QED
      BY <3>1 DEF Promise!vars, Phases, Members, Verdicts, Place, Mine
  <2> QED
    BY <2>1, RefinesEnqueue, RefinesRunWindow, RefinesAgent, RefinesFaults DEF Next
<1> QED
  BY <1>1, RefinesInit, SessionInvariant, PTL DEF Spec, SessionSpec, Promise!Spec
=============================================================================
