---------------------------- MODULE PhasedUpgrade ----------------------------
(***************************************************************************)
(* What a rolling upgrade promises, without goroutines, flags or commands  *)
(* on their way.  A crew walks the plan of its operation unit by unit and  *)
(* leaves a unit only when every node of it, but for login nodes, has      *)
(* agreed and a batch that was drained is given back.  Only a crew that    *)
(* has walked the whole plan says that the operation is completed; only    *)
(* one at work says that it is in progress, and a crew never leaves        *)
(* without a word.  Words, and the controller's commands, may be lost.     *)
(***************************************************************************)
EXTENDS Integers, Sequences

CONSTANTS
    Plan,       \* sequence of units [phase, nodes]
    Ops, Crews

VARIABLES
    status,     \* [Ops -> status]
    crew,       \* [Crews -> [op, unit, agreed, holds]]
    drained,    \* nodes that take no new jobs
    slips       \* how often something was lost

vars == <<status, crew, drained, slips>>

NewCrew(o) == [op |-> o, unit |-> 1, agreed |-> {}, holds |-> FALSE]
NoCrew == NewCrew(0)
Unit(c) == Plan[crew[c].unit]
AtWork(c) == crew[c].op # 0
Finals == {"paused", "failed", "completed"}

Slip == slips' = slips + 1
\* A word about an operation, which may be lost.
Says(o, s) == \/ status' = [status EXCEPT ![o] = s] /\ UNCHANGED slips
              \/ UNCHANGED status /\ Slip

Init ==
    /\ status = [o \in Ops |-> "none"]
    /\ crew = [c \in Crews |-> NoCrew]
    /\ drained = {}
    /\ slips = 0

\* A new operation has a crew at once; a paused one gets another, which walks from the start.
Start(o, c) ==
    /\ ~AtWork(c)
    /\ \/ status[o] = "none" /\ status' = [status EXCEPT ![o] = "queued"]
       \/ status[o] = "paused" /\ UNCHANGED status
    /\ crew' = [crew EXCEPT ![c] = NewCrew(o)]
    /\ UNCHANGED <<drained, slips>>

\* An operator's word, whatever the crews do.
Pause(o) ==
    /\ status[o] # "none"
    /\ Says(o, "paused")
    /\ UNCHANGED <<crew, drained>>

RollBack(o) ==
    /\ status[o] \notin {"none", "queued"}
    /\ Says(o, "rolled_back")
    /\ UNCHANGED <<crew, drained>>

Proceed(c) ==
    /\ AtWork(c)
    /\ Says(crew[c].op, "in_progress")
    /\ UNCHANGED <<crew, drained>>

\* A batch of compute nodes is drained, or the command does nothing.
Hold(c) ==
    /\ AtWork(c) /\ ~crew[c].holds
    /\ crew[c].unit \in DOMAIN Plan /\ Unit(c).phase = "compute"
    /\ Says(crew[c].op, "in_progress")
    /\ crew' = [crew EXCEPT ![c].holds = TRUE]
    /\ drained' \in {drained, drained \cup Unit(c).nodes}

Agree(c, n) ==
    /\ AtWork(c)
    /\ crew[c].unit \in DOMAIN Plan /\ n \in Unit(c).nodes
    /\ crew' = [crew EXCEPT ![c].agreed = @ \cup {n}]
    /\ UNCHANGED <<status, drained, slips>>

GiveBack(c) ==
    /\ crew[c].holds
    /\ crew' = [crew EXCEPT ![c].holds = FALSE]
    /\ \/ drained' = drained \ Unit(c).nodes /\ UNCHANGED slips
       \/ UNCHANGED drained /\ Slip
    /\ UNCHANGED status

GoOn(c) ==
    /\ AtWork(c) /\ ~crew[c].holds
    /\ crew[c].unit \in DOMAIN Plan
    /\ Unit(c).phase = "login" \/ Unit(c).nodes \subseteq crew[c].agreed
    /\ crew' = [crew EXCEPT ![c].unit = @ + 1]
    /\ UNCHANGED <<status, drained, slips>>

Leave(c, s) ==
    /\ AtWork(c) /\ ~crew[c].holds
    /\ s = "completed" => crew[c].unit = Len(Plan) + 1
    /\ Says(crew[c].op, s)
    /\ crew' = [crew EXCEPT ![c] = NoCrew]
    /\ UNCHANGED drained

\* The server ends and the crews with it, or an operation that was asked for is not made.
Mishap ==
    /\ crew' \in {crew, [c \in Crews |-> NoCrew]}
    /\ Slip
    /\ UNCHANGED <<status, drained>>

Next ==
    \/ \E o \in Ops : Pause(o) \/ RollBack(o) \/ \E c \in Crews : Start(o, c)
    \/ \E c \in Crews : \/ Proceed(c) \/ Hold(c) \/ GiveBack(c) \/ GoOn(c)
                        \/ crew[c].unit \in DOMAIN Plan /\ \E n \in Unit(c).nodes : Agree(c, n)
                        \/ \E s \in Finals : Leave(c, s)
    \/ Mishap

\* Init /\ [][Next]_vars, said so that no action is tried on a step that changes nothing here.
Spec == Init /\ [][vars' # vars /\ Next]_vars
=============================================================================
