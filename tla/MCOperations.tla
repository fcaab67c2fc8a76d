---------------------------- MODULE MCOperations ----------------------------
(***************************************************************************)
(* Larger instances, for safety only, of what operators start and what     *)
(* they are told: a behaviour is one of a config push that waits for its   *)
(* confirmation, of the first units of two upgrades without a fault or of  *)
(* one upgrade, to its end without a fault, of requests to a node, of the  *)
(* alert engine or of a group's reimage; the others stay at their initial  *)
(* states.                                                                 *)
(***************************************************************************)
EXTENDS DangerousPush, SlurmUpgrade, ClientdHub, Alerts, GroupReimage, TLC

CONSTANTS p1, n1, n2, m1, m2, cpu, offline, g1, g2, g3

OnePush == {p1}
TwoEach == [push : OnePush, right : BOOLEAN, id : 1..2]

Unit(phase, nodes) == [phase |-> phase, nodes |-> nodes]
ThreeUnits == <<Unit("controller", {n1}), Unit("compute", {n2}), Unit("login", {n1})>>
TwiceUnits  == 1  \* bound: of the plan walked, when there are two upgrades
FaultyUnits == 2  \* bound: of the plan walked, when there was a fault
Walked(units) == \A r \in Runs : run'[r].step <= units

\* bound: what was triggered ends complete, for all anybody asks is whether it has ended
EndsCompleted ==
    \A n \in Nodes : memberReq[n] = "triggered" /\ memberReq'[n] \notin ActiveReq => memberReq'[n] = "complete"

TwoMsgs    == {m1, m2}
OneNode    == {n1}
OneMetric  == {cpu}
OneOffline == {offline}

ThreeMembers == {g1, g2, g3}
InOrder      == g3 \in wave' => rest' = {}  \* members come in the order of the list

\* No step and no property tells one request, or the members of the first wave, from one another.
Symmetric == Permutations(TwoMsgs) \cup Permutations({g1, g2})

VARIABLE part  \* the component of this behaviour

operationsVars == <<part, dangerVars, upgradeVars, hubVars, alertVars, vars>>

OperationsInit == /\ part \in {"push", "upgrades", "upgrade", "hub", "alerts", "group"}
                  /\ DangerInit /\ UpgradeInit /\ HubInit /\ AlertInit /\ Init

OperationsNext ==
    /\ UNCHANGED part
    /\ \/ part = "push" /\ DangerNext /\ UNCHANGED <<upgradeVars, hubVars, alertVars, vars>>
       \/ /\ part = "upgrades" /\ UpgradeNext /\ UNCHANGED <<dangerVars, hubVars, alertVars, vars>>
          /\ upgradeFaults' = 0 /\ Walked(TwiceUnits)
       \/ /\ part = "upgrade" /\ UpgradeNext /\ UNCHANGED <<dangerVars, hubVars, alertVars, vars>>
          /\ opRow'[2] = "none" /\ (upgradeFaults' = 0 \/ Walked(FaultyUnits))
       \/ part = "hub" /\ HubNext /\ UNCHANGED <<dangerVars, upgradeVars, alertVars, vars>>
       \/ /\ part = "alerts" /\ AlertNext /\ UNCHANGED <<dangerVars, upgradeVars, hubVars, vars>>
          /\ loaded' \in {{}, Rules}  \* bound: the rule files come and go together
       \/ /\ part = "group" /\ Next /\ UNCHANGED <<dangerVars, upgradeVars, hubVars, alertVars>>
          /\ EndsCompleted /\ InOrder

OperationsSpec == OperationsInit /\ [][OperationsNext]_operationsVars
=============================================================================
