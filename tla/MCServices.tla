----------------------------- MODULE MCServices -----------------------------
(***************************************************************************)
(* Instances for TLC of services of serverd that run side by side and      *)
(* share no state: a behaviour is one of a service in Parts, the others    *)
(* stay at their initial states, where they owe nothing.                   *)
(***************************************************************************)
EXTENDS Multicast, ClientdHub, Alerts

CONSTANTS Parts, n1, n2, i1, i2, m1, offline

OneNode    == {n1}
TwoNodes   == {n1, n2}
TwoImages  == {i1, i2}
OneMsg     == {m1}
NoMetric   == {}
OneOffline == {offline}

VARIABLE part  \* the service of this behaviour

servicesVars == <<part, vars, hubVars, alertVars>>

ServicesInit == part \in Parts /\ Init /\ HubInit /\ AlertInit

ServicesNext ==
    /\ UNCHANGED part
    /\ \/ part = "multicast" /\ Next /\ UNCHANGED <<hubVars, alertVars>>
       \/ part = "hub" /\ HubNext /\ UNCHANGED <<vars, alertVars>>
       \/ part = "alerts" /\ AlertNext /\ UNCHANGED <<vars, hubVars>>

ServicesSpec == /\ ServicesInit /\ [][ServicesNext]_servicesVars
                /\ MulticastFair /\ HubFair /\ AlertFair
=============================================================================
