------------------------------- MODULE Alerts -------------------------------
(***************************************************************************)
(* The alert engine (internal/alerts): every minute one goroutine checks   *)
(* each rule against its hosts and keeps, for every group of samples that  *)
(* violates it, one row of the table alerts and one entry of               *)
(* StateStore.active, which a restart fills from the rows.                 *)
(*                                                                         *)
(* The hosts of a metric rule are looked for in the table node_stats of    *)
(* clustr.db, whose samples all date from before stats.db: new ones are    *)
(* written to stats.db only, where their values are read.                  *)
(*                                                                         *)
(* Rows that are resolved are history that no step reads; their numbers    *)
(* are used again.  The groups of a host, which the code reads with one    *)
(* query, are read one by one.  Thresholds, label patterns, severities,    *)
(* roles and last values are left out.                                     *)
(***************************************************************************)
EXTENDS Integers, FiniteSets

CONSTANTS
    MetricRules, OfflineRules,
    AlertNodes, Labels,
    MaxRows,        \* bound: rows firing at a time
    MaxAlertFaults  \* bound: refused statements and restarts

ASSUME AlertAssumption ==
    /\ MetricRules \cup OfflineRules # {}
    /\ MaxRows \in Nat /\ MaxAlertFaults \in Nat

VARIABLES
    sample,      \* [Keys -> Samples]: do all samples in the window satisfy the threshold?
    inClustrDb,  \* the <<rule, node>> with samples in the window in clustr.db
    loaded,      \* Engine.rules
    firing,      \* [Rows -> Keys or NoKey], the rows in state firing
    active,      \* [Keys -> 0..MaxRows], StateStore.active
    engine,      \* the goroutine of Engine.Run
    told,        \* keys of which a notification said firing last
    unwritten,   \* keys a resolution of which was not written, ...
    untold,      \* ... or written and not dispatched
    alertFaults

alertVars == <<sample, inClustrDb, loaded, firing, active, engine, told, unwritten, untold, alertFaults>>

\* alertStateKey; a node that is offline is a sample "over" of an offline rule.
Keys == [rule : MetricRules, node : AlertNodes, labels : Labels]
            \cup [rule : OfflineRules, node : AlertNodes, labels : {"none"}]
NoKey == [rule |-> "none"]
Rules == MetricRules \cup OfflineRules
Rows == 1..MaxRows
Samples == {"none", "over", "under"}
Engine == [at : {"idle", "rules", "groups", "gone", "fired", "resolving", "resolved"},
           rules : SUBSET Rules, rule : Rules, listed : SUBSET AlertNodes,
           todo : SUBSET Keys, stale : BOOLEAN, key : Keys \cup {NoKey}, row : 0..MaxRows]
IdleEngine == [at |-> "idle", rules |-> {}, rule |-> CHOOSE r \in Rules : TRUE, listed |-> {},
               todo |-> {}, stale |-> FALSE, key |-> NoKey, row |-> 0]

AlertFault == alertFaults < MaxAlertFaults /\ alertFaults' = alertFaults + 1
IsActive(k) == active[k] # 0
\* The loop over groups, or over what is to be resolved, goes on.
Loops(k) == engine' = [engine EXCEPT !.at = IF engine.stale THEN "gone" ELSE "groups",
                                     !.todo = @ \ {k}, !.key = NoKey, !.row = 0]

AlertInit ==
    /\ sample = [k \in Keys |-> "none"]
    /\ inClustrDb = MetricRules \X AlertNodes
    /\ loaded = {}
    /\ firing = [i \in Rows |-> NoKey]
    /\ active = [k \in Keys |-> 0]
    /\ engine = IdleEngine
    /\ told = {} /\ unwritten = {} /\ untold = {}
    /\ alertFaults = 0
-----------------------------------------------------------------------------
\* evaluate, with a copy of the rules.
Ticks ==
    /\ engine.at = "idle" /\ loaded # {}
    /\ engine' = [engine EXCEPT !.at = "rules", !.rules = loaded]
    /\ UNCHANGED <<sample, inClustrDb, loaded, firing, active, told, unwritten, untold, alertFaults>>

\* evaluateRuleAllNodes and evaluateOfflineRule begin with a list of nodes.
Hosts(r) ==
    IF r \in OfflineRules THEN {n \in AlertNodes : \E k \in Keys : k.rule = r /\ k.node = n /\ sample[k] = "over"}
    ELSE {n \in AlertNodes : <<r, n>> \in inClustrDb}

Lists(r, hosts) ==
    /\ engine.at = "rules" /\ r \in engine.rules
    /\ engine' = [engine EXCEPT !.at = "groups", !.rules = @ \ {r}, !.rule = r, !.listed = hosts,
                                !.stale = FALSE, !.todo = {k \in Keys : k.rule = r /\ k.node \in hosts}]
    /\ UNCHANGED <<sample, inClustrDb, loaded, firing, active, told, unwritten, untold>>

ListsHosts(r) == Lists(r, Hosts(r)) /\ UNCHANGED alertFaults

\* The query for nodes that were never seen fails, or a row of a list cannot be read.
ListsSome(r) == \E hosts \in SUBSET Hosts(r) : Lists(r, hosts) /\ AlertFault

ListRefused(r) ==
    /\ engine.at = "rules" /\ r \in engine.rules
    /\ engine' = [engine EXCEPT !.rules = @ \ {r}]
    /\ AlertFault
    /\ UNCHANGED <<sample, inClustrDb, loaded, firing, active, told, unwritten, untold>>

EndsTick ==
    /\ engine.at = "rules" /\ engine.rules = {}
    /\ engine' = IdleEngine
    /\ UNCHANGED <<sample, inClustrDb, loaded, firing, active, told, unwritten, untold, alertFaults>>

\* A node on the list of an offline rule is offline, whatever it does since.
Violates(k) == k.rule \in OfflineRules \/ sample[k] = "over"
Satisfies(k) == k.rule \in MetricRules /\ sample[k] = "under"

\* Nothing changes for the group, or its samples cannot be read.
Passes(k) ==
    /\ engine.at = "groups" /\ k \in engine.todo
    /\ \/ ~Violates(k) /\ ~Satisfies(k) /\ UNCHANGED alertFaults
       \/ (IsActive(k) <=> Violates(k)) /\ UNCHANGED alertFaults
       \/ k.rule \in MetricRules /\ AlertFault
    /\ Loops(k)
    /\ UNCHANGED <<sample, inClustrDb, loaded, firing, active, told, unwritten, untold>>

\* StateStore.Fire inserts the row, ...
FireInserts(k, i) ==
    /\ engine.at = "groups" /\ k \in engine.todo
    /\ Violates(k) /\ ~IsActive(k)
    /\ firing[i] = NoKey /\ \A j \in Rows : j < i => firing[j] # NoKey
    /\ firing' = [firing EXCEPT ![i] = k]
    /\ engine' = [engine EXCEPT !.at = "fired", !.key = k, !.row = i]
    /\ UNCHANGED <<sample, inClustrDb, loaded, active, told, unwritten, untold, alertFaults>>

FireRefused(k) ==
    /\ engine.at = "groups" /\ k \in engine.todo
    /\ Violates(k) /\ ~IsActive(k)
    /\ Loops(k)
    /\ AlertFault
    /\ UNCHANGED <<sample, inClustrDb, loaded, firing, active, told, unwritten, untold>>

\* ... then registers it as active; the engine notifies unless a silence covers the rule on the node.
FireRegisters ==
    /\ engine.at = "fired"
    /\ active' = [active EXCEPT ![engine.key] = engine.row]
    /\ Loops(engine.key)
    /\ told' \in {told, told \cup {engine.key}}
    /\ UNCHANGED <<sample, inClustrDb, loaded, firing, unwritten, untold, alertFaults>>

\* Mutant: only what samples tell is resolved.
GroupsDone_NoneGone ==
    /\ engine.at = "groups" /\ engine.todo = {}
    /\ engine' = [engine EXCEPT !.at = "gone", !.stale = TRUE]
    /\ UNCHANGED <<sample, inClustrDb, loaded, firing, active, told, unwritten, untold, alertFaults>>
\* resolveStaleAlerts, and the last part of evaluateOfflineRule: the active alerts of the rule whose
\* nodes are not on the list.
GroupsDone ==
    /\ engine.at = "groups" /\ engine.todo = {}
    /\ engine' = [engine EXCEPT !.at = "gone", !.stale = TRUE,
                                !.todo = {k \in Keys : /\ IsActive(k) /\ k.rule = engine.rule
                                                       /\ k.node \notin engine.listed}]
    /\ UNCHANGED <<sample, inClustrDb, loaded, firing, active, told, unwritten, untold, alertFaults>>

RuleDone ==
    /\ engine.at = "gone" /\ engine.todo = {}
    /\ engine' = [engine EXCEPT !.at = "rules"]
    /\ UNCHANGED <<sample, inClustrDb, loaded, firing, active, told, unwritten, untold, alertFaults>>

\* StateStore.Resolve forgets the alert, ...
Resolves(k) ==
    /\ k \in engine.todo /\ IsActive(k)
    /\ engine.at = "gone" \/ (engine.at = "groups" /\ Satisfies(k))
    /\ active' = [active EXCEPT ![k] = 0]
    /\ engine' = [engine EXCEPT !.at = "resolving", !.key = k, !.row = active[k]]
    /\ UNCHANGED <<sample, inClustrDb, loaded, firing, told, unwritten, untold, alertFaults>>

\* ... then writes the row, ...
ResolveWrites ==
    /\ engine.at = "resolving"
    /\ firing' = [firing EXCEPT ![engine.row] = NoKey]
    /\ engine' = [engine EXCEPT !.at = "resolved"]
    /\ UNCHANGED <<sample, inClustrDb, loaded, active, told, unwritten, untold, alertFaults>>

\* A refused update leaves the row firing and the alert forgotten.
ResolveRefused ==
    /\ engine.at = "resolving"
    /\ unwritten' = unwritten \cup {engine.key}
    /\ Loops(engine.key)
    /\ AlertFault
    /\ UNCHANGED <<sample, inClustrDb, loaded, firing, active, told, untold>>

\* Mutant: an alert that ends with its data ends silently.
ResolveTells_Samples ==
    /\ engine.at = "resolved"
    /\ told' = IF engine.stale THEN told ELSE told \ {engine.key}
    /\ Loops(engine.key)
    /\ UNCHANGED <<sample, inClustrDb, loaded, firing, active, unwritten, untold, alertFaults>>
\* ... reads it again and notifies, silenced or not.
ResolveTells ==
    /\ engine.at = "resolved"
    /\ told' = told \ {engine.key}
    /\ Loops(engine.key)
    /\ UNCHANGED <<sample, inClustrDb, loaded, firing, active, unwritten, untold, alertFaults>>

FetchRefused ==
    /\ engine.at = "resolved"
    /\ untold' = untold \cup {engine.key}
    /\ Loops(engine.key)
    /\ AlertFault
    /\ UNCHANGED <<sample, inClustrDb, loaded, firing, active, told, unwritten>>
-----------------------------------------------------------------------------
\* Samples arrive and leave the window; nodes fall silent, come back or are deleted.
SampleChanges(k) ==
    /\ sample' \in {[sample EXCEPT ![k] = v] : v \in Samples \ {sample[k]}}
    /\ UNCHANGED <<inClustrDb, loaded, firing, active, engine, told, unwritten, untold, alertFaults>>

\* What clustr.db has is never written again.
LeavesClustrDb(r, n) ==
    /\ <<r, n>> \in inClustrDb
    /\ inClustrDb' = inClustrDb \ {<<r, n>>}
    /\ UNCHANGED <<sample, loaded, firing, active, engine, told, unwritten, untold, alertFaults>>

\* Rule files change and are loaded, by the engine's timer or by an API handler, also during a tick.
ReloadsRules ==
    /\ loaded' \in (SUBSET Rules) \ {loaded}
    /\ UNCHANGED <<sample, inClustrDb, firing, active, engine, told, unwritten, untold, alertFaults>>

\* Mutant: rows are loaded for the API only.
AlertRestarts_Cold ==
    /\ AlertFault
    /\ engine' = IdleEngine
    /\ active' = [k \in Keys |-> 0]
    /\ untold' = IF engine.at = "resolved" THEN untold \cup {engine.key} ELSE untold
    /\ UNCHANGED <<sample, inClustrDb, loaded, firing, told, unwritten>>
\* serverd restarts: loadActive, of several rows of a key one.
RowsOf(k) == {i \in Rows : firing[i] = k}
AlertRestarts ==
    /\ AlertFault
    /\ engine' = IdleEngine
    /\ active' \in {a \in [Keys -> 0..MaxRows] :
                       \A k \in Keys : IF RowsOf(k) = {} THEN a[k] = 0 ELSE a[k] \in RowsOf(k)}
    /\ untold' = IF engine.at = "resolved" THEN untold \cup {engine.key} ELSE untold
    /\ UNCHANGED <<sample, inClustrDb, loaded, firing, told, unwritten>>
-----------------------------------------------------------------------------
Evaluates == \/ Ticks \/ EndsTick \/ FireRegisters \/ GroupsDone \/ RuleDone \/ ResolveWrites \/ ResolveTells
             \/ \E r \in Rules : ListsHosts(r)
             \/ \E k \in Keys : Passes(k) \/ Resolves(k) \/ \E i \in Rows : FireInserts(k, i)
Refusals == \/ ResolveRefused \/ FetchRefused
            \/ \E r \in Rules : ListsSome(r) \/ ListRefused(r)
            \/ \E k \in Keys : FireRefused(k)
Surroundings == \/ ReloadsRules
                \/ \E k \in Keys : SampleChanges(k)
                \/ \E r \in MetricRules, n \in AlertNodes : LeavesClustrDb(r, n)
AlertNext == Evaluates \/ Refusals \/ Surroundings \/ AlertRestarts
AlertSpec == AlertInit /\ [][AlertNext]_alertVars
\* The engine ticks every minute; nothing is owed by the nodes.
AlertFair == WF_alertVars(Evaluates)
-----------------------------------------------------------------------------
AlertTypeOK ==
    /\ sample \in [Keys -> Samples]
    /\ inClustrDb \subseteq MetricRules \X AlertNodes
    /\ loaded \subseteq Rules
    /\ firing \in [Rows -> Keys \cup {NoKey}]
    /\ active \in [Keys -> 0..MaxRows]
    /\ engine \in Engine
    /\ told \subseteq Keys /\ unwritten \subseteq Keys /\ untold \subseteq Keys
    /\ alertFaults \in 0..MaxAlertFaults

\* Memory and table agree through fires, resolutions and restarts: an active alert has its row, and a
\* firing row is active (so an alert has one row, and each row can still be resolved) but between the
\* two steps of Fire and Resolve, or when the update of a resolution was refused.
MemoryMatchesTable ==
    /\ \A k \in Keys : IsActive(k) => firing[active[k]] = k
    /\ \A i \in Rows : firing[i] # NoKey =>
           \/ active[firing[i]] = i
           \/ engine.at \in {"fired", "resolving"} /\ engine.row = i
           \/ firing[i] \in unwritten

\* Who was told of an alert is told of its end, by samples, data gap or return of the node: what was
\* notified last of a key is firing only while it is active or being resolved, or a fault cut the
\* resolution short.
ResolutionIsTold ==
    \A k \in told : \/ IsActive(k)
                    \/ engine.at \in {"resolving", "resolved"} /\ engine.key = k
                    \/ k \in unwritten \cup untold

\* While its rule stays loaded, a node that stays offline has an active alert in the end and one that
\* stays online has none, through refused statements, restarts and reloads of other rules.
OfflineIsFollowed ==
    \A k \in Keys : k.rule \in OfflineRules =>
        /\ <>[](k.rule \in loaded /\ sample[k] = "over") => <>[]IsActive(k)
        /\ <>[](k.rule \in loaded /\ sample[k] # "over") => <>[]~IsActive(k)
=============================================================================
