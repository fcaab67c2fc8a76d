---------------------------- MODULE AlertsProofs ----------------------------
(***************************************************************************)
(* Theorems about Alerts, for any rules, nodes and labels, any number of   *)
(* rows, and any number of refused statements and of restarts.             *)
(***************************************************************************)
EXTENDS Alerts, TLAPS

(* Between the statements of Fire and Resolve the engine holds a row and its key, which is not *)
(* active: so a key has at most one row that is not left from a refused update.                *)
Busy == {"fired", "resolving", "resolved"}
EngineOK ==
    /\ engine.at \in Busy => engine.key \in Keys /\ engine.row \in Rows /\ active[engine.key] = 0
    /\ engine.at \in {"fired", "resolving"} => firing[engine.row] = engine.key

AlertInv == AlertTypeOK /\ EngineOK /\ MemoryMatchesTable /\ ResolutionIsTold

(* The bounds on rows and failures are numbers, and there are rules.                          *)
LEMMA Bounds == MaxRows \in Nat /\ MaxAlertFaults \in Nat /\ Rules # {}
BY AlertAssumption DEF AlertAssumption, Rules

(* A key of an alert names a rule, and is never the engine's "no key".                        *)
LEMMA KeysAreKeys == \A k \in Keys : k # NoKey /\ k.rule \in Rules
<1>1. \A k \in Keys : DOMAIN k = {"rule", "node", "labels"} /\ k.rule \in Rules
  BY DEF Keys, Rules
<1>2. DOMAIN NoKey = {"rule"}
  BY DEF NoKey
<1> QED
  BY <1>1, <1>2

(* The engine between two passes has its type.                                                *)
LEMMA IdleOK == IdleEngine \in Engine
BY Bounds DEF IdleEngine, Engine, Rules

(* After a key the engine goes on with the group, or with what is to be resolved.              *)
LEMMA LoopsOn ==
    ASSUME engine \in Engine, NEW k, Loops(k)
    PROVE  engine' \in Engine /\ engine'.at \notin Busy
<1> DEFINE todo == engine.todo \ {k}
<1>1. PICK at \in {"gone", "groups"} :
          engine' = [engine EXCEPT !.at = at, !.todo = todo, !.key = NoKey, !.row = 0]
  BY DEF Loops, Engine
<1>2. todo \in SUBSET Keys /\ 0 \in 0..MaxRows
  BY Bounds DEF Engine
<1>3. ASSUME NEW t \in SUBSET Keys
      PROVE  [engine EXCEPT !.at = at, !.todo = t, !.key = NoKey, !.row = 0] \in Engine
  BY <1>2 DEF Engine
<1>4. engine'.at = at
  BY <1>1 DEF Engine
<1> QED
  BY <1>1, <1>2, <1>3, <1>4 DEF Busy

(* A step that leaves rows, memory and notifications alone keeps them in order.                *)
LEMMA QuietSteps ==
    ASSUME AlertInv, UNCHANGED <<firing, active, told, unwritten, untold>>,
           UNCHANGED engine \/ (engine.at \notin Busy /\ engine'.at \notin Busy)
    PROVE  EngineOK' /\ MemoryMatchesTable' /\ ResolutionIsTold'
<1>1. CASE UNCHANGED engine
  BY <1>1 DEF AlertInv, EngineOK, MemoryMatchesTable, ResolutionIsTold, IsActive
<1>2. CASE engine.at \notin Busy /\ engine'.at \notin Busy
  BY <1>2 DEF AlertInv, EngineOK, MemoryMatchesTable, ResolutionIsTold, IsActive, Busy
<1> QED
  BY <1>1, <1>2

QuietAction ==
    \/ Ticks \/ EndsTick \/ GroupsDone \/ RuleDone
    \/ \E r \in Rules : ListsHosts(r) \/ ListsSome(r) \/ ListRefused(r)
    \/ \E k \in Keys : Passes(k) \/ FireRefused(k)

(* The steps of the engine between its statements, and those around it.                        *)
LEMMA EngineQuiet ==
    ASSUME AlertInv, QuietAction
    PROVE  AlertInv'
<1>0. engine \in Engine
  BY DEF AlertInv, AlertTypeOK
<1>1. UNCHANGED <<sample, inClustrDb, loaded, firing, active, told, unwritten, untold>>
  BY DEF QuietAction, Ticks, EndsTick, GroupsDone, RuleDone, Lists, ListsHosts, ListsSome, ListRefused, Passes,
         FireRefused
<1>2. alertFaults' \in 0..MaxAlertFaults
  <2>1. UNCHANGED alertFaults \/ AlertFault
    BY DEF QuietAction, Ticks, EndsTick, GroupsDone, RuleDone, Lists, ListsHosts, ListsSome, ListRefused, Passes,
         FireRefused
  <2> QED
    BY <2>1, Bounds DEF AlertFault, AlertInv, AlertTypeOK
<1>3. engine.at \notin Busy /\ engine'.at \notin Busy /\ engine' \in Engine
  <2>1. CASE Ticks
    BY <1>0, <2>1 DEF Ticks, Engine, Busy, AlertInv, AlertTypeOK
  <2>2. CASE EndsTick
    BY <1>0, <2>2, IdleOK DEF EndsTick, IdleEngine, Busy
  <2>3. CASE GroupsDone
    BY <1>0, <2>3 DEF GroupsDone, Engine, Busy
  <2>4. CASE RuleDone
    BY <1>0, <2>4 DEF RuleDone, Engine, Busy
  <2>5. ASSUME NEW r \in Rules, ListsHosts(r) \/ ListsSome(r)
        PROVE  engine.at \notin Busy /\ engine'.at \notin Busy /\ engine' \in Engine
    <3>1. Hosts(r) \subseteq AlertNodes
      BY DEF Hosts
    <3>2. PICK hosts \in SUBSET Hosts(r) : Lists(r, hosts)
      BY <2>5 DEF ListsHosts, ListsSome
    <3> QED
      BY <1>0, <3>1, <3>2 DEF Lists, Engine, Busy
  <2>6. ASSUME NEW r \in Rules, ListRefused(r)
        PROVE  engine.at \notin Busy /\ engine'.at \notin Busy /\ engine' \in Engine
    BY <1>0, <2>6 DEF ListRefused, Engine, Busy
  <2>7. ASSUME NEW k \in Keys, Passes(k) \/ FireRefused(k)
        PROVE  engine.at \notin Busy /\ engine'.at \notin Busy /\ engine' \in Engine
    BY <1>0, <2>7, LoopsOn DEF Passes, FireRefused, Busy
  <2> QED
    BY <2>1, <2>2, <2>3, <2>4, <2>5, <2>6, <2>7 DEF QuietAction
<1>4. AlertTypeOK'
  BY <1>1, <1>2, <1>3 DEF AlertInv, AlertTypeOK
<1> QED
  BY <1>1, <1>3, <1>4, QuietSteps DEF AlertInv

(* What goes on around the engine (samples, reloaded rules) leaves its rows and memory in order. *)
LEMMA AroundQuiet ==
    ASSUME AlertInv, Surroundings
    PROVE  AlertInv'
<1>1. UNCHANGED <<firing, active, engine, told, unwritten, untold, alertFaults>>
  BY DEF Surroundings, ReloadsRules, SampleChanges, LeavesClustrDb
<1>2. sample' \in [Keys -> Samples] /\ inClustrDb' \subseteq MetricRules \X AlertNodes /\ loaded' \subseteq Rules
  BY DEF Surroundings, ReloadsRules, SampleChanges, LeavesClustrDb, AlertInv, AlertTypeOK, Samples
<1>3. AlertTypeOK'
  BY <1>1, <1>2 DEF AlertInv, AlertTypeOK
<1> QED
  BY <1>1, <1>3, QuietSteps DEF AlertInv

(* The rows of keys that are left from refused updates aside, memory knows a key's only row.   *)
LEMMA OneRow ==
    ASSUME AlertInv, NEW i \in Rows, NEW j \in Rows, i # j, firing[i] = firing[j], firing[i] # NoKey
    PROVE  firing[i] \in unwritten
<1>1. firing[i] \in Keys
  BY DEF AlertInv, AlertTypeOK
<1>2. /\ active[firing[i]] = i \/ (engine.at \in Busy /\ engine.row = i) \/ firing[i] \in unwritten
      /\ active[firing[i]] = j \/ (engine.at \in Busy /\ engine.row = j) \/ firing[i] \in unwritten
  BY DEF AlertInv, MemoryMatchesTable, Busy
<1>3. engine.at \in {"fired", "resolving"} => active[firing[engine.row]] = 0
  BY DEF AlertInv, EngineOK, Busy
<1>4. /\ active[firing[i]] = i \/ (active[firing[i]] = 0 /\ engine.row = i) \/ firing[i] \in unwritten
      /\ active[firing[i]] = j \/ (active[firing[i]] = 0 /\ engine.row = j) \/ firing[i] \in unwritten
  BY <1>3 DEF AlertInv, MemoryMatchesTable
<1>5. i # 0 /\ j # 0
  BY Bounds DEF Rows
<1> QED
  BY <1>4, <1>5

(* Fire: first the row, then the entry.                                                        *)
LEMMA FireStep ==
    ASSUME AlertInv, FireRegisters \/ \E k \in Keys, i \in Rows : FireInserts(k, i)
    PROVE  AlertInv'
<1>0. /\ engine \in Engine /\ active \in [Keys -> 0..MaxRows] /\ firing \in [Rows -> Keys \cup {NoKey}]
      /\ \A i \in Rows : i # 0 /\ i \in 0..MaxRows
  BY Bounds DEF AlertInv, AlertTypeOK, Rows
<1>1. ASSUME NEW k \in Keys, NEW i \in Rows, FireInserts(k, i)
      PROVE  AlertInv'
  <2>1. /\ engine' = [engine EXCEPT !.at = "fired", !.key = k, !.row = i]
        /\ firing' = [firing EXCEPT ![i] = k] /\ firing[i] = NoKey /\ active[k] = 0 /\ engine.at = "groups"
        /\ UNCHANGED <<sample, inClustrDb, loaded, active, told, unwritten, untold, alertFaults>>
    BY <1>0, <1>1 DEF FireInserts, IsActive
  <2>2. engine' \in Engine /\ engine'.at = "fired" /\ engine'.key = k /\ engine'.row = i
    BY <1>0, <2>1 DEF Engine
  <2>3. firing' \in [Rows -> Keys \cup {NoKey}]
    BY <1>0, <2>1
  <2>4. AlertTypeOK'
    BY <2>1, <2>2, <2>3 DEF AlertInv, AlertTypeOK
  <2>5. EngineOK'
    BY <1>0, <2>1, <2>2 DEF EngineOK, Busy
  <2>6. \A l \in Keys : active[l] # 0 => active[l] # i
    BY <1>0, <2>1, KeysAreKeys DEF AlertInv, MemoryMatchesTable, IsActive
  <2>7. MemoryMatchesTable'
    BY <1>0, <2>1, <2>2, <2>6 DEF AlertInv, MemoryMatchesTable, IsActive
  <2>8. ResolutionIsTold'
    BY <2>1 DEF AlertInv, ResolutionIsTold, IsActive
  <2> QED
    BY <2>4, <2>5, <2>7, <2>8 DEF AlertInv
<1>2. ASSUME FireRegisters
      PROVE  AlertInv'
  <2> DEFINE k == engine.key
             i == engine.row
  <2>1. k \in Keys /\ i \in Rows /\ active[k] = 0 /\ firing[i] = k /\ engine.at = "fired"
    BY <1>2 DEF FireRegisters, AlertInv, EngineOK, Busy
  <2>2. /\ active' = [active EXCEPT ![k] = i] /\ told' \in {told, told \cup {k}} /\ Loops(k)
        /\ UNCHANGED <<sample, inClustrDb, loaded, firing, unwritten, untold, alertFaults>>
    BY <1>2 DEF FireRegisters
  <2>3. engine' \in Engine /\ engine'.at \notin Busy
    BY <1>0, <2>2, LoopsOn
  <2>4. AlertTypeOK'
    <3>1. active' \in [Keys -> 0..MaxRows] /\ told' \subseteq Keys
      BY <1>0, <2>1, <2>2 DEF AlertInv, AlertTypeOK
    <3> QED
      BY <2>2, <2>3, <3>1 DEF AlertInv, AlertTypeOK
  <2>5. EngineOK'
    BY <2>3 DEF EngineOK, Busy
  <2>6. MemoryMatchesTable'
    <3>1. \A l \in Keys : active'[l] # 0 => firing[active'[l]] = l
      BY <1>0, <2>1, <2>2 DEF AlertInv, MemoryMatchesTable, IsActive
    <3>2. ASSUME NEW j \in Rows, firing[j] # NoKey
          PROVE  active'[firing[j]] = j \/ firing[j] \in unwritten
      <4>1. firing[j] \in Keys
        BY <1>0, <3>2
      <4>2. CASE j = i
        BY <1>0, <2>1, <2>2, <4>2
      <4>3. CASE j # i /\ firing[j] = k
        BY <2>1, <3>2, <4>3, OneRow
      <4>4. CASE j # i /\ firing[j] # k
        BY <1>0, <2>1, <2>2, <3>2, <4>1, <4>4 DEF AlertInv, MemoryMatchesTable
      <4> QED
        BY <4>2, <4>3, <4>4
    <3> QED
      BY <2>2, <3>1, <3>2 DEF MemoryMatchesTable, IsActive
  <2>7. ResolutionIsTold'
    <3>1. ASSUME NEW l \in told'
          PROVE  active'[l] # 0 \/ l \in unwritten \cup untold
      <4>1. CASE l = k
        BY <1>0, <2>1, <2>2, <4>1
      <4>2. CASE l # k
        BY <1>0, <2>1, <2>2, <3>1, <4>2 DEF AlertInv, AlertTypeOK, ResolutionIsTold, IsActive
      <4> QED
        BY <4>1, <4>2
    <3> QED
      BY <2>2, <3>1 DEF ResolutionIsTold, IsActive
  <2> QED
    BY <2>4, <2>5, <2>6, <2>7 DEF AlertInv
<1> QED
  BY <1>1, <1>2

(* Resolve forgets the entry ...                                                               *)
LEMMA ResolveStep ==
    ASSUME AlertInv, NEW k \in Keys, Resolves(k)
    PROVE  AlertInv'
<1> DEFINE i == active[k]
<1>0. /\ engine \in Engine /\ active \in [Keys -> 0..MaxRows] /\ firing \in [Rows -> Keys \cup {NoKey}]
      /\ MaxRows \in Nat
  BY Bounds DEF AlertInv, AlertTypeOK
<1>1. /\ active' = [active EXCEPT ![k] = 0] /\ i # 0 /\ engine.at \in {"gone", "groups"}
      /\ engine' = [engine EXCEPT !.at = "resolving", !.key = k, !.row = i]
      /\ UNCHANGED <<sample, inClustrDb, loaded, firing, told, unwritten, untold, alertFaults>>
  BY DEF Resolves, IsActive
<1>2. i \in Rows /\ i \in 0..MaxRows /\ firing[i] = k
  BY <1>0, <1>1 DEF AlertInv, MemoryMatchesTable, IsActive, Rows
<1>3. engine' \in Engine /\ engine'.at = "resolving" /\ engine'.key = k /\ engine'.row = i
  <2>1. ASSUME NEW j \in 0..MaxRows
        PROVE  [engine EXCEPT !.at = "resolving", !.key = k, !.row = j] \in Engine
    BY <1>0 DEF Engine
  <2> QED
    BY <1>0, <1>1, <1>2, <2>1 DEF Engine
<1>4. AlertTypeOK'
  <2>1. active' \in [Keys -> 0..MaxRows]
    BY <1>0, <1>1
  <2> QED
    BY <1>1, <1>3, <2>1 DEF AlertInv, AlertTypeOK
<1>5. EngineOK'
  BY <1>0, <1>1, <1>2, <1>3 DEF EngineOK, Busy
<1>6. MemoryMatchesTable'
  <2>1. \A l \in Keys : active'[l] # 0 => firing[active'[l]] = l
    BY <1>0, <1>1 DEF AlertInv, MemoryMatchesTable, IsActive
  <2>2. ASSUME NEW j \in Rows, firing[j] # NoKey
        PROVE  active'[firing[j]] = j \/ j = i \/ firing[j] \in unwritten
    <3>1. firing[j] \in Keys
      BY <1>0, <2>2
    <3> QED
      BY <1>0, <1>1, <2>2, <3>1 DEF AlertInv, MemoryMatchesTable
  <2> QED
    BY <1>1, <1>3, <2>1, <2>2 DEF MemoryMatchesTable, IsActive
<1>7. ResolutionIsTold'
  <2>1. ASSUME NEW l \in told
        PROVE  active'[l] # 0 \/ l = k \/ l \in unwritten \cup untold
    BY <1>0, <1>1, <2>1 DEF AlertInv, AlertTypeOK, ResolutionIsTold, IsActive
  <2> QED
    BY <1>1, <1>3, <2>1 DEF ResolutionIsTold, IsActive
<1> QED
  BY <1>4, <1>5, <1>6, <1>7 DEF AlertInv

(* ... then writes the row and notifies, or the statement is refused.                          *)
LEMMA ResolvedStep ==
    ASSUME AlertInv, ResolveWrites \/ ResolveRefused \/ ResolveTells \/ FetchRefused
    PROVE  AlertInv'
<1> DEFINE k == engine.key
           i == engine.row
<1>0. /\ engine \in Engine /\ active \in [Keys -> 0..MaxRows] /\ firing \in [Rows -> Keys \cup {NoKey}]
      /\ MaxRows \in Nat
  BY Bounds DEF AlertInv, AlertTypeOK
<1>1. /\ k \in Keys /\ i \in Rows /\ active[k] = 0
      /\ engine.at = "resolving" => firing[i] = k
      /\ engine.at \in {"resolving", "resolved"}
  BY DEF ResolveWrites, ResolveRefused, ResolveTells, FetchRefused, AlertInv, EngineOK, Busy
<1>2. CASE ResolveWrites
  <2>1. /\ engine.at = "resolving" /\ firing' = [firing EXCEPT ![i] = NoKey]
        /\ engine' = [engine EXCEPT !.at = "resolved"]
        /\ UNCHANGED <<sample, inClustrDb, loaded, active, told, unwritten, untold, alertFaults>>
    BY <1>2 DEF ResolveWrites
  <2>2. engine' \in Engine /\ engine'.at = "resolved" /\ engine'.key = k /\ engine'.row = i
    BY <1>0, <2>1 DEF Engine
  <2>3. firing' \in [Rows -> Keys \cup {NoKey}]
    BY <1>0, <2>1
  <2>4. AlertTypeOK'
    BY <2>1, <2>2, <2>3 DEF AlertInv, AlertTypeOK
  <2>5. EngineOK'
    BY <1>1, <2>1, <2>2 DEF EngineOK, Busy
  <2>6. MemoryMatchesTable'
    <3>1. \A l \in Keys : active[l] # 0 => active[l] # i
      BY <1>0, <1>1, <2>1 DEF AlertInv, MemoryMatchesTable, IsActive
    <3>2. \A l \in Keys : active[l] # 0 => firing'[active[l]] = l
      BY <1>0, <2>1, <3>1 DEF AlertInv, MemoryMatchesTable, IsActive, Rows
    <3>3. \A j \in Rows : firing'[j] # NoKey => active[firing'[j]] = j \/ firing'[j] \in unwritten
      BY <1>0, <2>1 DEF AlertInv, MemoryMatchesTable
    <3> QED
      BY <2>1, <3>2, <3>3 DEF MemoryMatchesTable, IsActive
  <2>7. ResolutionIsTold'
    BY <2>1, <2>2 DEF AlertInv, ResolutionIsTold, IsActive
  <2> QED
    BY <2>4, <2>5, <2>6, <2>7 DEF AlertInv
<1>3. CASE ResolveRefused \/ ResolveTells \/ FetchRefused
  <2>1. /\ Loops(k) /\ UNCHANGED <<sample, inClustrDb, loaded, firing, active>>
        /\ told' \subseteq told
        /\ k \in told' => k \in unwritten' \cup untold'
        /\ unwritten \subseteq unwritten' /\ unwritten' \subseteq unwritten \cup {k}
        /\ untold \subseteq untold' /\ untold' \subseteq untold \cup {k}
        /\ engine.at = "resolving" => k \in unwritten'
    BY <1>3 DEF ResolveRefused, ResolveTells, FetchRefused
  <2>2. engine' \in Engine /\ engine'.at \notin Busy
    BY <1>0, <2>1, LoopsOn
  <2>3. alertFaults' \in 0..MaxAlertFaults
    BY <1>3, Bounds DEF ResolveRefused, ResolveTells, FetchRefused, AlertFault, AlertInv, AlertTypeOK
  <2>4. AlertTypeOK'
    BY <1>1, <2>1, <2>2, <2>3 DEF AlertInv, AlertTypeOK
  <2>5. EngineOK'
    BY <2>2 DEF EngineOK, Busy
  <2>6. MemoryMatchesTable'
    <3>1. ASSUME NEW j \in Rows, firing[j] # NoKey
          PROVE  active[firing[j]] = j \/ firing[j] \in unwritten'
      BY <1>1, <2>1, <3>1 DEF AlertInv, MemoryMatchesTable
    <3> QED
      BY <2>1, <3>1 DEF AlertInv, MemoryMatchesTable, IsActive
  <2>7. ResolutionIsTold'
    <3>1. ASSUME NEW l \in told'
          PROVE  active[l] # 0 \/ l \in unwritten' \cup untold'
      BY <1>1, <2>1 DEF AlertInv, ResolutionIsTold, IsActive
    <3> QED
      BY <2>1, <3>1 DEF ResolutionIsTold, IsActive
  <2> QED
    BY <2>4, <2>5, <2>6, <2>7 DEF AlertInv
<1> QED
  BY <1>2, <1>3

(* A restart takes memory from the rows: what was active or being resolved is active again.    *)
LEMMA RestartStep ==
    ASSUME AlertInv, AlertRestarts
    PROVE  AlertInv'
<1>0. /\ active \in [Keys -> 0..MaxRows] /\ firing \in [Rows -> Keys \cup {NoKey}]
      /\ MaxRows \in Nat /\ told \subseteq Keys
  BY Bounds DEF AlertInv, AlertTypeOK
<1>1. /\ engine' = IdleEngine /\ active' \in [Keys -> 0..MaxRows]
      /\ untold' = IF engine.at = "resolved" THEN untold \cup {engine.key} ELSE untold
      /\ UNCHANGED <<sample, inClustrDb, loaded, firing, told, unwritten>>
  BY DEF AlertRestarts
<1>2. \A k \in Keys : IF RowsOf(k) = {} THEN active'[k] = 0 ELSE active'[k] \in RowsOf(k)
  BY DEF AlertRestarts
<1>3. AlertTypeOK'
  <2>1. alertFaults' \in 0..MaxAlertFaults
    BY Bounds DEF AlertRestarts, AlertFault, AlertInv, AlertTypeOK
  <2>2. untold' \subseteq Keys
    BY <1>1 DEF AlertInv, AlertTypeOK, EngineOK, Busy
  <2> QED
    BY <1>1, <2>1, <2>2, IdleOK DEF AlertInv, AlertTypeOK
<1>4. engine'.at = "idle"
  BY <1>1 DEF IdleEngine
<1>5. EngineOK'
  BY <1>4 DEF EngineOK, Busy
<1>6. ASSUME NEW i \in Rows, firing[i] \in Keys
      PROVE  active'[firing[i]] \in Rows /\ firing[active'[firing[i]]] = firing[i]
  BY <1>2, <1>6 DEF RowsOf
<1>7. MemoryMatchesTable'
  <2>1. \A k \in Keys : active'[k] # 0 => firing[active'[k]] = k
    BY <1>2 DEF RowsOf
  <2>2. ASSUME NEW i \in Rows, firing[i] # NoKey
        PROVE  active'[firing[i]] = i \/ firing[i] \in unwritten
    <3>1. firing[i] \in Keys
      BY <1>0, <2>2
    <3>2. active'[firing[i]] \in Rows /\ firing[active'[firing[i]]] = firing[i]
      BY <1>6, <3>1
    <3> QED
      BY <2>2, <3>2, OneRow
  <2> QED
    BY <1>1, <2>1, <2>2 DEF MemoryMatchesTable, IsActive
<1>8. ResolutionIsTold'
  <2>1. ASSUME NEW k \in told
        PROVE  active'[k] # 0 \/ k \in unwritten \cup untold'
    <3>1. CASE \E i \in Rows : firing[i] = k
      BY <1>0, <1>6, <2>1, <3>1 DEF Rows
    <3>2. CASE ~\E i \in Rows : firing[i] = k
      <4>1. active[k] = 0
        BY <1>0, <2>1, <3>2 DEF AlertInv, MemoryMatchesTable, IsActive, Rows
      <4>2. ~(engine.at = "resolving" /\ engine.key = k)
        BY <3>2 DEF AlertInv, EngineOK, Busy
      <4> QED
        BY <1>1, <2>1, <4>1, <4>2 DEF AlertInv, ResolutionIsTold, IsActive
    <3> QED
      BY <3>1, <3>2
  <2> QED
    BY <1>1, <2>1 DEF ResolutionIsTold, IsActive
<1> QED
  BY <1>3, <1>5, <1>7, <1>8 DEF AlertInv

(* The inductive invariant of the engine, its memory and its table.                            *)
THEOREM AlertsAreInvariant == AlertSpec => []AlertInv
<1>1. AlertInit => AlertInv
  <2> SUFFICES ASSUME AlertInit PROVE AlertInv
    OBVIOUS
  <2>1. AlertTypeOK
    BY Bounds, IdleOK DEF AlertInit, AlertTypeOK, Samples
  <2>2. EngineOK
    BY DEF AlertInit, EngineOK, IdleEngine, Busy
  <2> QED
    BY <2>1, <2>2 DEF AlertInit, AlertInv, MemoryMatchesTable, ResolutionIsTold, IsActive
<1>2. AlertInv /\ [AlertNext]_alertVars => AlertInv'
  <2> SUFFICES ASSUME AlertInv, [AlertNext]_alertVars PROVE AlertInv'
    OBVIOUS
  <2>1. CASE AlertNext
    BY <2>1, EngineQuiet, AroundQuiet, FireStep, ResolveStep, ResolvedStep, RestartStep
    DEF AlertNext, Evaluates, Refusals, QuietAction
  <2>2. CASE UNCHANGED alertVars
    BY <2>2 DEF alertVars, AlertInv, AlertTypeOK, EngineOK, MemoryMatchesTable, ResolutionIsTold, IsActive
  <2> QED
    BY <2>1, <2>2
<1> QED
  BY <1>1, <1>2, PTL DEF AlertSpec

(* The types of the rows, the memory and the goroutine of the engine.                          *)
THEOREM AlertTypeCorrect == AlertSpec => []AlertTypeOK
<1>1. AlertInv => AlertTypeOK
  BY DEF AlertInv
<1> QED
  BY <1>1, AlertsAreInvariant, PTL

(* Memory and table agree through fires, resolutions, refused statements and restarts.         *)
THEOREM MemoryIsTheTable == AlertSpec => []MemoryMatchesTable
<1>1. AlertInv => MemoryMatchesTable
  BY DEF AlertInv
<1> QED
  BY <1>1, AlertsAreInvariant, PTL

(* Who was told of an alert is told of its end.                                                *)
THEOREM ResolutionsAreTold == AlertSpec => []ResolutionIsTold
<1>1. AlertInv => ResolutionIsTold
  BY DEF AlertInv
<1> QED
  BY <1>1, AlertsAreInvariant, PTL
=============================================================================
