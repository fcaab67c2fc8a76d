--------------------------- MODULE ReimageProofs ---------------------------
(***************************************************************************)
(* Theorems about Reimage, for any nodes, images, requests, operator       *)
(* activity and faults.                                                    *)
(***************************************************************************)
EXTENDS Reimage, FiniteSetTheorems, TLAPS

(* What types alone do not say: nobody works on a request that does not exist.  Trigger,   *)
(* the scheduler and the cancel handlers write columns of a row, and that row is there.    *)
Unborn ==
    \A r \in ReqIds : ~Exists(r) => /\ trig[r] = "idle" /\ cancel[r] = "idle"
                                    /\ r \notin batch \cup failing /\ due[r] = 0
                                    /\ cycled[r] = 0
TypeInv == TypeOK /\ Unborn

(* A row keeps its type under each statement that writes one of its columns.               *)
LEMMA RowTyped ==
    ASSUME NEW row \in NodeRow
    PROVE  /\ DeploySucceeded(row) \in NodeRow
           /\ \A b \in BOOLEAN : [row EXCEPT !.pending = b] \in NodeRow
           /\ \A img \in Images \cup {NoImage} : [row EXCEPT !.image = img] \in NodeRow
           /\ [row EXCEPT !.failed = TRUE] \in NodeRow
           /\ [row EXCEPT !.timeout = TRUE] \in NodeRow
           /\ \A l \in LdapStates : [row EXCEPT !.verified = TRUE, !.ldap = l] \in NodeRow
BY DEF NodeRow, DeploySucceeded

(* A reset or a boot order command leaves a machine a machine.                             *)
LEMMA HostTyped ==
    ASSUME NEW h \in Host, NEW n \in Nodes
    PROVE  /\ Reset(h) \in Host
           /\ \A o \in {"any", "pxe", "disk"} : SetOrder(n, h, o) \in Host
BY DEF Host, HostPlaces, Reset, SetOrder

(* So does the flip back to the disk, done or not.                                         *)
LEMMA FlipTyped ==
    ASSUME host \in [Nodes -> Host], NEW n \in Nodes, FlipToDiskFirst(n)
    PROVE  host' \in [Nodes -> Host]
BY HostTyped DEF FlipToDiskFirst

(* In the initial state every variable has its type.                                       *)
LEMMA InitTyped == Init => TypeInv
BY ReimageAssumption DEF Init, TypeInv, TypeOK, Unborn, NodeRow, NewNodeRow, LdapStates, NoReq, Exists,
   TrigStages, HandlerStages, Host, HostPlaces

(* A status write touches one existing row, and it exists afterwards.                      *)
LEMMA StatusTyped ==
    ASSUME TypeInv, NEW r \in ReqIds, Exists(r), NEW s \in Statuses, SetStatus(r, s)
    PROVE  /\ req' \in [ReqIds -> Request \cup {NoReq}]
           /\ \A q \in ReqIds : Exists(q)' <=> Exists(q)
<1>1. req[r] \in Request
  BY DEF TypeInv, TypeOK, Exists, NoReq
<1>2. [req[r] EXCEPT !.status = s] \in Request
  BY <1>1 DEF Request
<1>3. req' = [req EXCEPT ![r] = [req[r] EXCEPT !.status = s]]
  BY DEF SetStatus
<1>4. req'[r].status = s /\ s # "none"
  BY <1>1, <1>3 DEF TypeInv, TypeOK, Request, Statuses, ActiveStatuses, TerminalStatuses
<1>5. \A q \in ReqIds : q # r => req'[q] = req[q]
  BY <1>3 DEF TypeInv, TypeOK
<1> QED
  BY <1>2, <1>3, <1>4, <1>5 DEF TypeInv, TypeOK, Exists

(* A statement over every row of a node, likewise.                                         *)
LEMMA CloseTyped ==
    ASSUME TypeInv, NEW n \in Nodes, NEW s \in Statuses, CloseActive(n, s)
    PROVE  /\ req' \in [ReqIds -> Request \cup {NoReq}]
           /\ \A q \in ReqIds : Exists(q)' <=> Exists(q)
<1>1. \A q \in ReqIds : q \in Active(n) => req[q] \in Request
  BY DEF TypeInv, TypeOK, Active, Exists, NoReq
<1>2. \A q \in ReqIds : q \in Active(n) => [req[q] EXCEPT !.status = s] \in Request
  BY <1>1 DEF Request
<1>3. \A q \in ReqIds : q \in Active(n) => [req[q] EXCEPT !.status = s].status # "none"
  BY <1>1 DEF Request, Statuses, ActiveStatuses, TerminalStatuses
<1> QED
  BY <1>2, <1>3 DEF TypeInv, TypeOK, CloseActive, Active, Exists

(* Operator calls keep the types.                                                          *)
LEMMA OperatorTyped == TypeInv /\ Operator => TypeInv'
<1> SUFFICES ASSUME TypeInv, Operator PROVE TypeInv'
  OBVIOUS
<1> USE DEF TypeInv, TypeOK, Unborn, Exists, dbVars, srvVars, calls, histVars
<1>1. ASSUME NEW n \in Nodes, NEW img \in Images \cup {NoImage}, AssignImage(n, img) PROVE TypeInv'
  BY <1>1, RowTyped DEF AssignImage
<1>2. ASSUME NEW n \in Nodes, NEW img \in Images, NEW sched \in BOOLEAN, NEW opts \in OptSets,
             NEW force \in BOOLEAN, CreateChecks(n, img, sched, opts, force)
      PROVE  TypeInv'
  <2>1. rivals' \in [ReqIds -> SUBSET ReqIds]
    BY <1>2 DEF CreateChecks, Underway, Active
  <2> QED
    BY <1>2, <2>1, ReimageAssumption DEF CreateChecks, IsNext, Request, Statuses, NoReq
<1>3. ASSUME NEW r \in ReqIds, RetryChecks(r) PROVE TypeInv'
  <2>1. PICK q \in ReqIds : /\ IsNext(q)
                            /\ req' = [req EXCEPT ![q] = [req[r] EXCEPT !.scheduled = FALSE,
                                          !.opts = @ \ {"bios"}, !.status = "checked"]]
    BY <1>3 DEF RetryChecks
  <2>2. req[r] \in Request
    BY <1>3 DEF RetryChecks, NoReq
  <2>3. [req[r] EXCEPT !.scheduled = FALSE, !.opts = @ \ {"bios"}, !.status = "checked"]
           \in {x \in Request : x.status = "checked"}
    BY <2>2 DEF Request, Statuses
  <2>4. rivals' \in [ReqIds -> SUBSET ReqIds]
    BY <1>3 DEF RetryChecks, Underway
  <2> QED
    BY <1>3, <2>1, <2>3, <2>4 DEF RetryChecks
<1>4. ASSUME NEW r \in ReqIds, InsertRequest(r) PROVE TypeInv'
  <2>1. /\ req' \in [ReqIds -> Request \cup {NoReq}]
        /\ \A q \in ReqIds : Exists(q)' <=> Exists(q)
    BY <1>4, StatusTyped DEF InsertRequest, Statuses, ActiveStatuses
  <2> QED
    BY <1>4, <2>1 DEF InsertRequest, TrigStages
<1>5. ASSUME NEW r \in ReqIds, CancelReads(r) PROVE TypeInv'
  BY <1>5 DEF CancelReads, ActiveStatuses
<1>6. ASSUME NEW r \in ReqIds, CancelUpdates(r) PROVE TypeInv'
  <2>1. /\ req' \in [ReqIds -> Request \cup {NoReq}]
        /\ \A q \in ReqIds : Exists(q)' <=> Exists(q)
    BY <1>6, StatusTyped DEF CancelUpdates, Statuses, TerminalStatuses
  <2> QED
    BY <1>6, <2>1 DEF CancelUpdates
<1>7. ASSUME NEW r \in ReqIds, CancelClears(r) PROVE TypeInv'
  <2>1. req[r].node \in Nodes
    BY <1>7 DEF CancelClears, Request, NoReq
  <2> QED
    BY <1>7, <2>1, RowTyped DEF CancelClears, SetPending
<1>8. ASSUME NEW r \in ReqIds, CancelAborts(r) PROVE TypeInv'
  BY <1>8, ReimageAssumption DEF CancelAborts, Fault
<1>9. CASE BulkReads
  BY <1>9 DEF BulkReads
<1>10. CASE BulkUpdates
  <2>1. \A r \in ReqIds : req[r].status \in ActiveStatuses =>
           [req[r] EXCEPT !.status = "canceled"] \in {x \in Request : x.status = "canceled"}
    BY DEF ActiveStatuses, TerminalStatuses, Statuses, Request, NoReq
  <2>2. \A r \in ReqIds : req'[r] = IF req[r].status \in ActiveStatuses
                                    THEN [req[r] EXCEPT !.status = "canceled"] ELSE req[r]
    BY <1>10 DEF BulkUpdates
  <2>3. /\ req' \in [ReqIds -> Request \cup {NoReq}]
        /\ \A q \in ReqIds : Exists(q)' <=> Exists(q)
    BY <1>10, <2>1, <2>2 DEF BulkUpdates, ActiveStatuses
  <2> QED
    BY <1>10, <2>3 DEF BulkUpdates
<1>11. ASSUME NEW n \in Nodes, BulkClears(n) PROVE TypeInv'
  BY <1>11, RowTyped DEF BulkClears, SetPending
<1>12. CASE BulkAborts
  BY <1>12, ReimageAssumption DEF BulkAborts, Fault
<1> QED
  BY <1>1, <1>2, <1>3, <1>4, <1>5, <1>6, <1>7, <1>8, <1>9, <1>10, <1>11, <1>12 DEF Operator

(* Each statement and BMC call of Trigger keeps the types.                                 *)
LEMMA TriggerTyped ==
    ASSUME TypeInv, NEW r \in ReqIds, Trigger(r)
    PROVE  TypeInv'
<1> USE DEF TypeInv, TypeOK, Unborn, Exists, dbVars, srvVars, calls, histVars
<1>1. Exists(r) /\ req[r] \in Request /\ NodeOf(r) \in Nodes
  <2>1. trig[r] # "idle"
    BY DEF Trigger, TriggerAssigns, TriggerFlags, TriggerSetsNextBoot, TriggerCycles,
           TriggerMarks, TriggerFails, TriggerGivesUp
  <2> QED
    BY <2>1 DEF Request, NoReq, NodeOf
<1>2. ASSUME NEW s \in Statuses, SetStatus(r, s)
      PROVE  /\ req' \in [ReqIds -> Request \cup {NoReq}]
             /\ \A q \in ReqIds : Exists(q)' <=> Exists(q)
  BY <1>1, <1>2, StatusTyped
<1>3. CASE TriggerAssigns(r)
  <2>1. [node[NodeOf(r)] EXCEPT !.image = req[r].image] \in NodeRow
    BY <1>1, RowTyped DEF Request
  <2> QED
    BY <1>1, <1>3, <2>1 DEF TriggerAssigns, GoOn, TrigStages
<1>4. CASE TriggerFlags(r)
  <2>1. [node[NodeOf(r)] EXCEPT !.pending = TRUE] \in NodeRow
    BY <1>1, RowTyped
  <2> QED
    BY <1>1, <1>4, <2>1 DEF TriggerFlags, SetPending, GoOn, TrigStages
<1>5. CASE TriggerSetsNextBoot(r)
  <2>1. SetOrder(NodeOf(r), host[NodeOf(r)], "pxe") \in Host
    BY <1>1, HostTyped
  <2> QED
    BY <1>1, <1>5, <2>1 DEF TriggerSetsNextBoot, GoOn, TrigStages
<1>6. PowerCycle(r) => /\ host' \in [Nodes -> Host] /\ cycled' \in [ReqIds -> Nat]
                       /\ \A q \in ReqIds : ~Exists(q) => cycled'[q] = 0
  BY <1>1, HostTyped DEF PowerCycle
<1>7. CASE TriggerCycles(r)
  BY <1>1, <1>6, <1>7 DEF TriggerCycles, GoOn, TrigStages
<1>8. CASE TriggerMarks(r)
  BY <1>1, <1>2, <1>8 DEF TriggerMarks, Return, Statuses, ActiveStatuses, TrigStages
<1>9. CASE TriggerFails(r)
  BY <1>1, <1>2, <1>6, <1>9 DEF TriggerFails, Return, Statuses, TerminalStatuses, TrigStages
<1>10. CASE TriggerGivesUp(r)
  BY <1>1, <1>10, ReimageAssumption DEF TriggerGivesUp, Return, Fault, TrigStages
<1> QED
  BY <1>3, <1>4, <1>5, <1>7, <1>8, <1>9, <1>10 DEF Trigger

(* The scheduler and the passing of time keep the types.                                   *)
LEMMA SchedulerTyped == TypeInv /\ Scheduler => TypeInv'
<1> SUFFICES ASSUME TypeInv, Scheduler PROVE TypeInv'
  OBVIOUS
<1> USE DEF TypeInv, TypeOK, Unborn, Exists, dbVars, srvVars, calls, histVars
<1>1. CASE SchedulerTicks
  <2>1. \A r \in batch' : r \in ReqIds /\ req[r].status = "pending"
    BY <1>1 DEF SchedulerTicks, PendingDue
  <2> QED
    BY <1>1, <2>1 DEF SchedulerTicks
<1>2. CASE SchedulerTriggers
  BY <1>2 DEF SchedulerTriggers, ByScheduler, TrigStages
<1>3. ASSUME NEW r \in ReqIds, FallsDue(r) PROVE TypeInv'
  <2>1. Cardinality({q \in ReqIds : due[q] # 0}) \in Nat
    <3>1. IsFiniteSet(ReqIds)
      BY ReimageAssumption, FS_Interval DEF ReqIds
    <3> QED
      BY <3>1, FS_Subset, FS_CardinalityType
  <2> QED
    BY <1>3, <2>1 DEF FallsDue
<1> QED
  BY <1>1, <1>2, <1>3 DEF Scheduler

(* The reaper and the verify-boot scanner keep the types.                                  *)
LEMMA WorkersTyped == TypeInv /\ (Reaper \/ Scanner) => TypeInv'
<1> SUFFICES ASSUME TypeInv, Reaper \/ Scanner PROVE TypeInv'
  OBVIOUS
<1> USE DEF TypeInv, TypeOK, Unborn, Exists, dbVars, srvVars, calls, histVars
<1>1. CASE ReaperLists
  BY <1>1 DEF ReaperLists
<1>2. ASSUME NEW n \in Nodes, ReaperChecks(n) PROVE TypeInv'
  BY <1>2 DEF ReaperChecks
<1>3. ASSUME NEW n \in Nodes, ReaperClears(n) PROVE TypeInv'
  BY <1>3, RowTyped DEF ReaperClears, SetPending
<1>4. CASE ScannerLists
  BY <1>4 DEF ScannerLists
<1>5. ASSUME NEW n \in Nodes, ScannerStamps(n) PROVE TypeInv'
  BY <1>5, RowTyped DEF ScannerStamps
<1>6. ASSUME NEW n \in Nodes, ScannerFlips(n) PROVE TypeInv'
  BY <1>6, FlipTyped DEF ScannerFlips
<1> QED
  BY <1>1, <1>2, <1>3, <1>4, <1>5, <1>6 DEF Reaper, Scanner

(* A callback of a node keeps the types.                                                   *)
LEMMA CallbackTyped ==
    ASSUME TypeInv, NEW n \in Nodes, Callback(n)
    PROVE  TypeInv'
<1> USE DEF TypeInv, TypeOK, Unborn, Exists, dbVars, srvVars, calls, histVars
<1>1. CASE RecordDeploySucceeded(n)
  BY <1>1, RowTyped DEF RecordDeploySucceeded, Serve, HandlerStages
<1>2. CASE RecordDeployFailed(n)
  BY <1>2, RowTyped DEF RecordDeployFailed, Serve, HandlerStages
<1>3. CASE RecordVerifyBooted(n)
  <2>1. PICK l \in {node[n].ldap} \cup LdapProbes :
           node' = [node EXCEPT ![n].verified = TRUE, ![n].ldap = l]
    BY <1>3 DEF RecordVerifyBooted
  <2>2. l \in LdapStates
    BY <2>1, ReimageAssumption DEF NodeRow, LdapStates
  <2>3. node' = [node EXCEPT ![n] = [node[n] EXCEPT !.verified = TRUE, !.ldap = l]]
    BY <2>1
  <2> QED
    BY <1>3, <2>2, <2>3, RowTyped DEF RecordVerifyBooted, Serve, HandlerStages
<1>4. CASE ClosesRequests(n)
  <2>1. UNCHANGED req \/ \E s \in Statuses : CloseActive(n, s)
    BY <1>4 DEF ClosesRequests, Statuses, TerminalStatuses
  <2>2. /\ req' \in [ReqIds -> Request \cup {NoReq}]
        /\ \A q \in ReqIds : Exists(q)' <=> Exists(q)
    BY <2>1, CloseTyped
  <2>3. /\ faults' \in 0..MaxFaults
        /\ handler' \in [Nodes -> HandlerStages]
        /\ failing' \subseteq failing
    BY <1>4, ReimageAssumption DEF ClosesRequests, Fault, Serve, HandlerStages
  <2> QED
    BY <1>4, <2>2, <2>3 DEF ClosesRequests
<1>5. CASE FailureReads(n)
  <2>1. handler' \in [Nodes -> HandlerStages]
    BY <1>5 DEF FailureReads, Serve, HandlerStages
  <2>2. \A r \in failing' : r \in failing \/ r \in Active(n)
    BY <1>5 DEF FailureReads, Serve
  <2>3. failing' \subseteq ReqIds /\ \A r \in failing' : Exists(r)
    BY <2>2 DEF Active
  <2> QED
    BY <1>5, <2>1, <2>3 DEF FailureReads
<1>6. CASE FailureUpdates(n)
  <2>1. PICK q \in failing : SetStatus(q, "failed")
    BY <1>6 DEF FailureUpdates
  <2>2. /\ req' \in [ReqIds -> Request \cup {NoReq}]
        /\ \A r \in ReqIds : Exists(r)' <=> Exists(r)
    BY <2>1, StatusTyped DEF Statuses, TerminalStatuses
  <2> QED
    BY <1>6, <2>2 DEF FailureUpdates, Serve, HandlerStages
<1>7. CASE VerifyFlips(n)
  BY <1>7, FlipTyped DEF VerifyFlips, Serve, HandlerStages
<1>8. CASE HandlerAborts(n)
  BY <1>8, ReimageAssumption DEF HandlerAborts, Serve, Fault, HandlerStages
<1> QED
  BY <1>1, <1>2, <1>3, <1>4, <1>5, <1>6, <1>7, <1>8 DEF Callback

(* The machine, the agent and the deployed OS keep the types.                              *)
LEMMA MachineTyped ==
    ASSUME TypeInv, NEW n \in Nodes, Machine(n)
    PROVE  TypeInv'
<1> USE DEF TypeInv, TypeOK, Unborn, Exists, dbVars, srvVars, calls, histVars
<1>0. host[n] \in Host
  OBVIOUS
<1>1. ASSUME NEW place \in HostPlaces, Boots(n, place) PROVE host' \in [Nodes -> Host]
  <2>1. [host[n] EXCEPT !.at = place] \in Host
    BY <1>0 DEF Host
  <2> QED
    BY <1>1, <2>1 DEF Boots
<1>2. CASE BootsFromDisk(n)
  BY <1>1, <1>2 DEF BootsFromDisk, HostPlaces
<1>3. CASE BootsFromPXE(n)
  <2>1. \E place \in HostPlaces : Boots(n, place)
    BY <1>3 DEF BootsFromPXE, HostPlaces
  <2> QED
    BY <1>1, <1>3, <2>1 DEF BootsFromPXE
<1>14. CASE MenuForcesReimage(n)
  BY <1>14, RowTyped DEF MenuForcesReimage, SetPending
<1>4. CASE BootsWithoutToken(n)
  BY <1>1, <1>4, ReimageAssumption DEF BootsWithoutToken, Fault, HostPlaces
<1>5. CASE AgentRegisters(n)
  <2>1. \/ \E place \in {"booting", "stuck", "waiting"} : host' = [host EXCEPT ![n].at = place]
        \/ host' = [host EXCEPT ![n].at = "writing", ![n].img = node[n].image]
    BY <1>5 DEF AgentRegisters
  <2>2. /\ \A place \in HostPlaces : [host[n] EXCEPT !.at = place] \in Host
        /\ [host[n] EXCEPT !.at = "writing", !.img = node[n].image] \in Host
    BY <1>0 DEF Host, HostPlaces, NodeRow
  <2>3. CASE host' = [host EXCEPT ![n].at = "writing", ![n].img = node[n].image]
    <3>1. host' = [host EXCEPT ![n] = [host[n] EXCEPT !.at = "writing", !.img = node[n].image]]
      BY <2>3
    <3> QED
      BY <1>5, <2>2, <3>1 DEF AgentRegisters
  <2>4. ASSUME NEW place \in {"booting", "stuck", "waiting"}, host' = [host EXCEPT ![n].at = place]
        PROVE  TypeInv'
    BY <1>5, <2>2, <2>4 DEF AgentRegisters, HostPlaces
  <2> QED
    BY <2>1, <2>3, <2>4
<1>6. CASE AgentPolls(n)
  <2>1. [host[n] EXCEPT !.at = "writing", !.img = node[n].image] \in Host
    BY <1>0 DEF Host, HostPlaces, NodeRow
  <2>2. host' = [host EXCEPT ![n] = [host[n] EXCEPT !.at = "writing", !.img = node[n].image]]
    BY <1>6 DEF AgentPolls
  <2> QED
    BY <1>6, <2>1, <2>2 DEF AgentPolls
<1>7. CASE AgentWrites(n)
  <2>1. host[n].img \in Images
    BY <1>7 DEF AgentWrites, Host
  <2>2. [host[n] EXCEPT !.at = "written", !.disk = host[n].img, !.img = NoImage] \in Host
    BY <1>0, <2>1 DEF Host, HostPlaces
  <2> QED
    BY <1>7, <2>2 DEF AgentWrites
<1>8. CASE AgentFails(n)
  <2>1. /\ host' \in [Nodes -> Host]
        /\ faults' \in 0..MaxFaults
        /\ handler' \in [Nodes -> HandlerStages]
        /\ failing' \subseteq failing
    <3>1. \A d \in {host[n].disk, Blank} :
             [host[n] EXCEPT !.at = "stuck", !.disk = d, !.img = NoImage] \in Host
      BY <1>0 DEF Host, HostPlaces
    <3>2. PICK d \in {host[n].disk, Blank} :
             host' = [host EXCEPT ![n].at = "stuck", ![n].disk = d, ![n].img = NoImage]
      BY <1>8 DEF AgentFails
    <3>3. host' = [host EXCEPT ![n] = [host[n] EXCEPT !.at = "stuck", !.disk = d, !.img = NoImage]]
      BY <3>2
    <3>4. host' \in [Nodes -> Host]
      BY <3>1, <3>3
    <3>5. /\ faults' \in 0..MaxFaults
          /\ handler' \in [Nodes -> HandlerStages]
          /\ failing' \subseteq failing
      BY <1>8, ReimageAssumption DEF AgentFails, Serve, Fault, HandlerStages
    <3> QED
      BY <3>4, <3>5
  <2> QED
    BY <1>8, <2>1 DEF AgentFails
<1>9. CASE AgentPosts(n)
  <2>1. [host[n] EXCEPT !.at = "posted"] \in Host
    BY <1>0 DEF Host, HostPlaces
  <2> QED
    BY <1>9, <2>1 DEF AgentPosts, Serve, HandlerStages
<1>10. CASE AgentReboots(n)
  <2>1. \A o \in {host[n].order, "disk"} : [Reset(host[n]) EXCEPT !.order = o] \in Host
    <3>1. Reset(host[n]) \in Host
      BY <1>0, HostTyped
    <3> QED
      BY <1>0, <3>1 DEF Host
  <2>2. host' \in [Nodes -> Host] /\ faults' \in 0..MaxFaults
    BY <1>10, <2>1, ReimageAssumption DEF AgentReboots, Fault
  <2> QED
    BY <1>10, <2>2 DEF AgentReboots
<1>11. CASE AgentReposts(n)
  BY <1>11 DEF AgentReposts, Serve, HandlerStages
<1>12. CASE OsPhonesHome(n)
  BY <1>12 DEF OsPhonesHome, Serve, HandlerStages
<1>13. CASE MachineRestarts(n)
  BY <1>0, <1>13, HostTyped, ReimageAssumption DEF MachineRestarts, Fault
<1> QED
  BY <1>2, <1>3, <1>4, <1>5, <1>6, <1>7, <1>8, <1>9, <1>10, <1>11, <1>12, <1>13, <1>14
     DEF Machine

(* A restart of the server forgets what was in memory and keeps the types.                 *)
LEMMA RestartTyped == TypeInv /\ ServerRestarts => TypeInv'
<1> SUFFICES ASSUME TypeInv, ServerRestarts PROVE TypeInv'
  OBVIOUS
<1>1. \A r \in ReqIds : req[r].status = "checked" =>
         [req[r] EXCEPT !.status = "dropped"] \in {x \in Request : x.status = "dropped"}
  BY DEF TypeInv, TypeOK, Request, NoReq, Statuses
<1> QED
  BY <1>1, ReimageAssumption DEF ServerRestarts, Fault, TypeInv, TypeOK, Unborn, Exists, TrigStages,
     HandlerStages

(* Every step keeps the types.                                                             *)
LEMMA NextTyped == TypeInv /\ [Next]_vars => TypeInv'
<1> SUFFICES ASSUME TypeInv, [Next]_vars PROVE TypeInv'
  OBVIOUS
<1>1. CASE UNCHANGED vars
  BY <1>1 DEF vars, TypeInv, TypeOK, Unborn, Exists
<1> QED
  BY <1>1, OperatorTyped, TriggerTyped, SchedulerTyped, WorkersTyped, CallbackTyped, MachineTyped,
     RestartTyped DEF Next

(* The types, and with them that rows in use exist, hold in every state.                   *)
LEMMA TypeInvariant == Spec => []TypeInv
<1>1. Init => TypeInv
  BY InitTyped
<1>2. TypeInv /\ [Next]_vars => TypeInv'
  BY NextTyped
<1> QED
  BY <1>1, <1>2, PTL DEF Spec

(* Every variable keeps its type.                                                          *)
THEOREM TypeCorrect == Spec => []TypeOK
<1>1. TypeInv => TypeOK
  BY DEF TypeInv
<1> QED
  BY <1>1, TypeInvariant, PTL
-----------------------------------------------------------------------------
(* Boot routing.  Only four actions write a column that ServedInv speaks of: Trigger and   *)
(* the boot menu set the flag and want a deploy with it, a failure is one that is wanted,  *)
(* and a recorded deploy sets all its columns in one statement.                            *)
LEMMA ServedInit == Init => ServedInv
BY DEF Init, ServedInv

(* Every step keeps it.                                                                    *)
LEMMA ServedStep == TypeInv /\ ServedInv /\ [Next]_vars => ServedInv'
<1> SUFFICES ASSUME TypeInv, ServedInv, [Next]_vars PROVE ServedInv'
  OBVIOUS
<1> USE DEF ServedInv, dbVars, srvVars, calls, histVars
<1>1. node \in [Nodes -> NodeRow] /\ wanted \in [Nodes -> BOOLEAN]
  BY DEF TypeInv, TypeOK
<1>2. CASE UNCHANGED <<node, wanted>>
  BY <1>2
<1>3. ASSUME NEW n \in Nodes, NEW b \in {FALSE}, SetPending(n, b), UNCHANGED wanted PROVE ServedInv'
  BY <1>1, <1>3 DEF SetPending, NodeRow
<1>4. CASE Operator
  <2>1. ASSUME NEW n \in Nodes, NEW img \in Images \cup {NoImage}, AssignImage(n, img)
        PROVE  ServedInv'
    BY <1>1, <2>1 DEF AssignImage, NodeRow
  <2>2. ASSUME NEW r \in ReqIds, CancelClears(r) PROVE ServedInv'
    <3>1. req[r].node \in Nodes
      BY <2>2 DEF CancelClears, TypeInv, TypeOK, Unborn, Exists, Request, NoReq
    <3> QED
      BY <1>3, <2>2, <3>1 DEF CancelClears
  <2>3. ASSUME NEW n \in Nodes, BulkClears(n) PROVE ServedInv'
    BY <1>3, <2>3 DEF BulkClears
  <2> QED
    BY <1>2, <1>4, <2>1, <2>2, <2>3 DEF Operator, CreateChecks, RetryChecks, InsertRequest,
       CancelReads, CancelUpdates, CancelAborts, BulkReads, BulkUpdates, BulkAborts
<1>5. ASSUME NEW r \in ReqIds, Trigger(r) PROVE ServedInv'
  <2>1. trig[r] # "idle"
    BY <1>5 DEF Trigger, TriggerAssigns, TriggerFlags, TriggerSetsNextBoot, TriggerCycles,
                TriggerMarks, TriggerFails, TriggerGivesUp
  <2>2. NodeOf(r) \in Nodes
    BY <2>1 DEF TypeInv, TypeOK, Unborn, Exists, Request, NoReq, NodeOf
  <2>3. CASE TriggerAssigns(r)
    BY <1>1, <2>2, <2>3 DEF TriggerAssigns, NodeRow
  <2>4. CASE TriggerFlags(r)
    BY <1>1, <2>2, <2>4 DEF TriggerFlags, SetPending, NodeRow
  <2> QED
    BY <1>2, <1>5, <2>3, <2>4 DEF Trigger, TriggerSetsNextBoot, TriggerCycles, PowerCycle,
       TriggerMarks, TriggerFails, TriggerGivesUp
<1>6. CASE Scheduler
  BY <1>2, <1>6 DEF Scheduler, SchedulerTicks, SchedulerTriggers, FallsDue
<1>7. CASE Reaper
  BY <1>2, <1>3, <1>7 DEF Reaper, ReaperLists, ReaperChecks, ReaperClears
<1>8. CASE Scanner
  <2>1. ASSUME NEW n \in Nodes, ScannerStamps(n) PROVE ServedInv'
    BY <1>1, <2>1 DEF ScannerStamps, NodeRow
  <2> QED
    BY <1>2, <1>8, <2>1 DEF Scanner, ScannerLists, ScannerFlips
<1>9. ASSUME NEW n \in Nodes, Callback(n) PROVE ServedInv'
  <2>1. CASE RecordDeploySucceeded(n)
    <3>1. /\ DeploySucceeded(node[n]).pending = FALSE
          /\ DeploySucceeded(node[n]).failed = FALSE
          /\ DeploySucceeded(node[n]).preboot = TRUE
      BY <1>1 DEF DeploySucceeded, NodeRow
    <3> QED
      BY <1>1, <2>1, <3>1 DEF RecordDeploySucceeded
  <2>2. CASE RecordDeployFailed(n)
    BY <1>1, <2>2 DEF RecordDeployFailed, NodeRow
  <2>3. CASE RecordVerifyBooted(n)
    <3>1. PICK l : node' = [node EXCEPT ![n].verified = TRUE, ![n].ldap = l]
      BY <2>3 DEF RecordVerifyBooted
    <3>2. node' = [node EXCEPT ![n] = [node[n] EXCEPT !.verified = TRUE, !.ldap = l]]
      BY <3>1
    <3>3. /\ node'[n].pending = node[n].pending /\ node'[n].failed = node[n].failed
          /\ node'[n].preboot = node[n].preboot
      BY <1>1, <3>2 DEF NodeRow
    <3> QED
      BY <1>1, <2>3, <3>2, <3>3 DEF RecordVerifyBooted
  <2> QED
    BY <1>2, <1>9, <2>1, <2>2, <2>3
       DEF Callback, FailureReads, FailureUpdates, ClosesRequests, VerifyFlips, HandlerAborts
<1>10. ASSUME NEW n \in Nodes, Machine(n) PROVE ServedInv'
  <2>1. CASE MenuForcesReimage(n)
    BY <1>1, <2>1 DEF MenuForcesReimage, SetPending
  <2> QED
    BY <1>2, <1>10, <2>1 DEF Machine, BootsFromDisk, BootsFromPXE, BootsWithoutToken, AgentRegisters,
       AgentPolls, AgentWrites, AgentFails, AgentPosts, AgentReboots, AgentReposts, OsPhonesHome,
       MachineRestarts
<1>11. CASE ServerRestarts
  BY <1>2, <1>11 DEF ServerRestarts
<1>12. CASE UNCHANGED vars
  BY <1>2, <1>12 DEF vars
<1> QED
  BY <1>4, <1>5, <1>6, <1>7, <1>8, <1>9, <1>10, <1>11, <1>12 DEF Next

(* Between a recorded deploy and the next arming, no column that State() reads before the  *)
(* deploy columns is set.                                                                  *)
THEOREM ServedInvariant == Spec => []ServedInv
<1>1. Init => TypeInv /\ ServedInv
  BY InitTyped, ServedInit
<1>2. TypeInv /\ ServedInv /\ [Next]_vars => TypeInv' /\ ServedInv'
  BY NextTyped, ServedStep
<1> QED
  BY <1>1, <1>2, PTL DEF Spec

(* No redeploy loop: after a recorded deploy, and until something arms the node again, a   *)
(* PXE boot is sent to the disk.                                                           *)
THEOREM Serves == Spec => []NoRedeployLoop
<1>1. TypeOK /\ ServedInv => NoRedeployLoop
  <2> SUFFICES ASSUME TypeOK, ServedInv, NEW n \in Nodes, ~wanted[n]
               PROVE  BootScript(node[n]) = "disk"
    BY DEF NoRedeployLoop
  <2>1. State(node[n]) \in DeployedStates
    BY DEF ServedInv, State, DeployedStates
  <2> QED
    BY <2>1 DEF BootScript
<1> QED
  BY <1>1, TypeCorrect, ServedInvariant, PTL
-----------------------------------------------------------------------------
(* Power cycles.  A request is owed a power cycle while its Trigger has not come to the    *)
(* BMC call, or is still to be called.  While it is owed one, every cycle it had so far is *)
(* paid for by a fault; the scheduler calls Trigger for one request of its batch at a time.*)
BeforeCycle == {"resolve", "flag", "nextboot", "cycle"}
Owed(r) ==
    \/ trig[r] \in BeforeCycle
    \/ /\ trig[r] = "idle"
       /\ \/ r \in batch
          \/ req[r].status = "checked"
          \/ req[r].scheduled /\ req[r].status = "pending"
Paid(r) == IF req[r].scheduled THEN faults ELSE 0
Sound(r) ==
    /\ r \in batch => due[r] # 0
    /\ due[r] # 0 => req[r].scheduled
    /\ req[r].scheduled /\ trig[r] # "idle" => ByScheduler(r)
    /\ ~req[r].scheduled /\ req[r].status = "checked" => trig[r] = "idle"
    /\ req[r].scheduled /\ due[r] = 0 => cycled[r] = 0 /\ req[r].status # "triggered"
    /\ cycled[r] <= 1 + Paid(r)
    /\ Owed(r) => cycled[r] <= Paid(r)
CycleInv == \A r \in ReqIds : Exists(r) => Sound(r)

(* Nothing is owed to a request that does not exist.                                       *)
LEMMA CycleInit == Init => CycleInv
BY DEF Init, CycleInv, Exists, NoReq

(* Steps that neither trigger nor create a request: a row may at most be closed.           *)
Closed(r) == /\ req'[r].scheduled = req[r].scheduled
             /\ req'[r].status \in {"complete", "failed", "canceled", "dropped"}

(* Such a step keeps the invariant.                                                        *)
LEMMA CycleFrame ==
    ASSUME TypeInv, CycleInv, TypeInv',
           UNCHANGED <<due, trig, batch, cycled>>, faults' >= faults,
           \A r \in ReqIds : req'[r] = req[r] \/ (Exists(r) /\ Closed(r))
    PROVE  CycleInv'
<1> SUFFICES ASSUME NEW r \in ReqIds, Exists(r)' PROVE Sound(r)'
  BY DEF CycleInv
<1>1. Exists(r)
  BY DEF Exists
<1>2. Sound(r)
  BY <1>1 DEF CycleInv
<1>3. /\ cycled[r] \in Nat /\ faults \in Nat /\ faults' \in Nat
  BY ReimageAssumption DEF TypeInv, TypeOK
<1>4. ByScheduler(r)' <=> ByScheduler(r)
  BY DEF ByScheduler
<1>5. CASE req'[r] = req[r]
  BY <1>2, <1>3, <1>4, <1>5 DEF Sound, Owed, Paid
<1>6. CASE Closed(r)
  BY <1>2, <1>3, <1>4, <1>6 DEF Sound, Owed, Paid, Closed
<1> QED
  BY <1>5, <1>6

(* Operator calls: a new request was never cycled, and only Insert makes a Trigger.        *)
LEMMA CycleOperator == TypeInv /\ CycleInv /\ Operator => CycleInv'
<1> SUFFICES ASSUME TypeInv, CycleInv, Operator PROVE CycleInv'
  OBVIOUS
<1> USE DEF dbVars, srvVars, calls, histVars
<1>1. TypeInv'
  BY OperatorTyped
<1>2. cycled \in [ReqIds -> Nat] /\ faults \in Nat /\ req \in [ReqIds -> Request \cup {NoReq}]
      /\ trig \in [ReqIds -> TrigStages]
  BY ReimageAssumption DEF TypeInv, TypeOK
<1>3. ASSUME UNCHANGED <<req, due, trig, batch, cycled>>, faults' = faults \/ faults' = faults + 1
      PROVE  CycleInv'
  BY <1>1, <1>2, <1>3, CycleFrame
<1>4. ASSUME NEW q \in ReqIds, ~Exists(q), NEW new \in Request, new.status = "checked",
             req' = [req EXCEPT ![q] = new], UNCHANGED <<due, trig, batch, cycled, faults>>
      PROVE  CycleInv'
  <2> SUFFICES ASSUME NEW r \in ReqIds, Exists(r)' PROVE Sound(r)'
    BY DEF CycleInv
  <2>1. ByScheduler(r)' <=> ByScheduler(r)
    BY <1>4 DEF ByScheduler
  <2>2. CASE r = q
    <3>1. req'[r] = new
      BY <1>2, <1>4, <2>2
    <3>2. trig[r] = "idle" /\ r \notin batch /\ due[r] = 0 /\ cycled[r] = 0
      BY <1>4, <2>2 DEF TypeInv, Unborn
    <3> QED
      BY <1>2, <1>4, <3>1, <3>2 DEF Sound, Owed, Paid, BeforeCycle
  <2>3. CASE r # q
    <3>1. req'[r] = req[r]
      BY <1>2, <1>4, <2>3
    <3>2. Sound(r)
      BY <3>1 DEF CycleInv, Exists
    <3> QED
      BY <1>4, <2>1, <3>1, <3>2 DEF Sound, Owed, Paid
  <2> QED
    BY <2>2, <2>3
<1>5. ASSUME NEW n \in Nodes, NEW img \in Images, NEW sched \in BOOLEAN, NEW opts \in OptSets,
             NEW force \in BOOLEAN, CreateChecks(n, img, sched, opts, force)
      PROVE  CycleInv'
  <2> DEFINE new == [node |-> n, image |-> img, scheduled |-> sched, opts |-> opts,
                     status |-> "checked"]
  <2>1. new \in Request /\ new.status = "checked"
    BY <1>5, ReimageAssumption DEF Request, Statuses
  <2>2. PICK q \in ReqIds : IsNext(q) /\ req' = [req EXCEPT ![q] = new]
    BY <1>5 DEF CreateChecks
  <2>3. UNCHANGED <<due, trig, batch, cycled, faults>>
    BY <1>5 DEF CreateChecks
  <2> HIDE DEF new
  <2> QED
    BY <1>4, <2>1, <2>2, <2>3 DEF IsNext
<1>6. ASSUME NEW r \in ReqIds, RetryChecks(r) PROVE CycleInv'
  <2> DEFINE new == [req[r] EXCEPT !.scheduled = FALSE, !.opts = @ \ {"bios"}, !.status = "checked"]
  <2>1. req[r] \in Request
    BY <1>2, <1>6 DEF RetryChecks, NoReq
  <2>2. new \in Request /\ new.status = "checked"
    BY <2>1 DEF Request, Statuses
  <2>3. PICK q \in ReqIds : IsNext(q) /\ req' = [req EXCEPT ![q] = new]
    BY <1>6 DEF RetryChecks
  <2>4. UNCHANGED <<due, trig, batch, cycled, faults>>
    BY <1>6 DEF RetryChecks
  <2> HIDE DEF new
  <2> QED
    BY <1>4, <2>2, <2>3, <2>4 DEF IsNext
<1>7. ASSUME NEW q \in ReqIds, InsertRequest(q) PROVE CycleInv'
  <2> SUFFICES ASSUME NEW r \in ReqIds, Exists(r)' PROVE Sound(r)'
    BY DEF CycleInv
  <2>1. ByScheduler(r)' <=> ByScheduler(r)
    BY <1>7 DEF InsertRequest, ByScheduler
  <2>2. Exists(q) /\ req[q] \in Request
    BY <1>2, <1>7 DEF InsertRequest, Exists, NoReq
  <2>3. CASE r = q
    <3>1. req'[r].scheduled = req[r].scheduled /\ req'[r].status = "pending"
      BY <1>2, <1>7, <2>2, <2>3 DEF InsertRequest, SetStatus, Request
    <3>2. Sound(r)
      BY <2>2, <2>3 DEF CycleInv
    <3>3. trig'[r] = IF req[r].scheduled THEN trig[r] ELSE "resolve"
      BY <1>2, <1>7, <2>3 DEF InsertRequest
    <3>4. UNCHANGED <<due, batch, cycled, faults>>
      BY <1>7 DEF InsertRequest
    <3> QED
      BY <1>7, <2>1, <2>2, <2>3, <3>1, <3>2, <3>3, <3>4 DEF InsertRequest, Sound, Owed, Paid, BeforeCycle
  <2>4. CASE r # q
    <3>1. req'[r] = req[r] /\ trig'[r] = trig[r]
      BY <1>2, <1>7, <2>4 DEF InsertRequest, SetStatus
    <3>2. Sound(r)
      BY <3>1 DEF CycleInv, Exists
    <3> QED
      BY <1>7, <2>1, <3>1, <3>2 DEF InsertRequest, Sound, Owed, Paid
  <2> QED
    BY <2>3, <2>4
<1>8. ASSUME NEW q \in ReqIds, CancelUpdates(q) PROVE CycleInv'
  <2>1. Exists(q) /\ req[q] \in Request
    BY <1>2, <1>8 DEF CancelUpdates, TypeInv, Unborn, Exists, NoReq
  <2>2. \A r \in ReqIds : req'[r] = req[r] \/ (Exists(r) /\ Closed(r))
    BY <1>2, <1>8, <2>1 DEF CancelUpdates, SetStatus, Closed, Request
  <2> QED
    BY <1>1, <1>2, <1>8, <2>2, CycleFrame DEF CancelUpdates
<1>9. CASE BulkUpdates
  <2>1. \A r \in ReqIds : req'[r] = req[r] \/ (Exists(r) /\ Closed(r))
    BY <1>2, <1>9 DEF BulkUpdates, Closed, Request, NoReq, Exists, ActiveStatuses
  <2> QED
    BY <1>1, <1>2, <1>9, <2>1, CycleFrame DEF BulkUpdates
<1> QED
  BY <1>3, <1>5, <1>6, <1>7, <1>8, <1>9 DEF Operator, AssignImage, CancelReads, CancelClears,
     CancelAborts, BulkReads, BulkClears, BulkAborts, Fault

(* Trigger: the cycle that was owed is issued once, and a call that is given up is paid    *)
(* for by a fault.                                                                         *)
LEMMA CycleTrigger ==
    ASSUME TypeInv, CycleInv, NEW q \in ReqIds, Trigger(q)
    PROVE  CycleInv'
<1> USE DEF dbVars, srvVars, calls, histVars
<1>1. TypeInv'
  BY TriggerTyped
<1>2. cycled \in [ReqIds -> Nat] /\ faults \in Nat /\ req \in [ReqIds -> Request \cup {NoReq}]
      /\ trig \in [ReqIds -> TrigStages] /\ batch \subseteq ReqIds
  BY ReimageAssumption DEF TypeInv, TypeOK
<1>3. trig[q] # "idle"
  BY DEF Trigger, TriggerAssigns, TriggerFlags, TriggerSetsNextBoot, TriggerCycles,
         TriggerMarks, TriggerFails, TriggerGivesUp
<1>4. Exists(q) /\ req[q] \in Request /\ Sound(q)
  BY <1>2, <1>3 DEF TypeInv, Unborn, CycleInv, Exists, NoReq
<1>5. \/ req' = req
      \/ \E s \in {"triggered", "failed"} : SetStatus(q, s)
  BY DEF Trigger, TriggerAssigns, TriggerFlags, TriggerSetsNextBoot, TriggerCycles,
         TriggerMarks, TriggerFails, TriggerGivesUp
<1>6. /\ UNCHANGED due
      /\ \/ batch' = batch
         \/ batch' = IF ByScheduler(q) THEN batch \ {q} ELSE batch
      /\ faults' = faults \/ faults' = faults + 1
      /\ \A r \in ReqIds : r # q => trig'[r] = trig[r] /\ cycled'[r] = cycled[r]
  BY <1>2 DEF Trigger, TriggerAssigns, TriggerFlags, TriggerSetsNextBoot, TriggerCycles,
         TriggerMarks, TriggerFails, TriggerGivesUp, GoOn, Return, PowerCycle, Fault
<1>7. ASSUME NEW r \in ReqIds, r # q, Exists(r)' PROVE Sound(r)'
  <2>1. req'[r] = req[r]
    BY <1>2, <1>5, <1>7 DEF SetStatus
  <2>2. Sound(r)
    BY <1>7, <2>1 DEF CycleInv, Exists
  <2>3. (r \in batch' <=> r \in batch) /\ batch' \subseteq batch
    BY <1>6, <1>7
  <2>4. ByScheduler(r) => ByScheduler(r)'
    BY <1>6, <2>3 DEF ByScheduler
  <2> QED
    BY <1>2, <1>6, <1>7, <2>1, <2>2, <2>3, <2>4 DEF Sound, Owed, Paid
<1> SUFFICES Sound(q)'
  BY <1>7 DEF CycleInv
<1>8. ASSUME GoOn(q, "flag") \/ GoOn(q, "nextboot") \/ GoOn(q, "cycle"),
             trig[q] \in BeforeCycle, UNCHANGED <<req, cycled, faults>>
      PROVE  Sound(q)'
  <2>1. trig'[q] \in BeforeCycle /\ trig'[q] # "idle" /\ UNCHANGED batch
    BY <1>2, <1>8 DEF GoOn, BeforeCycle
  <2>2. ByScheduler(q)' <=> ByScheduler(q)
    BY <1>6, <2>1 DEF ByScheduler
  <2> QED
    BY <1>3, <1>4, <1>6, <1>8, <2>1, <2>2 DEF Sound, Owed, Paid
<1>9. ASSUME GoOn(q, "mark"), trig[q] \in BeforeCycle, UNCHANGED <<req, faults>>,
             cycled'[q] \in {cycled[q], cycled[q] + 1}
      PROVE  Sound(q)'
  <2>1. trig'[q] = "mark" /\ UNCHANGED batch
    BY <1>2, <1>9 DEF GoOn
  <2>2. ByScheduler(q)' <=> ByScheduler(q)
    BY <1>6, <2>1 DEF ByScheduler
  <2>3. due[q] # 0 \/ ~req[q].scheduled
    BY <1>3, <1>4 DEF Sound, ByScheduler
  <2>4. cycled[q] <= Paid(q) /\ Paid(q) \in Nat /\ cycled[q] \in Nat
    BY <1>2, <1>4, <1>9 DEF Sound, Owed, Paid
  <2>5. cycled'[q] <= 1 + Paid(q)
    BY <1>9, <2>4
  <2>6. ~(Owed(q)') /\ Paid(q)' = Paid(q)
    BY <1>9, <2>1 DEF Owed, Paid, BeforeCycle
  <2>7. ~req[q].scheduled /\ req[q].status = "checked" => FALSE
    BY <1>3, <1>4 DEF Sound
  <2> QED
    BY <1>3, <1>4, <1>6, <1>9, <2>1, <2>2, <2>3, <2>5, <2>6, <2>7 DEF Sound
<1>10. ASSUME Return(q) PROVE trig'[q] = "idle" /\ q \notin batch'
  <2>1. trig'[q] = "idle"
    BY <1>2, <1>10 DEF Return
  <2>2. q \in batch => ByScheduler(q)
    BY <1>3, <1>4 DEF Sound
  <2> QED
    BY <1>10, <2>1, <2>2 DEF Return
<1>11. ASSUME Return(q), NEW s \in {"triggered", "failed"}, SetStatus(q, s),
              cycled'[q] <= 1 + Paid(q), faults' = faults
       PROVE  Sound(q)'
  <2>1. req'[q].scheduled = req[q].scheduled /\ req'[q].status = s
    BY <1>2, <1>4, <1>11 DEF SetStatus, Request
  <2>2. due[q] # 0 \/ ~req[q].scheduled
    BY <1>3, <1>4 DEF Sound, ByScheduler
  <2> QED
    BY <1>4, <1>6, <1>10, <1>11, <2>1, <2>2 DEF Sound, Owed, Paid, BeforeCycle
<1>12. CASE TriggerAssigns(q)
  BY <1>8, <1>12 DEF TriggerAssigns, BeforeCycle
<1>13. CASE TriggerFlags(q)
  <2>1. CASE "dry" \in req[q].opts
    BY <1>9, <1>13, <2>1 DEF TriggerFlags, BeforeCycle
  <2>2. CASE "dry" \notin req[q].opts
    BY <1>8, <1>13, <2>2 DEF TriggerFlags, BeforeCycle
  <2> QED
    BY <2>1, <2>2
<1>14. CASE TriggerSetsNextBoot(q)
  BY <1>8, <1>14 DEF TriggerSetsNextBoot, BeforeCycle
<1>15. CASE TriggerCycles(q)
  BY <1>2, <1>9, <1>15 DEF TriggerCycles, PowerCycle, BeforeCycle
<1>16. CASE TriggerMarks(q)
  BY <1>4, <1>11, <1>16 DEF TriggerMarks, Sound
<1>17. CASE TriggerFails(q)
  <2>1. cycled[q] <= Paid(q) /\ Paid(q) \in Nat /\ cycled[q] \in Nat
    BY <1>2, <1>4, <1>17 DEF TriggerFails, Sound, Owed, Paid, BeforeCycle
  <2>2. cycled'[q] \in {cycled[q], cycled[q] + 1}
    BY <1>2, <1>17 DEF TriggerFails, PowerCycle
  <2>3. cycled'[q] <= 1 + Paid(q)
    BY <2>1, <2>2
  <2> QED
    BY <1>11, <1>17, <2>3 DEF TriggerFails
<1>18. CASE TriggerGivesUp(q)
  <2>1. /\ Return(q) /\ UNCHANGED <<req, cycled>> /\ faults' = faults + 1
    BY <1>18 DEF TriggerGivesUp, Fault
  <2>2. due[q] # 0 \/ ~req[q].scheduled
    BY <1>3, <1>4 DEF Sound, ByScheduler
  <2>3. ~req[q].scheduled => req[q].status # "checked"
    BY <1>3, <1>4 DEF Sound
  <2> QED
    BY <1>2, <1>4, <1>6, <1>10, <2>1, <2>2, <2>3 DEF Sound, Owed, Paid, BeforeCycle
<1> QED
  BY <1>12, <1>13, <1>14, <1>15, <1>16, <1>17, <1>18 DEF Trigger

(* The scheduler takes a batch only when the one before it is done.                        *)
LEMMA CycleScheduler == TypeInv /\ CycleInv /\ Scheduler => CycleInv'
<1> SUFFICES ASSUME TypeInv, CycleInv, Scheduler, NEW r \in ReqIds, Exists(r)' PROVE Sound(r)'
  BY DEF CycleInv
<1> USE DEF dbVars, srvVars, calls, histVars
<1>1. cycled[r] \in Nat /\ faults \in Nat /\ due \in [ReqIds -> Nat] /\ trig \in [ReqIds -> TrigStages]
      /\ batch \subseteq ReqIds
  BY ReimageAssumption DEF TypeInv, TypeOK
<1>2. UNCHANGED <<req, cycled, faults>>
  BY DEF Scheduler, SchedulerTicks, SchedulerTriggers, FallsDue
<1>3. Sound(r)
  BY <1>2 DEF CycleInv, Exists
<1>4. CASE SchedulerTicks
  <2>1. batch = {} /\ UNCHANGED <<due, trig>> /\ batch' \subseteq PendingDue
    BY <1>4 DEF SchedulerTicks
  <2>2. req[r].scheduled => trig[r] = "idle"
    BY <1>3, <2>1 DEF Sound, ByScheduler
  <2>3. r \in batch' => due[r] # 0 /\ req[r].status = "pending"
    BY <2>1 DEF PendingDue
  <2> QED
    BY <1>2, <1>3, <2>1, <2>2, <2>3 DEF Sound, Owed, Paid
<1>5. CASE SchedulerTriggers
  <2>1. PICK q \in ReqIds : ByScheduler(q) /\ trig[q] = "idle" /\ trig' = [trig EXCEPT ![q] = "resolve"]
    BY <1>5 DEF SchedulerTriggers
  <2>2. UNCHANGED <<due, batch>>
    BY <1>5 DEF SchedulerTriggers
  <2>3. ByScheduler(r)' <=> ByScheduler(r)
    BY <2>2 DEF ByScheduler
  <2>4. CASE r = q
    BY <1>1, <1>2, <1>3, <2>1, <2>2, <2>3, <2>4 DEF Sound, Owed, Paid, BeforeCycle, ByScheduler
  <2>5. CASE r # q
    BY <1>1, <1>2, <1>3, <2>1, <2>2, <2>3, <2>5 DEF Sound, Owed, Paid
  <2> QED
    BY <2>4, <2>5
<1>6. ASSUME NEW q \in ReqIds, FallsDue(q) PROVE Sound(r)'
  <2>1. req[q].scheduled /\ due[q] = 0 /\ UNCHANGED <<batch, trig>>
    BY <1>6 DEF FallsDue
  <2>2. Cardinality({x \in ReqIds : due[x] # 0}) \in Nat
    <3>1. IsFiniteSet(ReqIds)
      BY ReimageAssumption, FS_Interval DEF ReqIds
    <3> QED
      BY <3>1, FS_Subset, FS_CardinalityType
  <2>3. due'[q] # 0 /\ \A x \in ReqIds : x # q => due'[x] = due[x]
    BY <1>1, <1>6, <2>2 DEF FallsDue
  <2>4. Exists(q)
    BY <1>6 DEF FallsDue, Exists
  <2>5. q \notin batch
    BY <2>1, <2>4 DEF CycleInv, Sound
  <2>6. ByScheduler(r) => ByScheduler(r)'
    BY <1>1, <2>1, <2>3, <2>5 DEF ByScheduler
  <2> QED
    BY <1>2, <1>3, <2>1, <2>3, <2>5, <2>6 DEF Sound, Owed, Paid
<1> QED
  BY <1>4, <1>5, <1>6 DEF Scheduler

(* The workers, the callbacks, the machines and a restart only close requests.             *)
LEMMA CycleOthers ==
    ASSUME TypeInv, CycleInv, TypeInv',
           \/ Reaper \/ Scanner
           \/ \E n \in Nodes : Callback(n) \/ Machine(n)
    PROVE  CycleInv'
<1> USE DEF dbVars, srvVars, calls, histVars
<1>1. faults \in Nat
  BY ReimageAssumption DEF TypeInv, TypeOK
<1>2. ASSUME UNCHANGED <<req, due, trig, batch, cycled>>, faults' = faults \/ faults' = faults + 1
      PROVE  CycleInv'
  BY <1>1, <1>2, CycleFrame
<1>3. CASE Reaper \/ Scanner
  BY <1>2, <1>3 DEF Reaper, ReaperLists, ReaperChecks, ReaperClears, Scanner, ScannerLists, ScannerStamps, ScannerFlips
<1>4. ASSUME NEW n \in Nodes, Callback(n) PROVE CycleInv'
  <2>1. CASE ClosesRequests(n)
    <3>1. faults' = faults \/ faults' = faults + 1
      BY <2>1 DEF ClosesRequests, Fault
    <3>2. CASE UNCHANGED req
      BY <1>2, <2>1, <3>1, <3>2 DEF ClosesRequests
    <3>3. ASSUME NEW s \in {"complete", "failed"}, CloseActive(n, s) PROVE CycleInv'
      <4>1. ASSUME NEW r \in ReqIds, r \in Active(n) PROVE req[r] \in Request /\ Exists(r)
        BY <4>1 DEF Active, TypeInv, TypeOK, Exists, NoReq
      <4>2. \A r \in ReqIds : req'[r] = req[r] \/ (Exists(r) /\ Closed(r))
        BY <3>3, <4>1 DEF CloseActive, Closed, Request
      <4> QED
        BY <1>1, <2>1, <3>1, <4>2, CycleFrame DEF ClosesRequests
    <3> QED
      BY <2>1, <3>2, <3>3 DEF ClosesRequests
  <2>3. CASE FailureUpdates(n)
    <3>1. PICK q \in failing : SetStatus(q, "failed")
      BY <2>3 DEF FailureUpdates
    <3>2. q \in ReqIds /\ Exists(q) /\ req[q] \in Request
      BY <3>1 DEF TypeInv, TypeOK, Unborn, Exists, NoReq
    <3>3. \A r \in ReqIds : req'[r] = req[r] \/ (Exists(r) /\ Closed(r))
      BY <3>1, <3>2 DEF SetStatus, Closed, Request, TypeInv, TypeOK
    <3> QED
      BY <1>1, <2>3, <3>3, CycleFrame DEF FailureUpdates
  <2>2. CASE RecordDeploySucceeded(n) \/ RecordDeployFailed(n) \/ RecordVerifyBooted(n)
             \/ FailureReads(n) \/ VerifyFlips(n) \/ HandlerAborts(n)
    BY <1>2, <2>2 DEF RecordDeploySucceeded, RecordDeployFailed, RecordVerifyBooted, FailureReads,
       VerifyFlips, HandlerAborts, Fault
  <2> QED
    BY <1>4, <2>1, <2>2, <2>3 DEF Callback
<1>5. ASSUME NEW n \in Nodes, Machine(n) PROVE CycleInv'
  BY <1>2, <1>5 DEF Machine, BootsFromDisk, BootsFromPXE, MenuForcesReimage, BootsWithoutToken, AgentRegisters,
     AgentPolls, AgentWrites, AgentFails, AgentPosts, AgentReboots, AgentReposts, OsPhonesHome, MachineRestarts, Fault
<1> QED
  BY <1>3, <1>4, <1>5

(* A restart: whatever was still to be cycled is paid for by this fault.                   *)
LEMMA CycleRestart == TypeInv /\ CycleInv /\ ServerRestarts => CycleInv'
<1> SUFFICES ASSUME TypeInv, CycleInv, ServerRestarts, NEW r \in ReqIds, Exists(r)' PROVE Sound(r)'
  BY DEF CycleInv
<1>1. cycled[r] \in Nat /\ faults \in Nat /\ req[r] \in Request \cup {NoReq}
  BY ReimageAssumption DEF TypeInv, TypeOK
<1>2. /\ trig'[r] = "idle" /\ batch' = {} /\ UNCHANGED <<due, cycled>> /\ faults' = faults + 1
      /\ req'[r] = IF Exists(r) /\ req[r].status = "checked"
                   THEN [req[r] EXCEPT !.status = "dropped"] ELSE req[r]
  BY DEF ServerRestarts, Fault
<1>3. Exists(r)
  BY <1>2 DEF Exists
<1>4. Sound(r) /\ req[r] \in Request
  BY <1>1, <1>3 DEF CycleInv, Exists, NoReq
<1>5. /\ req'[r].scheduled = req[r].scheduled
      /\ req'[r].status # "checked"
      /\ req'[r].status = req[r].status \/ req'[r].status = "dropped"
  BY <1>2, <1>3, <1>4 DEF Request
<1> QED
  BY <1>1, <1>2, <1>4, <1>5 DEF Sound, Owed, Paid, BeforeCycle

(* The invariant behind the two theorems on power cycles.                                  *)
LEMMA CycleInvariant == Spec => [](TypeInv /\ CycleInv)
<1>1. Init => TypeInv /\ CycleInv
  BY InitTyped, CycleInit
<1>2. ASSUME TypeInv, CycleInv, [Next]_vars PROVE TypeInv' /\ CycleInv'
  <2>1. TypeInv'
    BY <1>2, NextTyped
  <2>2. CASE UNCHANGED vars
    <3>1. faults \in Nat
      BY <1>2, ReimageAssumption DEF TypeInv, TypeOK
    <3> QED
      BY <1>2, <2>1, <2>2, <3>1, CycleFrame DEF vars
  <2> QED
    BY <1>2, <2>1, <2>2, CycleOperator, CycleTrigger, CycleScheduler, CycleOthers, CycleRestart DEF Next
<1> QED
  BY <1>1, <1>2, PTL DEF Spec

(* Trigger issues one power cycle for a request, and the scheduler at most one more per    *)
(* fault, however its calls interleave with the operators', the agents' and the restarts.  *)
THEOREM CyclesBounded == Spec => []PowerCyclesBounded
<1>1. TypeInv /\ CycleInv => PowerCyclesBounded
  <2> SUFFICES ASSUME TypeInv, CycleInv, NEW r \in ReqIds
               PROVE  cycled[r] <= IF Exists(r) /\ req[r].scheduled THEN 1 + faults ELSE 1
    BY DEF PowerCyclesBounded
  <2>1. cycled[r] \in Nat /\ faults \in Nat
    BY ReimageAssumption DEF TypeInv, TypeOK
  <2>2. CASE Exists(r)
    BY <2>1, <2>2 DEF CycleInv, Sound, Paid
  <2>3. CASE ~Exists(r)
    BY <2>3 DEF TypeInv, Unborn
  <2> QED
    BY <2>2, <2>3
<1> QED
  BY <1>1, CycleInvariant, PTL

(* The scheduler touches no machine and marks no request before its time.                  *)
THEOREM NotEarly == Spec => []NeverEarly
<1>1. TypeInv /\ CycleInv => NeverEarly
  BY DEF NeverEarly, CycleInv, Sound
<1> QED
  BY <1>1, CycleInvariant, PTL
-----------------------------------------------------------------------------
(* A closed request that no call works on.                                                 *)
Over(r) == Exists(r) /\ req[r].status \in TerminalStatuses /\ Quiet(r)

(* A write of another request's status leaves it alone, and so does closing the active ones.*)
LEMMA WritesElsewhere ==
    ASSUME TypeInv, NEW r \in ReqIds, Over(r)
    PROVE  /\ \A q \in ReqIds, s \in Statuses : q # r /\ SetStatus(q, s) => req'[r] = req[r]
           /\ \A n \in Nodes, s \in Statuses : CloseActive(n, s) => req'[r] = req[r]
<1>1. ASSUME NEW q \in ReqIds, NEW s \in Statuses, q # r, SetStatus(q, s) PROVE req'[r] = req[r]
  BY <1>1 DEF SetStatus, TypeInv, TypeOK
<1>2. ASSUME NEW n \in Nodes, NEW s \in Statuses, CloseActive(n, s) PROVE req'[r] = req[r]
  <2>1. r \notin Active(n)
    BY DEF Over, Active, ActiveStatuses, TerminalStatuses
  <2> QED
    BY <1>2, <2>1 DEF CloseActive
<1> QED
  BY <1>1, <1>2

(* No step touches the row of a request that is over.                                      *)
LEMMA OverStep ==
    ASSUME TypeInv, [Next]_vars, NEW r \in ReqIds, Over(r)
    PROVE  req'[r] = req[r]
<1> USE DEF dbVars, srvVars, calls, histVars
<1>1. CASE Operator
  <2>1. ASSUME NEW q \in ReqIds, IsNext(q), NEW x, req' = [req EXCEPT ![q] = x] PROVE req'[r] = req[r]
    <3>1. q # r
      BY <2>1 DEF IsNext, Over
    <3> QED
      BY <2>1, <3>1 DEF TypeInv, TypeOK
  <2>2. ASSUME NEW q \in ReqIds, InsertRequest(q) \/ CancelUpdates(q) PROVE req'[r] = req[r]
    <3>1. q # r
      BY <2>2 DEF InsertRequest, CancelUpdates, Over, Quiet, TerminalStatuses
    <3>2. \E s \in Statuses : SetStatus(q, s)
      BY <2>2 DEF InsertRequest, CancelUpdates, Statuses, ActiveStatuses, TerminalStatuses
    <3> QED
      BY <3>1, <3>2, WritesElsewhere
  <2>3. CASE BulkUpdates
    BY <2>3 DEF BulkUpdates, Over, ActiveStatuses, TerminalStatuses
  <2>4. ASSUME NEW n \in Nodes, NEW img \in Images, NEW sched \in BOOLEAN, NEW opts \in OptSets,
               NEW force \in BOOLEAN, CreateChecks(n, img, sched, opts, force)
        PROVE  req'[r] = req[r]
    BY <2>1, <2>4 DEF CreateChecks
  <2>5. ASSUME NEW q \in ReqIds, RetryChecks(q) PROVE req'[r] = req[r]
    BY <2>1, <2>5 DEF RetryChecks
  <2> QED
    BY <1>1, <2>2, <2>3, <2>4, <2>5
       DEF Operator, AssignImage, CancelReads, CancelClears, CancelAborts, BulkReads, BulkAborts, BulkClears
<1>2. ASSUME NEW q \in ReqIds, Trigger(q) PROVE req'[r] = req[r]
  <2>1. q # r
    BY <1>2 DEF Over, Quiet, Trigger, TriggerAssigns, TriggerFlags, TriggerSetsNextBoot, TriggerCycles,
                TriggerMarks, TriggerFails, TriggerGivesUp
  <2>2. UNCHANGED req \/ \E s \in Statuses : SetStatus(q, s)
    BY <1>2 DEF Trigger, TriggerAssigns, TriggerFlags, TriggerSetsNextBoot, TriggerCycles, TriggerMarks,
                TriggerFails, TriggerGivesUp, Statuses, ActiveStatuses, TerminalStatuses
  <2> QED
    BY <2>1, <2>2, WritesElsewhere
<1>3. CASE Scheduler \/ Reaper \/ Scanner
  BY <1>3 DEF Scheduler, SchedulerTicks, SchedulerTriggers, FallsDue, Reaper, ReaperLists, ReaperChecks,
              ReaperClears, Scanner, ScannerLists, ScannerStamps, ScannerFlips
<1>4. ASSUME NEW n \in Nodes, Callback(n) PROVE req'[r] = req[r]
  <2>1. CASE FailureUpdates(n)
    <3>1. PICK q \in failing : SetStatus(q, "failed")
      BY <2>1 DEF FailureUpdates
    <3>2. q \in ReqIds /\ q # r
      BY <3>1 DEF Over, Quiet, TypeInv, TypeOK
    <3> QED
      BY <3>1, <3>2, WritesElsewhere DEF Statuses, TerminalStatuses
  <2>2. CASE ~FailureUpdates(n)
    <3>1. UNCHANGED req \/ \E s \in Statuses : CloseActive(n, s)
      BY <1>4, <2>2 DEF Callback, RecordDeploySucceeded, RecordDeployFailed, RecordVerifyBooted,
         FailureReads, ClosesRequests, VerifyFlips, HandlerAborts, Statuses, TerminalStatuses
    <3> QED
      BY <3>1, WritesElsewhere
  <2> QED
    BY <2>1, <2>2
<1>5. ASSUME NEW n \in Nodes, Machine(n) PROVE req'[r] = req[r]
  BY <1>5 DEF Machine, BootsFromDisk, BootsFromPXE, MenuForcesReimage, BootsWithoutToken, AgentRegisters,
              AgentPolls, AgentWrites, AgentFails, AgentPosts, AgentReboots, AgentReposts, OsPhonesHome, MachineRestarts
<1>6. CASE ServerRestarts
  BY <1>6 DEF ServerRestarts, Over, TerminalStatuses
<1>7. CASE UNCHANGED vars
  BY <1>7 DEF vars
<1> QED
  BY <1>1, <1>2, <1>3, <1>4, <1>5, <1>6, <1>7 DEF Next

(* A terminal status is final once no call is left that works on the request.              *)
THEOREM TerminalIsFinal == Spec => TerminalStays
<1>1. TypeInv /\ [Next]_vars =>
         [\A r \in ReqIds : Exists(r) /\ req[r].status \in TerminalStatuses /\ Quiet(r) =>
                                req'[r] = req[r]]_vars
  BY OverStep DEF Over
<1> QED
  BY <1>1, TypeInvariant, PTL DEF Spec, TerminalStays
-----------------------------------------------------------------------------
(* A machine touches no request and no call about one; it makes a callback when none of    *)
(* its own is open.                                                                        *)
LEMMA MachineFrame ==
    ASSUME NEW n \in Nodes, Machine(n)
    PROVE  /\ UNCHANGED <<req, due, trig, batch, cancel, cycled, rivals>>
           /\ \/ UNCHANGED <<handler, failing>>
              \/ handler[n] = "idle" /\ \E s \in HandlerStages : Serve(n, s)
<1> USE DEF dbVars, srvVars, calls, histVars
<1>1. CASE BootsFromDisk(n) \/ BootsFromPXE(n) \/ MenuForcesReimage(n) \/ BootsWithoutToken(n)
  BY <1>1 DEF BootsFromDisk, BootsFromPXE, MenuForcesReimage, BootsWithoutToken
<1>2. CASE AgentRegisters(n) \/ AgentPolls(n) \/ AgentWrites(n)
  BY <1>2 DEF AgentRegisters, AgentPolls, AgentWrites
<1>3. CASE AgentFails(n) \/ AgentPosts(n) \/ AgentReposts(n) \/ OsPhonesHome(n)
  BY <1>3 DEF AgentFails, AgentPosts, AgentReposts, OsPhonesHome, HandlerStages
<1>4. CASE AgentReboots(n) \/ MachineRestarts(n)
  BY <1>4 DEF AgentReboots, MachineRestarts
<1> QED
  BY <1>1, <1>2, <1>3, <1>4 DEF Machine
-----------------------------------------------------------------------------
(* At most one active request, but for rivals.  A request is live while it is active or    *)
(* may become so again: a handler is inserting it, Trigger or the scheduler holds it.  Of  *)
(* two live requests of a node the later one was let in beside the earlier one, because    *)
(* nothing but the two acceptances makes a request live.                                   *)
Live(r) == /\ Exists(r)
           /\ req[r].status \in {"checked"} \cup ActiveStatuses \/ trig[r] # "idle" \/ r \in batch
InOrder == \A r, q \in ReqIds : q < r /\ Exists(r) => Exists(q)
LetIn   == \A r, q \in ReqIds : q < r /\ Live(q) /\ Live(r) /\ NodeOf(q) = NodeOf(r)
                                   => q \in rivals[r]
RivalInv == InOrder /\ LetIn

(* At first there is no request.                                                           *)
LEMMA RivalInit == Init => RivalInv
BY DEF Init, RivalInv, InOrder, LetIn, Live, Exists, NoReq

(* A step that makes no request and brings none back to life.                              *)
Same(r) == req'[r] = req[r] \/ (Exists(r) /\ Exists(r)' /\ NodeOf(r)' = NodeOf(r))
LEMMA RivalFrame ==
    ASSUME RivalInv, UNCHANGED rivals,
           \A r \in ReqIds : Same(r),
           \A r \in ReqIds : Live(r)' => Live(r)
    PROVE  RivalInv'
<1>1. \A r \in ReqIds : /\ Exists(r)' <=> Exists(r)
                        /\ NodeOf(r)' = NodeOf(r)
  BY DEF Same, Exists, NodeOf
<1>2. InOrder'
  BY <1>1 DEF RivalInv, InOrder
<1>3. LetIn'
  BY <1>1 DEF RivalInv, LetIn
<1> QED
  BY <1>2, <1>3 DEF RivalInv

(* A step that leaves the rows alone, and whom Trigger and the scheduler hold.             *)
LEMMA RivalUntouched ==
    ASSUME RivalInv, UNCHANGED <<req, trig, batch, rivals>>
    PROVE  RivalInv'
BY RivalFrame DEF Same, Live, Exists

(* A step that writes the status of live rows, or ends some, and starts no Trigger.        *)
LEMMA RivalWrites ==
    ASSUME TypeInv, RivalInv, UNCHANGED rivals, batch' \subseteq batch,
           \A r \in ReqIds : trig'[r] = trig[r] \/ trig'[r] = "idle",
           NEW R \in SUBSET ReqIds, NEW s \in Statuses,
           \A r \in R : Exists(r) /\ (Live(r) \/ s \in TerminalStatuses \cup {"dropped"}),
           req' = [r \in ReqIds |-> IF r \in R THEN [req[r] EXCEPT !.status = s] ELSE req[r]]
    PROVE  RivalInv'
<1>1. \A r \in R : req[r] \in Request
  BY DEF TypeInv, TypeOK, Exists, NoReq
<1>2. \A r \in R : req'[r].status = s /\ req'[r].node = req[r].node
  BY <1>1 DEF Request
<1>3. \A r \in ReqIds : r \notin R => req'[r] = req[r]
  OBVIOUS
<1>4. s # "none"
  BY DEF Statuses, ActiveStatuses, TerminalStatuses
<1>5. \A r \in ReqIds : Same(r)
  BY <1>2, <1>3, <1>4 DEF Same, Exists, NodeOf
<1>6. ASSUME NEW r \in ReqIds, Live(r)' PROVE Live(r)
  <2>1. CASE r \in R
    BY <1>2, <1>6, <2>1 DEF Live, TerminalStatuses, ActiveStatuses
  <2>2. CASE r \notin R
    BY <1>3, <1>6, <2>2 DEF Live, Exists
  <2> QED
    BY <2>1, <2>2
<1> QED
  BY <1>5, <1>6, RivalFrame

(* The same for one row.                                                                   *)
LEMMA RivalWritesOne ==
    ASSUME TypeInv, RivalInv, UNCHANGED rivals, batch' \subseteq batch,
           \A r \in ReqIds : trig'[r] = trig[r] \/ trig'[r] = "idle",
           NEW q \in ReqIds, NEW s \in Statuses, SetStatus(q, s),
           Exists(q), Live(q) \/ s \in TerminalStatuses
    PROVE  RivalInv'
<1>1. req' = [r \in ReqIds |-> IF r \in {q} THEN [req[r] EXCEPT !.status = s] ELSE req[r]]
  BY DEF SetStatus, TypeInv, TypeOK
<1>2. /\ {q} \in SUBSET ReqIds
      /\ \A r \in {q} : Exists(r) /\ (Live(r) \/ s \in TerminalStatuses \cup {"dropped"})
  OBVIOUS
<1> QED
  BY <1>1, <1>2, RivalWrites

(* An acceptance: the new request is the last, and its rivals are the live ones of its     *)
(* node, since without force there is no active one.                                       *)
LEMMA RivalAccepts ==
    ASSUME TypeInv, RivalInv, NEW q \in ReqIds, IsNext(q), NEW n \in Nodes,
           NEW new \in Request, new.node = n,
           NEW A \in SUBSET ReqIds, Active(n) \subseteq A,
           req' = [req EXCEPT ![q] = new], rivals' = [rivals EXCEPT ![q] = Underway(n) \cup A],
           new.status = "checked", UNCHANGED <<trig, batch>>
    PROVE  RivalInv'
<1>1. /\ req'[q] = new /\ \A r \in ReqIds : r # q => req'[r] = req[r]
      /\ rivals'[q] = Underway(n) \cup A /\ \A r \in ReqIds : r # q => rivals'[r] = rivals[r]
  BY DEF TypeInv, TypeOK
<1>2. ~Exists(q) /\ \A r \in ReqIds : r < q => Exists(r)
  BY DEF IsNext
<1>3. \A r \in ReqIds : q < r => ~Exists(r)
  BY <1>2 DEF RivalInv, InOrder
<1>4. \A r \in ReqIds : r # q => /\ Exists(r)' <=> Exists(r)
                                 /\ Live(r)' <=> Live(r)
                                 /\ NodeOf(r)' = NodeOf(r)
  BY <1>1 DEF Exists, Live, NodeOf
<1>5. Exists(q)' /\ NodeOf(q)' = n
  BY <1>1 DEF Exists, NodeOf
<1>6. InOrder'
  <2> SUFFICES ASSUME NEW r \in ReqIds, NEW p \in ReqIds, p < r, Exists(r)' PROVE Exists(p)'
    BY DEF InOrder
  <2>1. CASE r = q
    BY <1>2, <1>4, <2>1 DEF ReqIds
  <2>2. CASE r # q
    <3>1. Exists(r)
      BY <1>4, <2>2
    <3>2. p # q
      BY <1>3, <3>1
    <3>3. Exists(p)
      BY <3>1 DEF RivalInv, InOrder
    <3> QED
      BY <1>4, <3>2, <3>3
  <2> QED
    BY <2>1, <2>2
<1>7. ASSUME NEW p \in ReqIds, p # q, Live(p), NodeOf(p) = n PROVE p \in Underway(n) \cup A
  BY <1>7 DEF Live, Underway, Active, NodeOf
<1>8. LetIn'
  <2> SUFFICES ASSUME NEW r \in ReqIds, NEW p \in ReqIds, p < r,
                      Live(p)', Live(r)', NodeOf(p)' = NodeOf(r)'
               PROVE  p \in rivals'[r]
    BY DEF LetIn
  <2>1. CASE r = q
    BY <1>1, <1>4, <1>5, <1>7, <2>1 DEF ReqIds
  <2>2. CASE r # q
    <3>1. p # q
      BY <1>3, <1>4, <2>2 DEF Live
    <3> QED
      BY <1>1, <1>4, <2>2, <3>1 DEF RivalInv, LetIn
  <2> QED
    BY <2>1, <2>2
<1> QED
  BY <1>6, <1>8 DEF RivalInv

(* Operator calls.                                                                         *)
LEMMA RivalOperator == TypeInv /\ RivalInv /\ Operator => RivalInv'
<1> SUFFICES ASSUME TypeInv, RivalInv, Operator PROVE RivalInv'
  OBVIOUS
<1> USE DEF dbVars, srvVars, calls, histVars
<1>1. req \in [ReqIds -> Request \cup {NoReq}] /\ trig \in [ReqIds -> TrigStages]
  BY DEF TypeInv, TypeOK
<1>2. ASSUME NEW n \in Nodes, NEW img \in Images, NEW sched \in BOOLEAN, NEW opts \in OptSets,
             NEW force \in BOOLEAN, CreateChecks(n, img, sched, opts, force)
      PROVE  RivalInv'
  <2> DEFINE new == [node |-> n, image |-> img, scheduled |-> sched, opts |-> opts,
                     status |-> "checked"]
             A   == IF force THEN Active(n) ELSE {}
  <2>1. PICK q \in ReqIds : /\ IsNext(q) /\ req' = [req EXCEPT ![q] = new]
                            /\ rivals' = [rivals EXCEPT ![q] = Underway(n) \cup A]
    BY <1>2 DEF CreateChecks
  <2>2. new \in Request /\ new.node = n /\ new.status = "checked"
    BY ReimageAssumption DEF Request, Statuses
  <2>3. A \in SUBSET ReqIds /\ Active(n) \subseteq A
    BY <1>2 DEF CreateChecks, Active
  <2>4. UNCHANGED <<trig, batch>>
    BY <1>2 DEF CreateChecks
  <2> HIDE DEF new, A
  <2> QED
    BY <2>1, <2>2, <2>3, <2>4, RivalAccepts
<1>3. ASSUME NEW r \in ReqIds, RetryChecks(r) PROVE RivalInv'
  <2> DEFINE new == [req[r] EXCEPT !.scheduled = FALSE, !.opts = @ \ {"bios"}, !.status = "checked"]
             n   == req[r].node
  <2>1. req[r] \in Request
    BY <1>1, <1>3 DEF RetryChecks, NoReq
  <2>2. n \in Nodes /\ new \in Request /\ new.node = n /\ new.status = "checked"
    BY <2>1 DEF Request, Statuses
  <2>3. PICK q \in ReqIds : /\ IsNext(q) /\ req' = [req EXCEPT ![q] = new]
                            /\ rivals' = [rivals EXCEPT ![q] = Underway(n) \cup {}]
    BY <1>3 DEF RetryChecks
  <2>4. Active(n) \subseteq {} /\ UNCHANGED <<trig, batch>>
    BY <1>3 DEF RetryChecks
  <2> HIDE DEF new, n
  <2> QED
    BY <2>2, <2>3, <2>4, RivalAccepts
<1>4. ASSUME NEW q \in ReqIds, InsertRequest(q) PROVE RivalInv'
  <2>1. Live(q) /\ req[q] \in Request
    BY <1>1, <1>4 DEF InsertRequest, Live, Exists, NoReq
  <2>2. req'[q] = [req[q] EXCEPT !.status = "pending"] /\ \A r \in ReqIds : r # q => req'[r] = req[r]
    BY <1>1, <1>4 DEF InsertRequest, SetStatus
  <2>3. \A r \in ReqIds : Same(r)
    BY <2>1, <2>2 DEF Same, Exists, NodeOf, Request, Live
  <2>4. \A r \in ReqIds : r # q => trig'[r] = trig[r]
    BY <1>1, <1>4 DEF InsertRequest
  <2>5. \A r \in ReqIds : Live(r)' => Live(r)
    BY <1>4, <2>1, <2>2, <2>4 DEF Live, Exists, InsertRequest
  <2> QED
    BY <1>4, <2>3, <2>5, RivalFrame DEF InsertRequest
<1>5. ASSUME NEW q \in ReqIds, CancelUpdates(q) PROVE RivalInv'
  <2>1. Exists(q)
    BY <1>5 DEF CancelUpdates, TypeInv, Unborn
  <2> QED
    BY <1>5, <2>1, RivalWritesOne DEF CancelUpdates, Statuses, TerminalStatuses
<1>6. CASE BulkUpdates
  <2> DEFINE R == {r \in ReqIds : req[r].status \in ActiveStatuses}
  <2>1. \A r \in R : Exists(r)
    BY DEF Exists, ActiveStatuses
  <2>2. req' = [r \in ReqIds |-> IF r \in R THEN [req[r] EXCEPT !.status = "canceled"] ELSE req[r]]
    BY <1>6 DEF BulkUpdates
  <2>3. R \in SUBSET ReqIds /\ "canceled" \in Statuses /\ "canceled" \in TerminalStatuses
    BY DEF Statuses, TerminalStatuses
  <2>4. UNCHANGED <<trig, batch, rivals>>
    BY <1>6 DEF BulkUpdates
  <2> HIDE DEF R
  <2> QED
    BY <2>1, <2>2, <2>3, <2>4, RivalWrites
<1>7. ASSUME UNCHANGED <<req, trig, batch, rivals>> PROVE RivalInv'
  BY <1>7, RivalUntouched
<1> QED
  BY <1>2, <1>3, <1>4, <1>5, <1>6, <1>7 DEF Operator, AssignImage, CancelReads, CancelClears,
     CancelAborts, BulkReads, BulkClears, BulkAborts

(* Trigger writes the row it holds, whatever the status is by now.                         *)
LEMMA RivalTrigger ==
    ASSUME TypeInv, RivalInv, NEW q \in ReqIds, Trigger(q)
    PROVE  RivalInv'
<1> USE DEF dbVars, srvVars, calls, histVars
<1>1. req \in [ReqIds -> Request \cup {NoReq}] /\ trig \in [ReqIds -> TrigStages]
  BY DEF TypeInv, TypeOK
<1>2. trig[q] # "idle"
  BY DEF Trigger, TriggerAssigns, TriggerFlags, TriggerSetsNextBoot, TriggerCycles,
         TriggerMarks, TriggerFails, TriggerGivesUp
<1>3. Live(q) /\ req[q] \in Request
  BY <1>1, <1>2 DEF Live, TypeInv, Unborn, Exists, NoReq
<1>4. req' = req \/ \E s \in {"triggered", "failed"} : SetStatus(q, s)
  BY DEF Trigger, TriggerAssigns, TriggerFlags, TriggerSetsNextBoot, TriggerCycles,
         TriggerMarks, TriggerFails, TriggerGivesUp
<1>5. /\ UNCHANGED rivals /\ batch' \subseteq batch
      /\ \A r \in ReqIds : r # q => trig'[r] = trig[r]
  BY <1>1 DEF Trigger, TriggerAssigns, TriggerFlags, TriggerSetsNextBoot, TriggerCycles,
         TriggerMarks, TriggerFails, TriggerGivesUp, GoOn, Return
<1>6. \A r \in ReqIds : r # q => req'[r] = req[r]
  BY <1>1, <1>4 DEF SetStatus
<1>7. \/ req'[q] = req[q]
      \/ req'[q].status \in {"triggered", "failed"} /\ req'[q].node = req[q].node
  BY <1>1, <1>3, <1>4 DEF SetStatus, Request
<1>8. \A r \in ReqIds : Same(r)
  BY <1>3, <1>6, <1>7 DEF Same, Exists, NodeOf, Live
<1>9. \A r \in ReqIds : Live(r)' => Live(r)
  BY <1>3, <1>5, <1>6 DEF Live, Exists
<1> QED
  BY <1>5, <1>8, <1>9, RivalFrame

(* The scheduler lists pending rows and triggers what it listed.                           *)
LEMMA RivalScheduler == TypeInv /\ RivalInv /\ Scheduler => RivalInv'
<1> SUFFICES ASSUME TypeInv, RivalInv, Scheduler PROVE RivalInv'
  OBVIOUS
<1> USE DEF dbVars, srvVars, calls, histVars
<1>1. CASE SchedulerTicks
  <2>1. \A r \in batch' : r \in ReqIds /\ req[r].status = "pending"
    BY <1>1 DEF SchedulerTicks, PendingDue
  <2>2. \A r \in ReqIds : Live(r)' => Live(r)
    BY <1>1, <2>1 DEF SchedulerTicks, Live, Exists, ActiveStatuses
  <2> QED
    BY <1>1, <2>2, RivalFrame DEF SchedulerTicks, Same
<1>2. CASE SchedulerTriggers
  <2>1. PICK q \in ReqIds : q \in batch /\ trig' = [trig EXCEPT ![q] = "resolve"]
    BY <1>2 DEF SchedulerTriggers, ByScheduler
  <2>2. \A r \in ReqIds : r # q => trig'[r] = trig[r]
    BY <2>1 DEF TypeInv, TypeOK
  <2>3. \A r \in ReqIds : Live(r)' => Live(r)
    BY <1>2, <2>1, <2>2 DEF SchedulerTriggers, Live, Exists
  <2> QED
    BY <1>2, <2>3, RivalFrame DEF SchedulerTriggers, Same
<1>3. ASSUME NEW r \in ReqIds, FallsDue(r) PROVE RivalInv'
  BY <1>3, RivalUntouched DEF FallsDue
<1> QED
  BY <1>1, <1>2, <1>3 DEF Scheduler

(* The workers, the callbacks, the machines and a restart only close requests and end      *)
(* calls.                                                                                  *)
LEMMA RivalOthers ==
    ASSUME TypeInv, RivalInv,
           \/ Reaper \/ Scanner \/ ServerRestarts
           \/ \E n \in Nodes : Callback(n) \/ Machine(n)
    PROVE  RivalInv'
<1> USE DEF dbVars, srvVars, calls, histVars
<1>1. ASSUME UNCHANGED <<req, trig, batch, rivals>> PROVE RivalInv'
  BY <1>1, RivalUntouched
<1>2. CASE Reaper \/ Scanner
  BY <1>1, <1>2 DEF Reaper, ReaperLists, ReaperChecks, ReaperClears, Scanner, ScannerLists, ScannerStamps, ScannerFlips
<1>3. ASSUME NEW n \in Nodes, Callback(n) PROVE RivalInv'
  <2>1. UNCHANGED <<trig, batch, rivals>>
    BY <1>3 DEF Callback, RecordDeploySucceeded, RecordDeployFailed, RecordVerifyBooted, FailureReads,
       FailureUpdates, ClosesRequests, VerifyFlips, HandlerAborts
  <2>2. ASSUME NEW s \in {"complete", "failed"}, CloseActive(n, s) PROVE RivalInv'
    <3>1. Active(n) \in SUBSET ReqIds /\ \A r \in Active(n) : Exists(r)
      BY DEF Active
    <3>2. s \in Statuses /\ s \in TerminalStatuses
      BY DEF Statuses, TerminalStatuses
    <3>3. req' = [r \in ReqIds |-> IF r \in Active(n) THEN [req[r] EXCEPT !.status = s] ELSE req[r]]
      BY <2>2 DEF CloseActive
    <3> QED
      BY <2>1, <3>1, <3>2, <3>3, RivalWrites
  <2>3. CASE FailureUpdates(n)
    <3>1. PICK q \in failing : SetStatus(q, "failed")
      BY <2>3 DEF FailureUpdates
    <3>2. q \in ReqIds /\ Exists(q)
      BY <3>1 DEF TypeInv, TypeOK, Unborn
    <3> QED
      BY <2>1, <3>1, <3>2, RivalWritesOne DEF Statuses, TerminalStatuses
  <2> QED
    BY <1>1, <1>3, <2>1, <2>2, <2>3 DEF Callback, RecordDeploySucceeded, RecordDeployFailed,
       RecordVerifyBooted, FailureReads, ClosesRequests, VerifyFlips, HandlerAborts
<1>4. ASSUME NEW n \in Nodes, Machine(n) PROVE RivalInv'
  BY <1>1, <1>4, MachineFrame
<1>5. CASE ServerRestarts
  <2> DEFINE R == {r \in ReqIds : Exists(r) /\ req[r].status = "checked"}
  <2>1. req' = [r \in ReqIds |-> IF r \in R THEN [req[r] EXCEPT !.status = "dropped"] ELSE req[r]]
    BY <1>5 DEF ServerRestarts
  <2>2. \A r \in R : Exists(r)
    OBVIOUS
  <2>3. R \in SUBSET ReqIds /\ "dropped" \in Statuses
    BY DEF Statuses
  <2>4. /\ UNCHANGED rivals /\ batch' \subseteq batch
        /\ \A r \in ReqIds : trig'[r] = "idle"
    BY <1>5 DEF ServerRestarts
  <2> HIDE DEF R
  <2> QED
    BY <2>1, <2>2, <2>3, <2>4, RivalWrites
<1> QED
  BY <1>1, <1>2, <1>3, <1>4, <1>5

(* Of two active requests of a node, the later one was forced in, or accepted while a      *)
(* handler was inserting the earlier one or Trigger or the scheduler held it: for every    *)
(* number of nodes and requests, with calls that overlap, restarts and refused writes.     *)
THEOREM AtMostOne == Spec => []OneActive
<1>1. TypeInv /\ RivalInv /\ [Next]_vars => RivalInv'
  <2> SUFFICES ASSUME TypeInv, RivalInv, [Next]_vars PROVE RivalInv'
    OBVIOUS
  <2>1. CASE UNCHANGED vars
    BY <2>1, RivalUntouched DEF vars
  <2> QED
    BY <2>1, RivalOperator, RivalTrigger, RivalScheduler, RivalOthers DEF Next
<1>2. TypeInv /\ RivalInv => OneActive
  <2> SUFFICES ASSUME TypeInv, RivalInv, NEW n \in Nodes, NEW r \in Active(n), NEW q \in Active(n),
                      q < r
               PROVE  q \in rivals[r]
    BY DEF OneActive
  <2>1. r \in ReqIds /\ q \in ReqIds /\ Live(r) /\ Live(q) /\ NodeOf(q) = NodeOf(r)
    BY DEF Active, Live, NodeOf
  <2> QED
    BY <2>1 DEF RivalInv, LetIn
<1> QED
  BY <1>1, <1>2, RivalInit, TypeInvariant, PTL DEF Spec
-----------------------------------------------------------------------------
(* Reimage implements RequestLifecycle.  Two more facts are needed: only rows of the table *)
(* are worked on (the call that is about to insert one, or died before, is the only one    *)
(* that knows its request), and a node has at most one report in progress.                 *)
Worked(r) == \/ trig[r] # "idle" \/ cancel[r] # "idle" \/ r \in batch \cup failing
             \/ due[r] # 0 \/ cycled[r] # 0
OnlyRows  == \A r \in ReqIds : Worked(r) => InDB(r)
OneReport == \A r \in failing : /\ handler[NodeOf(r)] = "failedUpdate"
                                /\ \A q \in failing : NodeOf(q) = NodeOf(r) => q = r
LifeInv == OnlyRows /\ OneReport

(* A call of a node that is not about to write what it read has nothing to let go of; one  *)
(* that is has one request.                                                                *)
LEMMA ServeReports ==
    ASSUME TypeInv, OneReport, NEW n \in Nodes, NEW s \in HandlerStages, Serve(n, s),
           \A r \in failing : NodeOf(r)' = NodeOf(r)
    PROVE  /\ OneReport'
           /\ failing' = {r \in failing : NodeOf(r) # n}
           /\ handler[n] # "failedUpdate" => failing' = failing
<1>1. failing' = {r \in failing : NodeOf(r) # n} /\ handler' = [handler EXCEPT ![n] = s]
  BY DEF Serve, NodeOf
<1>2. \A r \in failing' : handler'[NodeOf(r)] = handler[NodeOf(r)]
  BY <1>1 DEF TypeInv, TypeOK
<1>3. OneReport'
  BY <1>1, <1>2 DEF OneReport
<1> QED
  BY <1>1, <1>3 DEF OneReport

(* A statement on existing rows keeps their nodes and their place in the table.            *)
Kept == \A r \in ReqIds : Exists(r) => NodeOf(r)' = NodeOf(r) /\ (InDB(r) => InDB(r)')

(* At first nothing is worked on.                                                          *)
LEMMA LifeInit == Init => LifeInv
BY DEF Init, LifeInv, OnlyRows, OneReport, Worked

(* The statements of the server keep rows rows.                                            *)
LEMMA StatusKeeps ==
    ASSUME TypeInv
    PROVE  /\ \A r \in ReqIds, s \in ActiveStatuses \cup TerminalStatuses :
                 Exists(r) /\ SetStatus(r, s) => Kept /\ InDB(r)'
           /\ \A n \in Nodes, s \in TerminalStatuses : CloseActive(n, s) => Kept
           /\ UNCHANGED req => Kept
<1>1. ASSUME NEW r \in ReqIds, NEW s \in ActiveStatuses \cup TerminalStatuses, Exists(r), SetStatus(r, s)
      PROVE  Kept /\ InDB(r)'
  <2>1. req[r] \in Request
    BY <1>1 DEF TypeInv, TypeOK, Exists, NoReq
  <2>2. req'[r].status = s /\ NodeOf(r)' = NodeOf(r) /\ \A q \in ReqIds : q # r => req'[q] = req[q]
    BY <1>1, <2>1 DEF SetStatus, TypeInv, TypeOK, Request, NodeOf
  <2> QED
    BY <2>2 DEF Kept, InDB, NodeOf
<1>2. ASSUME NEW n \in Nodes, NEW s \in TerminalStatuses, CloseActive(n, s) PROVE Kept
  <2>1. ASSUME NEW r \in ReqIds, Exists(r) PROVE req[r] \in Request
    BY <2>1 DEF TypeInv, TypeOK, Exists, NoReq
  <2> QED
    BY <1>2, <2>1 DEF CloseActive, Kept, InDB, NodeOf, Request
<1>3. UNCHANGED req => Kept
  BY DEF Kept, InDB, NodeOf
<1> QED
  BY <1>1, <1>2, <1>3

(* What a step has to show: rows stay rows, and what is newly worked on is one.            *)
LEMMA LifeFrame ==
    ASSUME TypeInv, LifeInv, Kept, OneReport',
           \A r \in ReqIds : Worked(r)' => Worked(r) \/ InDB(r)'
    PROVE  LifeInv'
<1>1. \A r \in ReqIds : InDB(r) => Exists(r)
  BY DEF InDB, Exists, ActiveStatuses, TerminalStatuses
<1> QED
  BY <1>1 DEF LifeInv, OnlyRows, Kept

(* Reports in progress that nobody touches.                                                *)
LEMMA ReportsFrame ==
    ASSUME TypeInv, OneReport, Kept, UNCHANGED <<handler, failing>>
    PROVE  OneReport'
<1>1. \A r \in failing : r \in ReqIds /\ Exists(r)
  BY DEF TypeInv, TypeOK, Unborn
<1> QED
  BY <1>1 DEF OneReport, Kept
(* Operator calls: a new row is worked on by no one yet, a cancel works on an active one.  *)
LEMMA LifeOperator == TypeInv /\ LifeInv /\ Operator => LifeInv'
<1> SUFFICES ASSUME TypeInv, LifeInv, Operator PROVE LifeInv'
  OBVIOUS
<1> USE DEF dbVars, srvVars, calls, histVars
<1>1. /\ req \in [ReqIds -> Request \cup {NoReq}] /\ OneReport
      /\ \A r \in ReqIds : Exists(r) <=> req[r] \in Request
  BY DEF TypeInv, TypeOK, LifeInv, Exists, NoReq, Request, Statuses, ActiveStatuses, TerminalStatuses
<1>2. ASSUME Kept, UNCHANGED <<handler, failing>>,
             \A r \in ReqIds : Worked(r)' => Worked(r) \/ InDB(r)'
      PROVE  LifeInv'
  BY <1>1, <1>2, ReportsFrame, LifeFrame
<1>3. ASSUME NEW q \in ReqIds, IsNext(q), NEW new, req' = [req EXCEPT ![q] = new],
             UNCHANGED <<due, trig, batch, cancel, handler, failing, cycled>>
      PROVE  LifeInv'
  <2>1. ~Exists(q) /\ \A r \in ReqIds : r # q => req'[r] = req[r]
    BY <1>1, <1>3 DEF IsNext
  <2>2. Kept
    BY <2>1 DEF Kept, NodeOf, InDB
  <2> QED
    BY <1>2, <1>3, <2>2 DEF Worked
<1>4. ASSUME NEW r \in ReqIds, RetryChecks(r) PROVE LifeInv'
  BY <1>3, <1>4 DEF RetryChecks
<1>5. ASSUME NEW n \in Nodes, NEW img \in Images, NEW sched \in BOOLEAN, NEW opts \in OptSets,
             NEW force \in BOOLEAN, CreateChecks(n, img, sched, opts, force)
      PROVE  LifeInv'
  BY <1>3, <1>5 DEF CreateChecks
<1>6. ASSUME NEW q \in ReqIds, InsertRequest(q) PROVE LifeInv'
  <2>1. Exists(q) /\ SetStatus(q, "pending")
    BY <1>6 DEF InsertRequest, Exists
  <2>2. Kept /\ InDB(q)'
    BY <2>1, StatusKeeps DEF ActiveStatuses
  <2>3. \A r \in ReqIds : r # q => trig'[r] = trig[r]
    BY <1>6 DEF InsertRequest, TypeInv, TypeOK
  <2> QED
    BY <1>2, <1>6, <2>2, <2>3 DEF InsertRequest, Worked
<1>7. ASSUME NEW q \in ReqIds, CancelReads(q) PROVE LifeInv'
  <2>1. InDB(q)' /\ \A r \in ReqIds : r # q => cancel'[r] = cancel[r]
    BY <1>7 DEF CancelReads, InDB, TypeInv, TypeOK
  <2> QED
    BY <1>2, <1>7, <2>1, StatusKeeps DEF CancelReads, Worked
<1>8. ASSUME NEW q \in ReqIds, CancelUpdates(q) PROVE LifeInv'
  <2>1. Exists(q) /\ SetStatus(q, "canceled")
    BY <1>8 DEF CancelUpdates, TypeInv, Unborn
  <2>2. Kept /\ InDB(q)'
    BY <2>1, StatusKeeps DEF TerminalStatuses
  <2>3. \A r \in ReqIds : r # q => cancel'[r] = cancel[r]
    BY <1>8 DEF CancelUpdates, TypeInv, TypeOK
  <2> QED
    BY <1>2, <1>8, <2>2, <2>3 DEF CancelUpdates, Worked
<1>9. ASSUME NEW q \in ReqIds, CancelClears(q) \/ CancelAborts(q) PROVE LifeInv'
  <2>1. cancel[q] # "idle" /\ \A r \in ReqIds : r # q => cancel'[r] = cancel[r]
    BY <1>9 DEF CancelClears, CancelAborts, TypeInv, TypeOK
  <2> QED
    BY <1>2, <1>9, <2>1, StatusKeeps DEF CancelClears, CancelAborts, Worked
<1>10. CASE BulkUpdates
  <2>1. \A r \in ReqIds : req'[r] = IF req[r].status \in ActiveStatuses
                                    THEN [req[r] EXCEPT !.status = "canceled"] ELSE req[r]
    BY <1>10 DEF BulkUpdates
  <2>2. Kept
    BY <1>1, <2>1 DEF Kept, NodeOf, InDB, Request, TerminalStatuses
  <2> QED
    BY <1>2, <1>10, <2>2 DEF BulkUpdates, Worked
<1>11. ASSUME UNCHANGED <<req, due, trig, batch, cancel, handler, failing, cycled>> PROVE LifeInv'
  BY <1>2, <1>11, StatusKeeps DEF Worked
<1> QED
  BY <1>4, <1>5, <1>6, <1>7, <1>8, <1>9, <1>10, <1>11
     DEF Operator, AssignImage, BulkReads, BulkClears, BulkAborts

(* Trigger works on the row it was called for.                                             *)
LEMMA LifeTrigger ==
    ASSUME TypeInv, LifeInv, NEW q \in ReqIds, Trigger(q)
    PROVE  LifeInv'
<1> USE DEF dbVars, srvVars, calls, histVars
<1>1. trig[q] # "idle"
  BY DEF Trigger, TriggerAssigns, TriggerFlags, TriggerSetsNextBoot, TriggerCycles,
         TriggerMarks, TriggerFails, TriggerGivesUp
<1>2. Exists(q) /\ Worked(q) /\ OneReport
  BY <1>1 DEF TypeInv, Unborn, Worked, LifeInv
<1>3. UNCHANGED req \/ \E s \in {"triggered", "failed"} : SetStatus(q, s)
  BY DEF Trigger, TriggerAssigns, TriggerFlags, TriggerSetsNextBoot, TriggerCycles,
         TriggerMarks, TriggerFails, TriggerGivesUp
<1>4. Kept
  BY <1>2, <1>3, StatusKeeps DEF ActiveStatuses, TerminalStatuses
<1>5. UNCHANGED <<due, cancel, handler, failing>> /\ batch' \subseteq batch
      /\ \A r \in ReqIds : r # q => trig'[r] = trig[r] /\ cycled'[r] = cycled[r]
  BY DEF Trigger, TriggerAssigns, TriggerFlags, TriggerSetsNextBoot, TriggerCycles,
         TriggerMarks, TriggerFails, TriggerGivesUp, GoOn, Return, PowerCycle, TypeInv, TypeOK
<1> QED
  BY <1>2, <1>4, <1>5, ReportsFrame, LifeFrame DEF Worked

(* The scheduler works on rows it has read.                                                *)
LEMMA LifeScheduler == TypeInv /\ LifeInv /\ Scheduler => LifeInv'
<1> SUFFICES ASSUME TypeInv, LifeInv, Scheduler PROVE LifeInv'
  OBVIOUS
<1> USE DEF dbVars, srvVars, calls, histVars
<1>1. UNCHANGED <<req, cancel, handler, failing, cycled>>
  BY DEF Scheduler, SchedulerTicks, SchedulerTriggers, FallsDue
<1>2. \A r \in ReqIds : InDB(r)' = InDB(r)
  BY <1>1 DEF InDB
<1>3. CASE SchedulerTicks
  <2>1. \A r \in batch' : InDB(r)
    BY <1>3 DEF SchedulerTicks, PendingDue, InDB, ActiveStatuses
  <2> QED
    BY <1>1, <1>2, <1>3, <2>1, StatusKeeps, ReportsFrame, LifeFrame DEF SchedulerTicks, Worked, LifeInv
<1>4. CASE SchedulerTriggers
  <2>1. PICK q \in ReqIds : ByScheduler(q) /\ trig' = [trig EXCEPT ![q] = "resolve"]
    BY <1>4 DEF SchedulerTriggers
  <2>2. \A r \in ReqIds : Worked(r)' => Worked(r)
    BY <1>1, <1>4, <2>1 DEF SchedulerTriggers, ByScheduler, Worked, TypeInv, TypeOK
  <2> QED
    BY <1>1, <2>2, StatusKeeps, ReportsFrame, LifeFrame DEF LifeInv
<1>5. ASSUME NEW q \in ReqIds, FallsDue(q) PROVE LifeInv'
  <2>1. InDB(q) /\ UNCHANGED <<trig, batch>> /\ \A r \in ReqIds : r # q => due'[r] = due[r]
    BY <1>5 DEF FallsDue, InDB, ActiveStatuses, TypeInv, TypeOK
  <2> QED
    BY <1>1, <1>2, <2>1, StatusKeeps, ReportsFrame, LifeFrame DEF Worked, LifeInv
<1> QED
  BY <1>3, <1>4, <1>5 DEF Scheduler
(* A callback of a node begins a report on its newest active request, or ends its own.     *)
LEMMA LifeCallback ==
    ASSUME TypeInv, LifeInv, NEW n \in Nodes, Callback(n)
    PROVE  LifeInv'
<1> USE DEF dbVars, srvVars, calls, histVars
<1>1. UNCHANGED <<due, trig, batch, cancel, cycled>> /\ OneReport
  BY DEF Callback, RecordDeploySucceeded, RecordDeployFailed, RecordVerifyBooted, FailureReads,
     FailureUpdates, ClosesRequests, VerifyFlips, HandlerAborts, LifeInv
<1>2. ASSUME NEW s \in HandlerStages, Serve(n, s), Kept PROVE LifeInv'
  <2>1. \A r \in failing : NodeOf(r)' = NodeOf(r)
    BY <1>2 DEF Kept, TypeInv, TypeOK, Unborn
  <2>2. OneReport' /\ failing' \subseteq failing
    BY <1>1, <1>2, <2>1, ServeReports
  <2> QED
    BY <1>1, <1>2, <2>2, LifeFrame DEF Worked
<1>3. CASE FailureReads(n)
  <2>1. UNCHANGED req /\ handler[n] = "failedRead"
    BY <1>3 DEF FailureReads
  <2>2. CASE Serve(n, "failedClose")
    BY <1>2, <2>1, <2>2, StatusKeeps DEF HandlerStages
  <2>3. ASSUME NEW r \in Active(n), handler' = [handler EXCEPT ![n] = "failedUpdate"],
               failing' = failing \cup {r}
        PROVE  LifeInv'
    <3>1. r \in ReqIds /\ NodeOf(r) = n /\ InDB(r)'
      BY <2>1 DEF Active, NodeOf, InDB
    <3>2. \A q \in failing : NodeOf(q) # n
      BY <1>1, <2>1 DEF OneReport
    <3>3. \A q \in failing' : handler'[NodeOf(q)] = "failedUpdate"
      BY <1>1, <2>3, <3>1, <3>2 DEF OneReport, TypeInv, TypeOK
    <3>4. OneReport'
      BY <1>1, <2>1, <2>3, <3>1, <3>2, <3>3 DEF OneReport, NodeOf
    <3> QED
      BY <1>1, <2>1, <2>3, <3>1, <3>4, StatusKeeps, LifeFrame DEF Worked
  <2> QED
    BY <1>3, <2>2, <2>3 DEF FailureReads
<1>4. CASE FailureUpdates(n)
  <2>1. PICK r \in failing : SetStatus(r, "failed")
    BY <1>4 DEF FailureUpdates
  <2>2. r \in ReqIds /\ Exists(r)
    BY <2>1 DEF TypeInv, TypeOK, Unborn
  <2> QED
    BY <1>2, <1>4, <2>1, <2>2, StatusKeeps DEF FailureUpdates, HandlerStages, TerminalStatuses
<1>5. CASE ClosesRequests(n)
  BY <1>2, <1>5, StatusKeeps DEF ClosesRequests, HandlerStages, TerminalStatuses
<1>6. CASE RecordDeploySucceeded(n) \/ RecordDeployFailed(n) \/ RecordVerifyBooted(n)
           \/ VerifyFlips(n) \/ HandlerAborts(n)
  BY <1>2, <1>6, StatusKeeps DEF RecordDeploySucceeded, RecordDeployFailed, RecordVerifyBooted,
     VerifyFlips, HandlerAborts, HandlerStages
<1> QED
  BY <1>3, <1>4, <1>5, <1>6 DEF Callback

(* The workers touch no request; a machine that calls has no call open; a restart ends     *)
(* everything, and drops what had no row yet.                                              *)
LEMMA LifeOthers ==
    ASSUME TypeInv, LifeInv,
           Reaper \/ Scanner \/ ServerRestarts \/ \E n \in Nodes : Machine(n)
    PROVE  LifeInv'
<1> USE DEF dbVars, srvVars, calls, histVars
<1>1. OneReport
  BY DEF LifeInv
<1>2. CASE Reaper \/ Scanner
  <2>1. UNCHANGED <<req, due, trig, batch, cancel, handler, failing, cycled>>
    BY <1>2 DEF Reaper, ReaperLists, ReaperChecks, ReaperClears, Scanner, ScannerLists, ScannerStamps, ScannerFlips
  <2> QED
    BY <1>1, <2>1, StatusKeeps, ReportsFrame, LifeFrame DEF Worked
<1>3. ASSUME NEW n \in Nodes, Machine(n) PROVE LifeInv'
  <2>1. UNCHANGED <<req, due, trig, batch, cancel, cycled>> /\ Kept
    BY <1>3, MachineFrame, StatusKeeps
  <2>2. CASE UNCHANGED <<handler, failing>>
    BY <1>1, <2>1, <2>2, ReportsFrame, LifeFrame DEF Worked
  <2>3. CASE handler[n] = "idle" /\ \E s \in HandlerStages : Serve(n, s)
    <3>1. \A r \in failing : NodeOf(r)' = NodeOf(r)
      BY <2>1 DEF NodeOf
    <3>2. OneReport' /\ failing' = failing
      BY <1>1, <2>3, <3>1, ServeReports
    <3> QED
      BY <2>1, <3>2, LifeFrame DEF Worked
  <2> QED
    BY <1>3, <2>2, <2>3, MachineFrame
<1>4. CASE ServerRestarts
  <2>1. \A r \in ReqIds : InDB(r) => InDB(r)'
    BY <1>4 DEF ServerRestarts, InDB, ActiveStatuses, TerminalStatuses, TypeInv, TypeOK
  <2>2. \A r \in ReqIds : Worked(r)' => Worked(r)
    BY <1>4 DEF ServerRestarts, Worked
  <2>3. failing' = {}
    BY <1>4 DEF ServerRestarts
  <2> QED
    BY <2>1, <2>2, <2>3 DEF LifeInv, OnlyRows, OneReport
<1> QED
  BY <1>2, <1>3, <1>4

(* The invariant of the refinement.                                                        *)
LEMMA LifeStep == TypeInv /\ LifeInv /\ [Next]_vars => LifeInv'
<1> SUFFICES ASSUME TypeInv, LifeInv, [Next]_vars PROVE LifeInv'
  OBVIOUS
<1>1. CASE UNCHANGED vars
  <2>1. UNCHANGED <<req, due, trig, batch, cancel, handler, failing, cycled>>
    BY <1>1 DEF vars
  <2> QED
    BY <2>1, StatusKeeps, ReportsFrame, LifeFrame DEF Worked, LifeInv
<1> QED
  BY <1>1, LifeOperator, LifeTrigger, LifeScheduler, LifeCallback, LifeOthers DEF Next
-----------------------------------------------------------------------------
(* The values the refinement mapping gives RequestLifecycle's variables.                   *)
Held(r) == {h \in {"trigger", "mark", "cancel", "report"} : WorksOn(r, h)}
Stat  == [r \in ReqIds |-> req[r].status]
Later == {r \in ReqIds : Exists(r) /\ req[r].scheduled}
Ripe  == {r \in ReqIds : due[r] # 0}
Grip  == [r \in ReqIds |-> Held(r)]

(* At first no request is made.                                                            *)
LEMMA RefinesInit == Init => Lifecycle!Init
BY DEF Init, Lifecycle!Init, Exists, NoReq, WorksOn

(* A step of which the mapping sees nothing.                                               *)
LEMMA RefinesStutter ==
    ASSUME UNCHANGED <<req, due, cycled>>, \A r \in ReqIds : Held(r)' = Held(r)
    PROVE  UNCHANGED Lifecycle!vars
<1>1. Stat' = Stat /\ Later' = Later /\ Ripe' = Ripe /\ Grip' = Grip
  BY DEF Stat, Later, Ripe, Grip, Exists
<1> QED
  BY <1>1 DEF Lifecycle!vars, Stat, Later, Ripe, Grip, Held

(* What the calls at work may do to a request does not change with other requests.         *)
LEMMA HeldFrame ==
    ASSUME NEW r \in ReqIds, UNCHANGED <<trig[r], cancel[r]>>,
           r \in batch' <=> r \in batch, r \in failing' <=> r \in failing
    PROVE  Held(r)' = Held(r)
BY DEF Held, WorksOn

(* A status write, seen through the mapping.                                               *)
LEMMA StatWritten ==
    ASSUME TypeInv, NEW r \in ReqIds, Exists(r), NEW s \in Statuses, SetStatus(r, s)
    PROVE  /\ Stat' = [Stat EXCEPT ![r] = s]
           /\ Later' = Later
<1>1. req[r] \in Request
  BY DEF TypeInv, TypeOK, Exists, NoReq
<1>2. /\ req'[r].status = s /\ req'[r].scheduled = req[r].scheduled
      /\ \A q \in ReqIds : q # r => req'[q] = req[q]
  BY <1>1 DEF SetStatus, TypeInv, TypeOK, Request
<1>3. Stat' = [Stat EXCEPT ![r] = s]
  BY <1>2 DEF Stat
<1>4. s # "none"
  BY DEF Statuses, ActiveStatuses, TerminalStatuses
<1> QED
  BY <1>2, <1>3, <1>4 DEF Later, Exists

(* A call that ends without its write.                                                     *)
LEMMA Releases ==
    ASSUME NEW r \in ReqIds, NEW h \in Held(r), UNCHANGED <<req, due, cycled>>,
           Held(r)' = Held(r) \ {h}, \A q \in ReqIds \ {r} : Held(q)' = Held(q)
    PROVE  Lifecycle!Next
<1>1. Stat' = Stat /\ Later' = Later /\ Ripe' = Ripe
  BY DEF Stat, Later, Ripe, Exists
<1>2. Grip' = [Grip EXCEPT ![r] = @ \ {h}] /\ h \in Grip[r]
  BY DEF Grip
<1>3. Lifecycle!Release(r, h)
  BY <1>1, <1>2 DEF Lifecycle!Release, Stat, Later, Ripe, Grip, Held
<1> QED
  BY <1>2, <1>3 DEF Lifecycle!Next, Grip, Held

(* A call that writes the status it set out to write; a Trigger that fails may have cycled *)
(* the machine.                                                                            *)
LEMMA Writes ==
    ASSUME TypeInv, NEW r \in ReqIds, Exists(r), NEW h \in Held(r), NEW s,
           s = CASE h = "mark" -> "triggered" [] h = "cancel" -> "canceled" [] OTHER -> "failed",
           SetStatus(r, s), UNCHANGED due,
           cycled' = cycled \/ (h = "trigger" /\ cycled' = [cycled EXCEPT ![r] = @ + 1]),
           Held(r)' = Held(r) \ {h}, \A q \in ReqIds \ {r} : Held(q)' = Held(q)
    PROVE  Lifecycle!Next
<1>1. s \in Statuses
  BY DEF Statuses, ActiveStatuses, TerminalStatuses
<1>2. Stat' = [Stat EXCEPT ![r] = s] /\ Later' = Later /\ Ripe' = Ripe
  BY <1>1, StatWritten DEF Ripe
<1>3. Grip' = [Grip EXCEPT ![r] = @ \ {h}] /\ h \in Grip[r]
  BY DEF Grip
<1>4. \E k \in {0, 1} : cycled' = [cycled EXCEPT ![r] = IF h = "trigger" THEN @ + k ELSE @]
  <2>1. cycled \in [ReqIds -> Nat]
    BY DEF TypeInv, TypeOK
  <2> QED
    BY <2>1
<1>5. Lifecycle!Write(r, h)
  BY <1>2, <1>3, <1>4 DEF Lifecycle!Write, Stat, Later, Ripe, Grip, Held
<1> QED
  BY <1>3, <1>5 DEF Lifecycle!Next, Grip, Held

(* A statement over open rows.                                                             *)
LEMMA Closes ==
    ASSUME NEW S \in SUBSET ReqIds, NEW s \in TerminalStatuses,
           \A r \in S : req[r].status \in ActiveStatuses /\ req[r] \in Request,
           req' = [r \in ReqIds |-> IF r \in S THEN [req[r] EXCEPT !.status = s] ELSE req[r]],
           UNCHANGED <<due, cycled>>, \A q \in ReqIds : Held(q)' = Held(q)
    PROVE  Lifecycle!Next
<1>1. \A r \in S : req'[r].status = s /\ req'[r].scheduled = req[r].scheduled /\ Exists(r) /\ Exists(r)'
  BY DEF Request, Exists, ActiveStatuses, TerminalStatuses
<1>2. \A r \in ReqIds \ S : req'[r] = req[r]
  OBVIOUS
<1>3. Stat' = [r \in ReqIds |-> IF r \in S THEN s ELSE Stat[r]]
  BY <1>1, <1>2 DEF Stat
<1>4. Later' = Later /\ Ripe' = Ripe /\ Grip' = Grip
  BY <1>1, <1>2 DEF Later, Ripe, Grip, Exists
<1>5. S \subseteq Lifecycle!Open /\ s \in Lifecycle!Closures
  BY DEF Lifecycle!Open, Lifecycle!Closures, ActiveStatuses, TerminalStatuses
<1>6. Lifecycle!Close(S, s)
  BY <1>3, <1>4 DEF Lifecycle!Close, Stat, Later, Ripe, Grip, Held
<1> QED
  BY <1>5, <1>6 DEF Lifecycle!Next

(* A call that reads open rows to write them.                                              *)
LEMMA Takes ==
    ASSUME NEW S \in SUBSET ReqIds, \A r \in S : req[r].status \in ActiveStatuses,
           NEW h \in {"trigger", "cancel", "report"},
           h = "trigger" => \A r \in S : /\ due[r] # 0 /\ req[r].status = "pending"
                                         /\ "mark" \notin Held(r),
           UNCHANGED <<req, due, cycled>>,
           \A q \in ReqIds : Held(q)' = IF q \in S THEN Held(q) \cup {h} ELSE Held(q)
    PROVE  Lifecycle!Next
<1>1. Stat' = Stat /\ Later' = Later /\ Ripe' = Ripe
  BY DEF Stat, Later, Ripe, Exists
<1>2. Grip' = [q \in ReqIds |-> IF q \in S THEN Grip[q] \cup {h} ELSE Grip[q]]
  BY DEF Grip
<1>3. h = "trigger" => S \subseteq {r \in Ripe : Stat[r] = "pending" /\ "mark" \notin Grip[r]}
  BY DEF Ripe, Stat, Grip
<1>4. Lifecycle!Take(S, h)
  BY <1>1, <1>2, <1>3 DEF Lifecycle!Take, Stat, Later, Ripe, Grip, Held
<1>5. S \subseteq Lifecycle!Open /\ h \in Lifecycle!Hands
  BY DEF Lifecycle!Open, Lifecycle!Hands, ActiveStatuses
<1> QED
  BY <1>4, <1>5 DEF Lifecycle!Next

(* A request that has passed its checks.                                                   *)
LEMMA Accepts ==
    ASSUME TypeInv, NEW q \in ReqIds, ~Exists(q), NEW new \in Request, new.status = "checked",
           req' = [req EXCEPT ![q] = new],
           UNCHANGED <<due, trig, batch, cancel, failing, cycled>>
    PROVE  Lifecycle!Next
<1>1. req'[q] = new /\ \A r \in ReqIds : r # q => req'[r] = req[r]
  BY DEF TypeInv, TypeOK
<1>2. Stat[q] = "none" /\ Stat' = [Stat EXCEPT ![q] = "checked"]
  <2>1. req[q].status = "none" /\ req'[q].status = "checked"
    BY <1>1 DEF Exists
  <2>2. \A r \in ReqIds \ {q} : req'[r].status = req[r].status
    BY <1>1
  <2> QED
    BY <2>1, <2>2 DEF Stat
<1>3. \E L \in {{}, {q}} : Later' = Later \cup L
  BY <1>1 DEF Later, Exists, Request
<1>4. Ripe' = Ripe /\ Grip' = Grip
  BY HeldFrame DEF Ripe, Grip
<1>5. \E L \in {{}, {q}} : Lifecycle!Accept(q, L)
  BY <1>2, <1>3, <1>4 DEF Lifecycle!Accept, Stat, Later, Ripe, Grip, Held
<1> QED
  BY <1>5 DEF Lifecycle!Next
(* Operator calls: checks accept, the insert inserts, a cancel takes, writes or lets go.   *)
LEMMA RefinesOperator ==
    ASSUME TypeInv, LifeInv, Operator
    PROVE  Lifecycle!Next \/ UNCHANGED Lifecycle!vars
<1> USE DEF dbVars, srvVars, calls, histVars
<1>1. /\ req \in [ReqIds -> Request \cup {NoReq}] /\ OnlyRows
      /\ trig \in [ReqIds -> TrigStages] /\ cancel \in [ReqIds -> {"idle", "update", "clear"}]
      /\ \A r \in ReqIds : Exists(r) <=> req[r] \in Request
  BY DEF TypeInv, TypeOK, LifeInv, Exists, NoReq, Request, Statuses, ActiveStatuses, TerminalStatuses
<1>2. ASSUME UNCHANGED <<req, due, trig, batch, cancel, failing, cycled>>
      PROVE  UNCHANGED Lifecycle!vars
  BY <1>2, HeldFrame, RefinesStutter
<1>3. ASSUME NEW n \in Nodes, NEW img \in Images, NEW sched \in BOOLEAN, NEW opts \in OptSets,
             NEW force \in BOOLEAN, CreateChecks(n, img, sched, opts, force)
      PROVE  Lifecycle!Next
  <2> DEFINE new == [node |-> n, image |-> img, scheduled |-> sched, opts |-> opts,
                     status |-> "checked"]
  <2>1. new \in Request /\ new.status = "checked"
    BY ReimageAssumption DEF Request, Statuses
  <2>2. PICK q \in ReqIds : IsNext(q) /\ req' = [req EXCEPT ![q] = new]
    BY <1>3 DEF CreateChecks
  <2>3. UNCHANGED <<due, trig, batch, cancel, failing, cycled>>
    BY <1>3 DEF CreateChecks
  <2> HIDE DEF new
  <2> QED
    BY <2>1, <2>2, <2>3, Accepts DEF IsNext
<1>4. ASSUME NEW r \in ReqIds, RetryChecks(r) PROVE Lifecycle!Next
  <2> DEFINE new == [req[r] EXCEPT !.scheduled = FALSE, !.opts = @ \ {"bios"}, !.status = "checked"]
  <2>1. req[r] \in Request
    BY <1>1, <1>4 DEF RetryChecks, NoReq
  <2>2. new \in Request /\ new.status = "checked"
    BY <2>1 DEF Request, Statuses
  <2>3. PICK q \in ReqIds : IsNext(q) /\ req' = [req EXCEPT ![q] = new]
    BY <1>4 DEF RetryChecks
  <2>4. UNCHANGED <<due, trig, batch, cancel, failing, cycled>>
    BY <1>4 DEF RetryChecks
  <2> HIDE DEF new
  <2> QED
    BY <2>2, <2>3, <2>4, Accepts DEF IsNext
<1>5. ASSUME NEW q \in ReqIds, InsertRequest(q) PROVE Lifecycle!Next
  <2>1. /\ req[q].status = "checked" /\ Exists(q) /\ SetStatus(q, "pending")
        /\ UNCHANGED <<due, batch, cancel, failing, cycled>>
    BY <1>5 DEF InsertRequest, Exists
  <2>2. Stat[q] = "checked" /\ Stat' = [Stat EXCEPT ![q] = "pending"] /\ Later' = Later /\ Ripe' = Ripe
    BY <2>1, StatWritten DEF Stat, Ripe, Statuses, ActiveStatuses
  <2>3. trig[q] = "idle" /\ cancel[q] = "idle" /\ q \notin batch \cup failing
    BY <1>1, <2>1 DEF OnlyRows, Worked, InDB, ActiveStatuses, TerminalStatuses
  <2>4. q \in Later <=> req[q].scheduled
    BY <2>1 DEF Later
  <2>5. Held(q)' = IF q \in Later THEN {} ELSE {"trigger"}
    <3>1. trig'[q] = IF q \in Later THEN "idle" ELSE "resolve"
      BY <1>1, <1>5, <2>3, <2>4 DEF InsertRequest
    <3> QED
      BY <2>1, <2>3, <3>1 DEF Held, WorksOn
  <2>6. \A r \in ReqIds \ {q} : Held(r)' = Held(r)
    BY <1>1, <1>5, <2>1, HeldFrame DEF InsertRequest
  <2>7. Grip' = [Grip EXCEPT ![q] = IF q \in Later THEN {} ELSE {"trigger"}]
    BY <2>5, <2>6 DEF Grip
  <2>8. Lifecycle!Insert(q)
    BY <2>1, <2>2, <2>7 DEF Lifecycle!Insert, Stat, Later, Ripe, Grip, Held
  <2> QED
    BY <2>8 DEF Lifecycle!Next
<1>6. ASSUME NEW q \in ReqIds, UNCHANGED <<trig, batch, failing>>, NEW s \in {"idle", "update", "clear"},
             cancel' = [cancel EXCEPT ![q] = s]
      PROVE  /\ Held(q)' = (Held(q) \ {"cancel"}) \cup (IF s = "update" THEN {"cancel"} ELSE {})
             /\ "cancel" \in Held(q) <=> cancel[q] = "update"
             /\ \A r \in ReqIds \ {q} : Held(r)' = Held(r)
  <2>1. cancel'[q] = s /\ \A r \in ReqIds \ {q} : cancel'[r] = cancel[r]
    BY <1>1, <1>6
  <2>2. \A r \in ReqIds \ {q} : Held(r)' = Held(r)
    BY <1>6, <2>1, HeldFrame
  <2> QED
    BY <1>6, <2>1, <2>2 DEF Held, WorksOn
<1>7. ASSUME NEW q \in ReqIds, CancelReads(q) PROVE Lifecycle!Next
  <2>1. \A r \in ReqIds : Held(r)' = IF r \in {q} THEN Held(r) \cup {"cancel"} ELSE Held(r)
    BY <1>6, <1>7 DEF CancelReads
  <2>2. req[q].status \in ActiveStatuses /\ UNCHANGED <<req, due, cycled>>
    BY <1>7 DEF CancelReads
  <2> QED
    BY <2>1, <2>2, Takes
<1>8. ASSUME NEW q \in ReqIds, CancelUpdates(q) PROVE Lifecycle!Next
  <2>1. /\ "cancel" \in Held(q) /\ Held(q)' = Held(q) \ {"cancel"}
        /\ \A r \in ReqIds \ {q} : Held(r)' = Held(r)
    BY <1>6, <1>8 DEF CancelUpdates
  <2>2. Exists(q) /\ SetStatus(q, "canceled") /\ UNCHANGED <<due, cycled>>
    BY <1>8 DEF CancelUpdates, TypeInv, Unborn
  <2> QED
    BY <2>1, <2>2, Writes
<1>9. ASSUME NEW q \in ReqIds, CancelClears(q) \/ CancelAborts(q)
      PROVE  Lifecycle!Next \/ UNCHANGED Lifecycle!vars
  <2>1. UNCHANGED <<req, due, trig, batch, failing, cycled>> /\ cancel' = [cancel EXCEPT ![q] = "idle"]
    BY <1>9 DEF CancelClears, CancelAborts
  <2>2. /\ Held(q)' = Held(q) \ {"cancel"}
        /\ \A r \in ReqIds \ {q} : Held(r)' = Held(r)
    BY <1>6, <2>1
  <2>3. CASE "cancel" \in Held(q)
    BY <2>1, <2>2, <2>3, Releases
  <2>4. CASE "cancel" \notin Held(q)
    BY <2>1, <2>2, <2>4, RefinesStutter
  <2> QED
    BY <2>3, <2>4
<1>10. CASE BulkUpdates
  <2> DEFINE S == {r \in ReqIds : req[r].status \in ActiveStatuses}
  <2>1. \A r \in S : req[r].status \in ActiveStatuses /\ req[r] \in Request
    BY <1>1 DEF Exists, ActiveStatuses
  <2>2. req' = [r \in ReqIds |-> IF r \in S THEN [req[r] EXCEPT !.status = "canceled"] ELSE req[r]]
    BY <1>10 DEF BulkUpdates
  <2>3. UNCHANGED <<due, cycled>> /\ \A r \in ReqIds : Held(r)' = Held(r)
    BY <1>10, HeldFrame DEF BulkUpdates
  <2> HIDE DEF S
  <2>4. S \in SUBSET ReqIds
    BY DEF S
  <2> QED
    BY <2>1, <2>2, <2>3, <2>4, Closes DEF TerminalStatuses
<1> QED
  BY <1>2, <1>3, <1>4, <1>5, <1>7, <1>8, <1>9, <1>10
     DEF Operator, AssignImage, BulkReads, BulkClears, BulkAborts
(* Trigger: it starts the machine once, marks what it has started, or fails; the steps     *)
(* before the BMC call and the best-effort boot order stutter.                             *)
LEMMA RefinesTrigger ==
    ASSUME TypeInv, CycleInv, LifeInv, NEW q \in ReqIds, Trigger(q)
    PROVE  Lifecycle!Next \/ UNCHANGED Lifecycle!vars
<1> USE DEF dbVars, srvVars, calls, histVars
<1>1. trig \in [ReqIds -> TrigStages] /\ cycled \in [ReqIds -> Nat] /\ batch \subseteq ReqIds
  BY DEF TypeInv, TypeOK
<1>2. trig[q] # "idle"
  BY DEF Trigger, TriggerAssigns, TriggerFlags, TriggerSetsNextBoot, TriggerCycles,
         TriggerMarks, TriggerFails, TriggerGivesUp
<1>3. Exists(q) /\ (q \in batch => ByScheduler(q))
  <2>1. Exists(q)
    BY <1>2 DEF TypeInv, Unborn
  <2>2. Sound(q)
    BY <2>1 DEF CycleInv
  <2> QED
    BY <1>2, <2>1, <2>2 DEF Sound
<1>4. UNCHANGED <<due, cancel, failing>> /\ \A r \in ReqIds \ {q} : trig'[r] = trig[r]
  BY <1>1 DEF Trigger, TriggerAssigns, TriggerFlags, TriggerSetsNextBoot, TriggerCycles,
         TriggerMarks, TriggerFails, TriggerGivesUp, GoOn, Return
<1>5. /\ "trigger" \in Held(q) <=> trig[q] # "mark"
      /\ "mark" \in Held(q) <=> trig[q] = "mark"
  BY <1>2 DEF Held, WorksOn
<1>6. ASSUME NEW s \in TrigStages \ {"idle"}, GoOn(q, s)
      PROVE  /\ \A r \in ReqIds \ {q} : Held(r)' = Held(r)
             /\ s = "mark" /\ trig[q] # "mark" => Held(q)' = (Held(q) \ {"trigger"}) \cup {"mark"}
             /\ s # "mark" /\ trig[q] # "mark" => Held(q)' = Held(q)
  <2>1. trig'[q] = s /\ batch' = batch
    BY <1>1, <1>6 DEF GoOn
  <2>2. \A r \in ReqIds \ {q} : Held(r)' = Held(r)
    BY <1>4, <2>1, HeldFrame
  <2> QED
    BY <1>2, <1>4, <1>6, <2>1, <2>2 DEF Held, WorksOn
<1>7. ASSUME Return(q), NEW h, h = IF trig[q] = "mark" THEN "mark" ELSE "trigger"
      PROVE  /\ h \in Held(q) /\ Held(q)' = Held(q) \ {h}
             /\ \A r \in ReqIds \ {q} : Held(r)' = Held(r)
  <2>1. trig'[q] = "idle" /\ q \notin batch' /\ \A r \in ReqIds \ {q} : r \in batch' <=> r \in batch
    BY <1>1, <1>3, <1>7 DEF Return
  <2>2. \A r \in ReqIds \ {q} : Held(r)' = Held(r)
    BY <1>4, <2>1, HeldFrame
  <2> QED
    BY <1>2, <1>4, <1>5, <1>7, <2>1, <2>2 DEF Held, WorksOn
<1>8. CASE TriggerAssigns(q) \/ TriggerSetsNextBoot(q)
  <2>1. trig[q] # "mark" /\ UNCHANGED <<req, cycled>> /\ \E s \in {"flag", "cycle"} : GoOn(q, s)
    BY <1>8 DEF TriggerAssigns, TriggerSetsNextBoot
  <2> QED
    BY <1>4, <1>6, <2>1, RefinesStutter DEF TrigStages
<1>9. ASSUME trig[q] # "mark", GoOn(q, "mark"), UNCHANGED req,
             \E k \in {0, 1} : cycled' = [cycled EXCEPT ![q] = @ + k]
      PROVE  Lifecycle!Next
  <2>1. Stat' = Stat /\ Later' = Later /\ Ripe' = Ripe
    BY <1>4, <1>9 DEF Stat, Later, Ripe, Exists
  <2>2. Grip' = [Grip EXCEPT ![q] = (@ \ {"trigger"}) \cup {"mark"}] /\ "trigger" \in Grip[q]
    BY <1>5, <1>6, <1>9 DEF Grip, TrigStages
  <2>3. Lifecycle!Start(q)
    BY <1>9, <2>1, <2>2 DEF Lifecycle!Start, Stat, Later, Ripe, Grip, Held
  <2> QED
    BY <2>3 DEF Lifecycle!Next
<1>10. CASE TriggerFlags(q)
  <2>1. trig[q] # "mark" /\ UNCHANGED <<req, cycled>>
    BY <1>10 DEF TriggerFlags
  <2>2. cycled' = [cycled EXCEPT ![q] = @ + 0]
    BY <1>1, <2>1
  <2> QED
    BY <1>4, <1>6, <1>9, <1>10, <2>1, <2>2, RefinesStutter DEF TriggerFlags, TrigStages
<1>11. CASE TriggerCycles(q)
  BY <1>9, <1>11 DEF TriggerCycles, PowerCycle
<1>12. CASE TriggerMarks(q)
  <2>1. SetStatus(q, "triggered") /\ UNCHANGED cycled /\ trig[q] = "mark" /\ Return(q)
    BY <1>12 DEF TriggerMarks
  <2> QED
    BY <1>3, <1>4, <1>7, <2>1, Writes
<1>13. CASE TriggerFails(q)
  <2>1. /\ SetStatus(q, "failed") /\ trig[q] # "mark" /\ Return(q)
        /\ cycled' = cycled \/ cycled' = [cycled EXCEPT ![q] = @ + 1]
    BY <1>13 DEF TriggerFails, PowerCycle
  <2> QED
    BY <1>3, <1>4, <1>7, <2>1, Writes
<1>14. CASE TriggerGivesUp(q)
  BY <1>4, <1>7, <1>14, Releases DEF TriggerGivesUp
<1> QED
  BY <1>8, <1>10, <1>11, <1>12, <1>13, <1>14 DEF Trigger

(* The scheduler takes what is due; that it calls Trigger then is no news.                 *)
LEMMA RefinesScheduler ==
    ASSUME TypeInv, CycleInv, LifeInv, Scheduler
    PROVE  Lifecycle!Next \/ UNCHANGED Lifecycle!vars
<1> USE DEF dbVars, srvVars, calls, histVars
<1>1. /\ trig \in [ReqIds -> TrigStages] /\ due \in [ReqIds -> Nat]
      /\ UNCHANGED <<req, cancel, failing, cycled>>
  BY DEF TypeInv, TypeOK, Scheduler, SchedulerTicks, SchedulerTriggers, FallsDue
<1>2. CASE SchedulerTicks
  <2>1. batch = {} /\ batch' \subseteq PendingDue /\ UNCHANGED <<due, trig>>
    BY <1>2 DEF SchedulerTicks
  <2>2. ASSUME NEW r \in batch'
        PROVE  /\ r \in ReqIds /\ due[r] # 0 /\ req[r].status = "pending" /\ trig[r] = "idle"
               /\ "mark" \notin Held(r)
    <3>1. r \in ReqIds /\ due[r] # 0 /\ req[r].status = "pending" /\ Exists(r)
      BY <2>1, <2>2 DEF PendingDue, Exists
    <3>2. Sound(r)
      BY <3>1 DEF CycleInv
    <3>3. trig[r] = "idle"
      BY <2>1, <3>1, <3>2 DEF Sound, ByScheduler
    <3> QED
      BY <3>1, <3>3 DEF Held, WorksOn
  <2>3. \A r \in ReqIds : Held(r)' = IF r \in batch' THEN Held(r) \cup {"trigger"} ELSE Held(r)
    BY <1>1, <2>1, <2>2 DEF Held, WorksOn
  <2>4. batch' \in SUBSET ReqIds /\ \A r \in batch' : req[r].status \in ActiveStatuses
    BY <2>2 DEF ActiveStatuses
  <2> DEFINE S == batch'
  <2>5. /\ S \in SUBSET ReqIds /\ \A r \in S : /\ req[r].status \in ActiveStatuses
                                           /\ due[r] # 0 /\ req[r].status = "pending"
                                           /\ "mark" \notin Held(r)
        /\ \A r \in ReqIds : Held(r)' = IF r \in S THEN Held(r) \cup {"trigger"} ELSE Held(r)
    BY <2>2, <2>3, <2>4
  <2> HIDE DEF S
  <2> QED
    BY <1>1, <2>1, <2>5, Takes
<1>3. CASE SchedulerTriggers
  <2>1. PICK q \in ReqIds : ByScheduler(q) /\ trig[q] = "idle" /\ trig' = [trig EXCEPT ![q] = "resolve"]
    BY <1>3 DEF SchedulerTriggers
  <2>2. UNCHANGED <<due, batch>>
    BY <1>3 DEF SchedulerTriggers
  <2>3. trig'[q] = "resolve" /\ q \in batch /\ \A r \in ReqIds \ {q} : trig'[r] = trig[r]
    BY <1>1, <2>1 DEF ByScheduler
  <2>4. Held(q)' = Held(q)
    BY <1>1, <2>1, <2>2, <2>3 DEF Held, WorksOn
  <2>5. \A r \in ReqIds \ {q} : Held(r)' = Held(r)
    BY <1>1, <2>2, <2>3, HeldFrame
  <2> QED
    BY <1>1, <2>2, <2>4, <2>5, RefinesStutter
<1>4. ASSUME NEW q \in ReqIds, FallsDue(q) PROVE Lifecycle!Next
  <2>1. /\ req[q].status = "pending" /\ req[q].scheduled /\ due[q] = 0 /\ UNCHANGED <<trig, batch>>
        /\ due' = [due EXCEPT ![q] = 1 + Cardinality({x \in ReqIds : due[x] # 0})]
    BY <1>4 DEF FallsDue
  <2>2. Cardinality({x \in ReqIds : due[x] # 0}) \in Nat
    <3>1. IsFiniteSet(ReqIds)
      BY ReimageAssumption, FS_Interval DEF ReqIds
    <3> QED
      BY <3>1, FS_Subset, FS_CardinalityType
  <2>3. due'[q] # 0 /\ \A r \in ReqIds \ {q} : due'[r] = due[r]
    BY <1>1, <2>1, <2>2
  <2>4. Stat[q] = "pending" /\ q \in Later \ Ripe /\ Ripe' = Ripe \cup {q}
    BY <2>1, <2>3 DEF Stat, Later, Ripe, Exists
  <2>5. Stat' = Stat /\ Later' = Later /\ Grip' = Grip
    BY <1>1, <2>1, HeldFrame DEF Stat, Later, Grip, Exists
  <2>6. Lifecycle!Ripen(q)
    BY <1>1, <2>4, <2>5 DEF Lifecycle!Ripen, Stat, Later, Ripe, Grip, Held
  <2> QED
    BY <2>6 DEF Lifecycle!Next
<1> QED
  BY <1>2, <1>3, <1>4 DEF Scheduler
(* Callbacks: a report takes the newest active request, writes it or lets it go; the       *)
(* closing statement closes what is open; the rest is no news.                             *)
LEMMA RefinesCallback ==
    ASSUME TypeInv, LifeInv, NEW n \in Nodes, Callback(n)
    PROVE  Lifecycle!Next \/ UNCHANGED Lifecycle!vars
<1> USE DEF dbVars, srvVars, calls, histVars
<1>1. UNCHANGED <<due, trig, batch, cancel, cycled>> /\ OneReport
      /\ failing \subseteq ReqIds /\ \A r \in failing : Exists(r)
  BY DEF Callback, RecordDeploySucceeded, RecordDeployFailed, RecordVerifyBooted, FailureReads,
     FailureUpdates, ClosesRequests, VerifyFlips, HandlerAborts, LifeInv, TypeInv, TypeOK, Unborn
<1>2. ASSUME NEW s \in HandlerStages, Serve(n, s), handler[n] # "failedUpdate"
      PROVE  failing' = failing /\ \A r \in ReqIds : Held(r)' = Held(r)
  <2>1. \A r \in failing : NodeOf(r) # n
    BY <1>1, <1>2 DEF OneReport
  <2>2. failing' = failing
    BY <1>2, <2>1 DEF Serve, NodeOf
  <2> QED
    BY <1>1, <2>2, HeldFrame
<1>3. ASSUME NEW s \in HandlerStages, Serve(n, s), NEW r \in failing, NodeOf(r) = n
      PROVE  /\ r \in ReqIds /\ "report" \in Held(r) /\ Held(r)' = Held(r) \ {"report"}
             /\ \A q \in ReqIds \ {r} : Held(q)' = Held(q)
  <2>1. failing' = failing \ {r}
    BY <1>1, <1>3 DEF Serve, NodeOf, OneReport
  <2>2. \A q \in ReqIds \ {r} : Held(q)' = Held(q)
    BY <1>1, <2>1, HeldFrame
  <2> QED
    BY <1>1, <2>1, <2>2 DEF Held, WorksOn
<1>4. CASE RecordDeploySucceeded(n) \/ RecordDeployFailed(n) \/ RecordVerifyBooted(n) \/ VerifyFlips(n)
  <2>1. UNCHANGED req /\ handler[n] # "failedUpdate" /\ \E s \in HandlerStages : Serve(n, s)
    BY <1>4 DEF RecordDeploySucceeded, RecordDeployFailed, RecordVerifyBooted, VerifyFlips, HandlerStages
  <2> QED
    BY <1>1, <1>2, <2>1, RefinesStutter
<1>5. CASE FailureReads(n)
  <2>1. UNCHANGED req /\ handler[n] = "failedRead"
    BY <1>5 DEF FailureReads
  <2>2. CASE Serve(n, "failedClose")
    BY <1>1, <1>2, <2>1, <2>2, RefinesStutter DEF HandlerStages
  <2>3. ASSUME NEW r \in Active(n), failing' = failing \cup {r} PROVE Lifecycle!Next
    <3>1. r \in ReqIds /\ req[r].status \in ActiveStatuses
      BY DEF Active
    <3>2. \A q \in ReqIds : Held(q)' = IF q \in {r} THEN Held(q) \cup {"report"} ELSE Held(q)
      BY <1>1, <2>3 DEF Held, WorksOn
    <3> QED
      BY <1>1, <2>1, <3>1, <3>2, Takes
  <2> QED
    BY <1>5, <2>2, <2>3 DEF FailureReads
<1>6. CASE FailureUpdates(n)
  <2>1. PICK r \in failing : NodeOf(r) = n /\ SetStatus(r, "failed")
    BY <1>6 DEF FailureUpdates, NodeOf
  <2>2. Serve(n, "failedClose")
    BY <1>6 DEF FailureUpdates
  <2>3. /\ r \in ReqIds /\ "report" \in Held(r) /\ Held(r)' = Held(r) \ {"report"}
        /\ \A q \in ReqIds \ {r} : Held(q)' = Held(q)
    BY <1>3, <2>1, <2>2 DEF HandlerStages
  <2> QED
    BY <1>1, <2>1, <2>3, Writes
<1>7. CASE ClosesRequests(n)
  <2>1. handler[n] # "failedUpdate" /\ \E s \in HandlerStages : Serve(n, s)
    BY <1>7 DEF ClosesRequests, HandlerStages
  <2>2. CASE UNCHANGED req
    BY <1>1, <1>2, <2>1, <2>2, RefinesStutter
  <2>3. ASSUME NEW s \in TerminalStatuses, CloseActive(n, s) PROVE Lifecycle!Next
    <3>1. /\ Active(n) \in SUBSET ReqIds
          /\ \A r \in Active(n) : req[r].status \in ActiveStatuses /\ req[r] \in Request
      BY DEF Active, TypeInv, TypeOK, Exists, NoReq
    <3>2. \A r \in ReqIds : Held(r)' = Held(r)
      BY <1>2, <2>1
    <3> QED
      BY <1>1, <2>3, <3>1, <3>2, Closes DEF CloseActive
  <2> QED
    BY <1>7, <2>2, <2>3 DEF ClosesRequests, TerminalStatuses
<1>8. CASE HandlerAborts(n)
  <2>1. Serve(n, "idle") /\ UNCHANGED req /\ "idle" \in HandlerStages
    BY <1>8 DEF HandlerAborts, HandlerStages
  <2>2. ASSUME NEW r \in failing, NodeOf(r) = n PROVE Lifecycle!Next
    BY <1>1, <1>3, <2>1, <2>2, Releases
  <2>3. CASE \A r \in failing : NodeOf(r) # n
    <3>1. failing' = failing
      BY <2>1, <2>3 DEF Serve, NodeOf
    <3> QED
      BY <1>1, <2>1, <3>1, HeldFrame, RefinesStutter
  <2> QED
    BY <2>2, <2>3
<1> QED
  BY <1>4, <1>5, <1>6, <1>7, <1>8 DEF Callback

(* The workers and the machines are no news; a restart takes everything out of hands.      *)
LEMMA RefinesOthers ==
    ASSUME TypeInv, LifeInv,
           Reaper \/ Scanner \/ ServerRestarts \/ \E n \in Nodes : Machine(n)
    PROVE  Lifecycle!Next \/ UNCHANGED Lifecycle!vars
<1>1. CASE Reaper \/ Scanner
  <2>1. UNCHANGED <<req, due, trig, batch, cancel, failing, cycled>>
    BY <1>1 DEF Reaper, ReaperLists, ReaperChecks, ReaperClears, Scanner, ScannerLists,
       ScannerStamps, ScannerFlips, dbVars, calls, histVars
  <2> QED
    BY <2>1, HeldFrame, RefinesStutter
<1>2. ASSUME NEW n \in Nodes, Machine(n) PROVE UNCHANGED Lifecycle!vars
  <2>1. UNCHANGED <<req, due, trig, batch, cancel, cycled>>
    BY <1>2, MachineFrame
  <2>2. failing' = failing
    <3>1. CASE handler[n] = "idle" /\ \E s \in HandlerStages : Serve(n, s)
      BY <2>1, <3>1, ServeReports DEF LifeInv, NodeOf
    <3> QED
      BY <1>2, <3>1, MachineFrame
  <2> QED
    BY <2>1, <2>2, HeldFrame, RefinesStutter
<1>3. CASE ServerRestarts
  <2>1. \A r \in ReqIds : req[r] \in Request \/ req[r] = NoReq
    BY DEF TypeInv, TypeOK
  <2>2. \A r \in ReqIds :
           /\ req'[r].status = IF req[r].status = "checked" THEN "dropped" ELSE req[r].status
           /\ Exists(r)' <=> Exists(r)
           /\ Exists(r) => req'[r].scheduled = req[r].scheduled
    BY <1>3, <2>1 DEF ServerRestarts, Exists, Request, NoReq
  <2>3. UNCHANGED <<due, cycled>> /\ \A r \in ReqIds : Held(r)' = {}
    BY <1>3 DEF ServerRestarts, Held, WorksOn
  <2>4. Stat' = [r \in ReqIds |-> IF Stat[r] = "checked" THEN "dropped" ELSE Stat[r]]
    BY <2>2 DEF Stat
  <2>5. Later' = Later /\ Ripe' = Ripe /\ Grip' = [r \in ReqIds |-> {}]
    BY <2>2, <2>3 DEF Later, Ripe, Grip
  <2>6. Lifecycle!Crash
    BY <2>3, <2>4, <2>5 DEF Lifecycle!Crash, Stat, Later, Ripe, Grip, Held
  <2> QED
    BY <2>6 DEF Lifecycle!Next
<1> QED
  BY <1>1, <1>2, <1>3

(* For any nodes, requests, operator activity and faults: a request lives as those who     *)
(* make it may expect.  It is closed for good, but for a call that has had it in hands     *)
(* since it was open; its machine is cycled once per time it is taken in hands; it is not  *)
(* taken before its time, nor while Trigger still has it.                                  *)
THEOREM FollowsLifecycle == Spec => LifecycleSpec
<1>1. Init => LifeInv /\ Lifecycle!Init
  BY LifeInit, RefinesInit
<1>2. ASSUME TypeInv, CycleInv, LifeInv, [Next]_vars
      PROVE  Lifecycle!Next \/ UNCHANGED Lifecycle!vars
  <2>1. CASE UNCHANGED vars
    BY <2>1, HeldFrame, RefinesStutter DEF vars
  <2> QED
    BY <1>2, <2>1, RefinesOperator, RefinesTrigger, RefinesScheduler, RefinesCallback, RefinesOthers DEF Next
<1>3. TypeInv /\ CycleInv /\ LifeInv /\ [Next]_vars => [Lifecycle!Next]_(Lifecycle!vars)
  BY <1>2
<1> QED
  BY <1>1, <1>3, LifeStep, CycleInvariant, PTL DEF Spec, LifecycleSpec, Lifecycle!Spec
=============================================================================
