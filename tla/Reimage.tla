------------------------------ MODULE Reimage ------------------------------
(***************************************************************************)
(* Reimaging one node at a time: reimage_requests and node_configs rows,   *)
(* the operator's HTTP handlers, Orchestrator.Trigger, the scheduler, the  *)
(* reimage_pending reaper, the verify-boot scanner, PXE boot routing, the  *)
(* deploy agent in the initramfs and the deployed OS that phones home.     *)
(*                                                                         *)
(* Every SQL statement is one atomic step (the pool has one connection and *)
(* no transaction spans two of these statements); the goroutine that runs  *)
(* several of them can be overtaken by any other between two of them.      *)
(***************************************************************************)
EXTENDS NodeState, Integers, FiniteSets

CONSTANTS
    Nodes,          \* registered nodes, each with a power provider
    Proxmox,        \* those whose provider commits a boot order by stop+start
    NReqs,          \* bound: the requests an instance may create
    Activity,       \* the operator calls, machine events and workers an instance exercises
    LdapProbes,     \* what a phone-home may report of sssd; {} when LDAP is off
    OptSets,        \* the option sets a request may carry
    MaxConcurrent,  \* CLUSTR_REIMAGE_MAX_CONCURRENT
    FaultKinds,     \* what may go wrong: a server restart, a dropped operator or node
                    \* connection, a statement the database refuses
    MaxFaults       \* bound: how often it may

ASSUME ReimageAssumption ==
    /\ NReqs \in Nat
    /\ Proxmox \subseteq Nodes
    /\ OptSets \subseteq SUBSET {"dry", "bios"}
    /\ LdapProbes \subseteq {"ready", "broken"}
    /\ MaxConcurrent \in Nat \ {0}
    /\ FaultKinds \subseteq {"restart", "operator", "node", "write"}
    /\ MaxFaults \in Nat

ReqIds == 1..NReqs    \* in creation order

VARIABLES
    node,     \* [Nodes -> NodeRow], table node_configs
    req,      \* [ReqIds -> Request], table reimage_requests
    due,      \* [ReqIds -> Nat], 0 until scheduled_at passes, then its place in that order
    trig,     \* [ReqIds -> TrigStage], the Trigger call running for a request
    batch,    \* what runScheduled still has to trigger this tick
    cancel,   \* [ReqIds -> stage], Cancel / CancelActiveForNode calls
    bulk,     \* the CancelAllActiveReimages call
    reap,     \* [Nodes -> stage], the reaper's pass
    scan,     \* [Nodes -> stage], the verify-boot scanner's pass
    handler,  \* [Nodes -> stage], the node callback being served
    failing,  \* requests DeployFailed has read as the active one and not updated
    host,     \* [Nodes -> Host], the physical machines
    faults,   \* faults so far
    cycled,   \* history: power cycles issued for a request
    wanted,   \* history: someone asked for a deploy, or one failed, since the last success
    rivals    \* history: [ReqIds -> SUBSET ReqIds], whom the check let a request in beside

dbVars   == <<node, req>>
calls    == <<handler, failing>>
srvVars  == <<trig, batch, cancel, bulk, reap, scan, calls>>
histVars == <<faults, cycled, wanted, rivals>>
vars     == <<node, req, due, trig, batch, cancel, bulk, reap, scan, handler, failing, host,
              faults, cycled, wanted, rivals>>

ActiveStatuses   == {"pending", "triggered"}
TerminalStatuses == {"complete", "failed", "canceled"}
\* "checked": the handler passed its checks, the row is not inserted yet; "dropped": the
\* server died before it was.
Statuses == {"checked", "dropped"} \cup ActiveStatuses \cup TerminalStatuses

TrigStages    == {"idle", "resolve", "flag", "nextboot", "cycle", "mark"}
HandlerStages == {"idle", "complete", "completeClose", "failed", "failedRead", "failedUpdate",
                  "failedClose", "verify", "verifyClose", "verifyFlip"}
HostPlaces    == {"booting", "initramfs", "waiting", "writing", "written", "posted", "stuck", "os"}
Blank         == "blank"    \* a disk without a bootable system

\* A request that exists at all: its immutable columns and its status.
Request == [node : Nodes, image : Images, scheduled : BOOLEAN,
            opts : SUBSET {"dry", "bios"}, status : Statuses]
NoReq == [status |-> "none"]
Host  == [at : HostPlaces, order : {"any", "pxe", "disk"},
          disk : Images \cup {Blank}, img : Images \cup {NoImage}]

\* The scheduler, not an operator's call, is triggering r.
ByScheduler(r) == r \in batch /\ \A q \in batch : due[r] <= due[q]
Exists(r) == req[r].status # "none"
InDB(r)   == req[r].status \in ActiveStatuses \cup TerminalStatuses
Active(n) == {r \in ReqIds : Exists(r) /\ req[r].node = n /\ req[r].status \in ActiveStatuses}
\* GetActiveReimageForNode: ORDER BY created_at DESC LIMIT 1.
Newest(n) == CHOOSE r \in Active(n) : \A q \in Active(n) : q <= r

SetStatus(r, s) == req' = [req EXCEPT ![r].status = s]
\* Mutant: the WHERE clause loses its status filter.
CloseActive_AnyStatus(n, s) ==
    req' = [r \in ReqIds |-> IF InDB(r) /\ req[r].node = n THEN [req[r] EXCEPT !.status = s]
                                                           ELSE req[r]]
\* CloseActiveReimagesForNode: every non-terminal row of the node.
CloseActive(n, s) ==
    req' = [r \in ReqIds |-> IF r \in Active(n) THEN [req[r] EXCEPT !.status = s] ELSE req[r]]
SetPending(n, b) == node' = [node EXCEPT ![n].pending = b]

\* One of the bounded number of things that go wrong.
Fault(kind) == kind \in FaultKinds /\ faults < MaxFaults /\ faults' = faults + 1

\* The machine is reset: an image half on disk does not boot.
Reset(h) == [h EXCEPT !.at = "booting", !.img = NoImage,
                      !.disk = IF h.at = "writing" THEN Blank ELSE h.disk]
\* SetNextBoot / SetPersistentBootOrder: both providers set the order for good, and Proxmox
\* also stops and starts a running machine.
SetOrder(n, h, o) == IF n \in Proxmox THEN [Reset(h) EXCEPT !.order = o]
                                      ELSE [h EXCEPT !.order = o]

Init ==
    /\ node = [n \in Nodes |-> NewNodeRow]
    /\ req = [r \in ReqIds |-> NoReq]
    /\ due = [r \in ReqIds |-> 0]
    /\ trig = [r \in ReqIds |-> "idle"]
    /\ batch = {}
    /\ cancel = [r \in ReqIds |-> "idle"]
    /\ bulk = [stage |-> "idle", nodes |-> {}]
    /\ reap = [n \in Nodes |-> "idle"]
    /\ scan = [n \in Nodes |-> "idle"]
    /\ handler = [n \in Nodes |-> "idle"]
    /\ failing = {}
    /\ host = [n \in Nodes |-> [at |-> "booting", order |-> "any", disk |-> Blank, img |-> NoImage]]
    /\ faults = 0
    /\ cycled = [r \in ReqIds |-> 0]
    /\ wanted = [n \in Nodes |-> TRUE]
    /\ rivals = [r \in ReqIds |-> {}]
-----------------------------------------------------------------------------
(* Operator calls: handlers/reimage.go, handlers/nodes.go.                 *)

\* UpdateNode: the operator assigns a base image, or takes it away.
AssignImage(n, img) ==
    /\ "assign" \in Activity
    /\ node[n].image # img
    /\ node' = [node EXCEPT ![n].image = img]
    /\ UNCHANGED <<req, due, srvVars, host, histVars>>

\* Unless calls may overlap, an operator waits for one call before the next.
OperatorFree ==
    "parallel" \in Activity \/
        /\ \A r \in ReqIds : /\ cancel[r] = "idle"
                             /\ req[r].status # "checked"
                             /\ trig[r] = "idle" \/ ByScheduler(r)
        /\ bulk.stage = "idle"
IsNext(r) == ~Exists(r) /\ \A q \in ReqIds : q < r => Exists(q)

\* Requests of n that a handler is about to insert, or that Trigger or the scheduler holds.
Underway(n) == {q \in ReqIds : /\ Exists(q) /\ req[q].node = n
                               /\ req[q].status = "checked" \/ trig[q] # "idle" \/ q \in batch}

\* Mutant: nobody looks for an active request.
CreateChecks_Unchecked(n, img, scheduled, opts, force) ==
    /\ "create" \in Activity
    /\ OperatorFree
    /\ scheduled => "schedule" \in Activity
    /\ force => "force" \in Activity
    /\ \E r \in ReqIds :
          /\ IsNext(r)
          /\ req' = [req EXCEPT ![r] = [node |-> n, image |-> img, scheduled |-> scheduled,
                                       opts |-> opts, status |-> "checked"]]
          /\ rivals' = [rivals EXCEPT ![r] = Underway(n) \cup IF force THEN Active(n) ELSE {}]
    /\ UNCHANGED <<node, due, srvVars, host, faults, cycled, wanted>>

\* Create, up to the checks: without force, no active request may exist. The request
\* takes its place in creation order here.
CreateChecks(n, img, scheduled, opts, force) ==
    /\ "create" \in Activity
    /\ OperatorFree
    /\ scheduled => "schedule" \in Activity
    /\ force => "force" \in Activity
    /\ force \/ Active(n) = {}
    /\ \E r \in ReqIds :
          /\ IsNext(r)
          /\ req' = [req EXCEPT ![r] = [node |-> n, image |-> img, scheduled |-> scheduled,
                                       opts |-> opts, status |-> "checked"]]
          /\ rivals' = [rivals EXCEPT ![r] = Underway(n) \cup IF force THEN Active(n) ELSE {}]
    /\ UNCHANGED <<node, due, srvVars, host, faults, cycled, wanted>>

\* Retry of a failed request: the clone keeps dry_run and drops bios_only and the schedule.
RetryChecks(r) ==
    /\ "retry" \in Activity
    /\ OperatorFree
    /\ req[r].status = "failed"
    /\ Active(req[r].node) = {}
    /\ \E q \in ReqIds :
          /\ IsNext(q)
          /\ req' = [req EXCEPT ![q] = [req[r] EXCEPT !.scheduled = FALSE, !.opts = @ \ {"bios"},
                                                     !.status = "checked"]]
          /\ rivals' = [rivals EXCEPT ![q] = Underway(req[r].node)]
    /\ UNCHANGED <<node, due, srvVars, host, faults, cycled, wanted>>

\* Mutant: scheduled_at is ignored.
InsertRequest_AtOnce(r) ==
    /\ req[r].status = "checked"
    /\ SetStatus(r, "pending")
    /\ trig' = [trig EXCEPT ![r] = "resolve"]
    /\ UNCHANGED <<node, due, batch, cancel, bulk, reap, scan, calls, host, histVars>>

\* Create / Retry, from CreateReimageRequest on: an unscheduled request is triggered at once.
InsertRequest(r) ==
    /\ req[r].status = "checked"
    /\ SetStatus(r, "pending")
    /\ trig' = IF req[r].scheduled THEN trig ELSE [trig EXCEPT ![r] = "resolve"]
    /\ UNCHANGED <<node, due, batch, cancel, bulk, reap, scan, calls, host, histVars>>

\* Cancel reads the row and refuses a terminal one; CancelActiveForNode picks Newest(n).
CancelReads(r) ==
    /\ "cancel" \in Activity
    /\ OperatorFree
    /\ cancel[r] = "idle"
    /\ req[r].status \in ActiveStatuses
    /\ cancel' = [cancel EXCEPT ![r] = "update"]
    /\ UNCHANGED <<dbVars, due, trig, batch, bulk, reap, scan, calls, host, histVars>>

CancelUpdates(r) ==
    /\ cancel[r] = "update"
    /\ SetStatus(r, "canceled")
    /\ cancel' = [cancel EXCEPT ![r] = "clear"]
    /\ UNCHANGED <<node, due, trig, batch, bulk, reap, scan, calls, host, histVars>>

CancelClears(r) ==
    /\ cancel[r] = "clear"
    /\ SetPending(req[r].node, FALSE)
    /\ cancel' = [cancel EXCEPT ![r] = "idle"]
    /\ UNCHANGED <<req, due, trig, batch, bulk, reap, scan, calls, host, histVars>>

\* The operator's connection drops: r.Context() is canceled and every later statement fails.
CancelAborts(r) ==
    /\ cancel[r] # "idle"
    /\ Fault("operator")
    /\ cancel' = [cancel EXCEPT ![r] = "idle"]
    /\ UNCHANGED <<dbVars, due, trig, batch, bulk, reap, scan, calls, host, cycled, wanted, rivals>>

\* CancelAllActiveReimages: list the nodes, cancel every active row, clear each node's flag.
BulkReads ==
    /\ "cancelAll" \in Activity
    /\ OperatorFree
    /\ bulk.stage = "idle"
    /\ bulk' = [stage |-> "update", nodes |-> {n \in Nodes : Active(n) # {}}]
    /\ UNCHANGED <<dbVars, due, trig, batch, cancel, reap, scan, calls, host, histVars>>

BulkUpdates ==
    /\ bulk.stage = "update"
    /\ req' = [r \in ReqIds |-> IF req[r].status \in ActiveStatuses
                                THEN [req[r] EXCEPT !.status = "canceled"] ELSE req[r]]
    /\ bulk' = [bulk EXCEPT !.stage = IF bulk.nodes = {} THEN "idle" ELSE "clear"]
    /\ UNCHANGED <<node, due, trig, batch, cancel, reap, scan, calls, host, histVars>>

BulkClears(n) ==
    /\ bulk.stage = "clear"
    /\ n \in bulk.nodes
    /\ SetPending(n, FALSE)
    /\ bulk' = [stage |-> IF bulk.nodes = {n} THEN "idle" ELSE "clear", nodes |-> bulk.nodes \ {n}]
    /\ UNCHANGED <<req, due, trig, batch, cancel, reap, scan, calls, host, histVars>>

BulkAborts ==
    /\ bulk.stage # "idle"
    /\ Fault("operator")
    /\ bulk' = [stage |-> "idle", nodes |-> {}]
    /\ UNCHANGED <<dbVars, due, trig, batch, cancel, reap, scan, calls, host, cycled, wanted, rivals>>
-----------------------------------------------------------------------------
(* Orchestrator.Trigger, run by Create / Retry or by the scheduler.        *)

NodeOf(r) == req[r].node
\* The call returns; the scheduler goes on to the next request of its batch.
Return(r) == /\ trig' = [trig EXCEPT ![r] = "idle"]
             /\ batch' = IF ByScheduler(r) THEN batch \ {r} ELSE batch
GoOn(r, stage) == trig' = [trig EXCEPT ![r] = stage] /\ UNCHANGED batch

\* Load the request (whatever its status is by now), resolve the provider, UpdateNodeConfig.
TriggerAssigns(r) ==
    /\ trig[r] = "resolve"
    /\ node' = [node EXCEPT ![NodeOf(r)].image = req[r].image]
    /\ GoOn(r, "flag")
    /\ UNCHANGED <<req, due, cancel, bulk, reap, scan, calls, host, histVars>>

\* SetReimagePending(true); a dry run stops short of the BMC.
TriggerFlags(r) ==
    /\ trig[r] = "flag"
    /\ SetPending(NodeOf(r), TRUE)
    /\ wanted' = [wanted EXCEPT ![NodeOf(r)] = TRUE]
    /\ GoOn(r, IF "dry" \in req[r].opts THEN "mark" ELSE "nextboot")
    /\ UNCHANGED <<req, due, cancel, bulk, reap, scan, calls, host, faults, cycled, rivals>>

\* SetNextBoot(PXE) is best effort: it may have no effect.
TriggerSetsNextBoot(r) ==
    /\ trig[r] = "nextboot"
    /\ \E done \in BOOLEAN : host' = [host EXCEPT ![NodeOf(r)] =
                                        IF done THEN SetOrder(NodeOf(r), @, "pxe") ELSE @]
    /\ GoOn(r, "cycle")
    /\ UNCHANGED <<dbVars, due, cancel, bulk, reap, scan, calls, histVars>>

PowerCycle(r) == /\ host' = [host EXCEPT ![NodeOf(r)] = Reset(@)]
                 /\ cycled' = [cycled EXCEPT ![r] = @ + 1]

TriggerCycles(r) ==
    /\ trig[r] = "cycle"
    /\ PowerCycle(r)
    /\ GoOn(r, "mark")
    /\ UNCHANGED <<dbVars, due, cancel, bulk, reap, scan, calls, faults, wanted, rivals>>

\* The last write looks at no status: a request canceled meanwhile becomes triggered.
TriggerMarks(r) ==
    /\ trig[r] = "mark"
    /\ SetStatus(r, "triggered")
    /\ Return(r)
    /\ UNCHANGED <<node, due, cancel, bulk, reap, scan, calls, host, histVars>>

\* No provider, a failed statement, or a BMC error: the status becomes failed. The flag
\* set before stays, and a BMC that reports an error may have cycled the machine.
TriggerFails(r) ==
    /\ trig[r] \in {"resolve", "flag", "cycle"}
    /\ SetStatus(r, "failed")
    /\ Return(r)
    /\ \/ UNCHANGED <<host, cycled>>
       \/ trig[r] = "cycle" /\ PowerCycle(r)
    /\ UNCHANGED <<node, due, cancel, bulk, reap, scan, calls, faults, wanted, rivals>>

\* The caller's context is canceled (not the scheduler's: it lives as long as the server), or
\* the database refuses the write: Trigger returns and the status it meant to write is lost.
TriggerGivesUp(r) ==
    /\ trig[r] # "idle"
    /\ Fault(IF ByScheduler(r) THEN "write" ELSE "operator")
    /\ Return(r)
    /\ UNCHANGED <<dbVars, due, cancel, bulk, reap, scan, calls, host, cycled, wanted, rivals>>

\* scheduled_at passes.
FallsDue(r) ==
    /\ req[r].status = "pending"
    /\ req[r].scheduled
    /\ due[r] = 0
    /\ due' = [due EXCEPT ![r] = 1 + Cardinality({q \in ReqIds : due[q] # 0})]
    /\ UNCHANGED <<dbVars, srvVars, host, histVars>>

\* Mutant: the query returns every active request that is due.
PendingDue_Active == {r \in ReqIds : due[r] # 0 /\ req[r].status \in ActiveStatuses}

\* ListPendingScheduledRequests: ORDER BY scheduled_at.
PendingDue == {r \in ReqIds : due[r] # 0 /\ req[r].status = "pending"}
Before(r)  == {q \in PendingDue : due[q] < due[r]}

\* Mutant: the cap is off by one.
SchedulerTicks_OffByOne ==
    /\ batch = {}
    /\ PendingDue # {}
    /\ batch' = {r \in PendingDue : Cardinality(Before(r)) < MaxConcurrent - 1}
    /\ UNCHANGED <<dbVars, due, trig, cancel, bulk, reap, scan, calls, host, histVars>>

\* runScheduled lists what is due and keeps the first MaxConcurrent.
SchedulerTicks ==
    /\ batch = {}
    /\ PendingDue # {}
    /\ batch' = {r \in PendingDue : Cardinality(Before(r)) < MaxConcurrent}
    /\ UNCHANGED <<dbVars, due, trig, cancel, bulk, reap, scan, calls, host, histVars>>

SchedulerTriggers ==
    /\ \E r \in ReqIds : /\ ByScheduler(r)
                         /\ trig[r] = "idle"
                         /\ trig' = [trig EXCEPT ![r] = "resolve"]
    /\ UNCHANGED <<dbVars, due, batch, cancel, bulk, reap, scan, calls, host, histVars>>
-----------------------------------------------------------------------------
(* Background workers: the reaper and the verify-boot scanner.             *)

\* ListNodeConfigs: the flags as they are now.
ReaperLists ==
    /\ "reaper" \in Activity
    /\ \A n \in Nodes : reap[n] = "idle"
    /\ \E n \in Nodes : node[n].pending
    /\ reap' = [n \in Nodes |-> IF node[n].pending THEN "listed" ELSE "idle"]
    /\ UNCHANGED <<dbVars, due, trig, batch, cancel, bulk, scan, calls, host, histVars>>

\* Mutant: any request of the node counts, a terminal one too.
ReaperChecks_AnyRequest(n) ==
    /\ reap[n] = "listed"
    /\ reap' = [reap EXCEPT ![n] = IF \E r \in ReqIds : InDB(r) /\ req[r].node = n
                                   THEN "idle" ELSE "orphan"]
    /\ UNCHANGED <<dbVars, due, trig, batch, cancel, bulk, scan, calls, host, histVars>>

ReaperChecks(n) ==
    /\ reap[n] = "listed"
    /\ reap' = [reap EXCEPT ![n] = IF Active(n) = {} THEN "orphan" ELSE "idle"]
    /\ UNCHANGED <<dbVars, due, trig, batch, cancel, bulk, scan, calls, host, histVars>>

ReaperClears(n) ==
    /\ reap[n] = "orphan"
    /\ SetPending(n, FALSE)
    /\ reap' = [reap EXCEPT ![n] = "idle"]
    /\ UNCHANGED <<req, due, trig, batch, cancel, bulk, scan, calls, host, histVars>>

\* ListNodesAwaitingVerification: some of the nodes have waited longer than their timeout.
ScannerLists ==
    /\ "scanner" \in Activity
    /\ \A n \in Nodes : scan[n] = "idle"
    /\ \E S \in SUBSET {n \in Nodes : AwaitsVerification(node[n])} :
          /\ S # {}
          /\ scan' = [n \in Nodes |-> IF n \in S THEN "listed" ELSE "idle"]
    /\ UNCHANGED <<dbVars, due, trig, batch, cancel, bulk, reap, calls, host, histVars>>

\* RecordVerifyTimeout, whatever happened since the list.
ScannerStamps(n) ==
    /\ scan[n] = "listed"
    /\ node' = [node EXCEPT ![n].timeout = TRUE]
    /\ scan' = [scan EXCEPT ![n] = "stamped"]
    /\ UNCHANGED <<req, due, trig, batch, cancel, bulk, reap, calls, host, histVars>>

\* flipNodeToDiskFirst is best effort: it may have no effect.
FlipToDiskFirst(n) ==
    \E done \in BOOLEAN : host' = [host EXCEPT ![n] = IF done THEN SetOrder(n, @, "disk") ELSE @]

ScannerFlips(n) ==
    /\ scan[n] = "stamped"
    /\ FlipToDiskFirst(n)
    /\ scan' = [scan EXCEPT ![n] = "idle"]
    /\ UNCHANGED <<dbVars, due, trig, batch, cancel, bulk, reap, calls, histVars>>
-----------------------------------------------------------------------------
(* Node callbacks: handlers/nodes.go. A node has one call open at a time.  *)

\* The call of n goes on, and keeps nothing of what it read.
Serve(n, stage) == /\ handler' = [handler EXCEPT ![n] = stage]
                   /\ failing' = {r \in failing : req[r].node # n}

\* DeployComplete: RecordDeploySucceeded, then CloseActiveReimagesForNode.
RecordDeploySucceeded(n) ==
    /\ handler[n] = "complete"
    /\ node' = [node EXCEPT ![n] = DeploySucceeded(@)]
    /\ wanted' = [wanted EXCEPT ![n] = FALSE]
    /\ Serve(n, "completeClose")
    /\ UNCHANGED <<req, due, trig, batch, cancel, bulk, reap, scan, host, faults, cycled, rivals>>

\* DeployFailed: RecordDeployFailed leaves reimage_pending to the admin.
RecordDeployFailed(n) ==
    /\ handler[n] = "failed"
    /\ node' = [node EXCEPT ![n].failed = TRUE]
    /\ wanted' = [wanted EXCEPT ![n] = TRUE]
    /\ Serve(n, "failedRead")
    /\ UNCHANGED <<req, due, trig, batch, cancel, bulk, reap, scan, host, faults, cycled, rivals>>

\* It reads the active request, if any, and then writes that row whatever its status is by
\* now: one canceled in between becomes failed.
FailureReads(n) ==
    /\ handler[n] = "failedRead"
    /\ \/ Active(n) = {} /\ Serve(n, "failedClose")
       \/ \E r \in Active(n) : /\ r = Newest(n)
                               /\ handler' = [handler EXCEPT ![n] = "failedUpdate"]
                               /\ failing' = failing \cup {r}
    /\ UNCHANGED <<dbVars, due, trig, batch, cancel, bulk, reap, scan, host, histVars>>

FailureUpdates(n) ==
    /\ \E r \in failing : req[r].node = n /\ SetStatus(r, "failed")
    /\ Serve(n, "failedClose")
    /\ UNCHANGED <<node, due, trig, batch, cancel, bulk, reap, scan, host, histVars>>

\* VerifyBoot: RecordVerifyBooted reads and sets the column (nothing else writes it while
\* the node's OS runs), and the payload may carry an LDAP probe. Only the first report of
\* a deploy cycle goes on to close requests and flip the boot order.
RecordVerifyBooted(n) ==
    /\ handler[n] = "verify"
    /\ \E l \in {node[n].ldap} \cup LdapProbes :
          node' = [node EXCEPT ![n].verified = TRUE, ![n].ldap = l]
    /\ Serve(n, IF node[n].verified THEN "idle" ELSE "verifyClose")
    /\ UNCHANGED <<req, due, trig, batch, cancel, bulk, reap, scan, host, histVars>>

\* The closing statement of the three handlers, whose failure none of them minds;
\* VerifyBoot goes on.
ClosesRequests(n) ==
    /\ handler[n] \in {"completeClose", "failedClose", "verifyClose"}
    /\ \/ /\ CloseActive(n, IF handler[n] = "failedClose" THEN "failed" ELSE "complete")
          /\ UNCHANGED faults
       \/ UNCHANGED req /\ Fault("write")
    /\ Serve(n, IF handler[n] = "verifyClose" THEN "verifyFlip" ELSE "idle")
    /\ UNCHANGED <<node, due, trig, batch, cancel, bulk, reap, scan, host, cycled, wanted, rivals>>

\* VerifyBoot's last call, whatever was armed since the closing statement.
VerifyFlips(n) ==
    /\ handler[n] = "verifyFlip"
    /\ FlipToDiskFirst(n)
    /\ Serve(n, "idle")
    /\ UNCHANGED <<dbVars, due, trig, batch, cancel, bulk, reap, scan, histVars>>

\* The node's connection drops, or a statement fails, before the handler is done.
HandlerAborts(n) ==
    /\ handler[n] # "idle"
    /\ Fault("node")
    /\ Serve(n, "idle")
    /\ UNCHANGED <<dbVars, due, trig, batch, cancel, bulk, reap, scan, host, cycled, wanted, rivals>>
-----------------------------------------------------------------------------
(* The machine, the deploy agent in the initramfs, the deployed OS.        *)

\* The boot order stays as it was set: the IPMI override is persistent too.
Boots(n, place) == host' = [host EXCEPT ![n].at = place]

\* Firmware starts the disk without asking the server.
BootsFromDisk(n) ==
    /\ host[n].at = "booting"
    /\ host[n].order # "pxe" /\ host[n].disk # Blank
    /\ Boots(n, "os")
    /\ UNCHANGED <<dbVars, due, srvVars, histVars>>

PXEFirst(n) == host[n].at = "booting" /\ (host[n].order # "disk" \/ host[n].disk = Blank)

\* ServeIPXEScript for the boot menu's "Request reimage": the flag is set in a statement of
\* its own, before the lookup that routes the boot.
MenuForcesReimage(n) ==
    /\ "menu" \in Activity
    /\ PXEFirst(n)
    /\ node[n].image # NoImage
    /\ SetPending(n, TRUE)
    /\ wanted' = [wanted EXCEPT ![n] = TRUE]
    /\ UNCHANGED <<req, due, srvVars, host, faults, cycled, rivals>>

\* ServeIPXEScript: the row as it is now decides.
BootsFromPXE(n) ==
    /\ PXEFirst(n)
    /\ Boots(n, CASE BootScript(node[n]) = "deploy" -> "initramfs"
                  [] BootScript(node[n]) = "disk" /\ host[n].disk # Blank -> "os"
                  [] OTHER -> "booting")
    /\ UNCHANGED <<dbVars, due, srvVars, histVars>>

\* The database does not answer: the node gets the deploy script without a token, and the
\* init script refuses to deploy without one.
BootsWithoutToken(n) ==
    /\ PXEFirst(n)
    /\ Fault("write")
    /\ Boots(n, "stuck")
    /\ UNCHANGED <<dbVars, due, srvVars, cycled, wanted, rivals>>

\* runAutoDeployMode, up to the server's directive. A bios_only run applies the profile and
\* reboots, or stops on an error; it reports neither.
AgentRegisters(n) ==
    /\ host[n].at = "initramfs"
    /\ LET bios   == Active(n) # {} /\ "bios" \in req[Newest(n)].opts
           action == RegisterAction(node[n], bios)
       IN \/ /\ action = "bios_only"
             /\ \E place \in {"booting", "stuck"} : host' = [host EXCEPT ![n].at = place]
          \/ /\ action = "deploy"
             /\ host' = [host EXCEPT ![n].at = "writing", ![n].img = node[n].image]
          \/ /\ action = "wait"
             /\ host' = [host EXCEPT ![n].at = "waiting"]
    /\ UNCHANGED <<dbVars, due, srvVars, histVars>>

\* The wait loop polls until an image is assigned.
AgentPolls(n) ==
    /\ host[n].at = "waiting"
    /\ node[n].image # NoImage
    /\ host' = [host EXCEPT ![n].at = "writing", ![n].img = node[n].image]
    /\ UNCHANGED <<dbVars, due, srvVars, histVars>>

\* Mutant: an agent that was given no image takes that for success.
AgentWrites_Unchecked(n) ==
    /\ host[n].at = "writing"
    /\ host' = [host EXCEPT ![n].at = "written", ![n].disk = host[n].img, ![n].img = NoImage]
    /\ UNCHANGED <<dbVars, due, srvVars, histVars>>

\* runAutoDeployImage.
AgentWrites(n) ==
    /\ host[n].at = "writing"
    /\ host[n].img # NoImage
    /\ host' = [host EXCEPT ![n].at = "written", ![n].disk = host[n].img, ![n].img = NoImage]
    /\ UNCHANGED <<dbVars, due, srvVars, histVars>>

\* Any error: the deferred reporter posts deploy-failed once, and the init script sleeps.
AgentFails(n) ==
    /\ host[n].at = "writing"
    /\ \E d \in {host[n].disk, Blank} :
          host' = [host EXCEPT ![n].at = "stuck", ![n].disk = d, ![n].img = NoImage]
    /\ \/ handler[n] = "idle" /\ Serve(n, "failed") /\ UNCHANGED faults
       \/ UNCHANGED calls /\ Fault("node")
    /\ UNCHANGED <<dbVars, due, trig, batch, cancel, bulk, reap, scan, cycled, wanted, rivals>>

AgentPosts(n) ==
    /\ host[n].at = "written"
    /\ handler[n] = "idle"
    /\ Serve(n, "complete")
    /\ host' = [host EXCEPT ![n].at = "posted"]
    /\ UNCHANGED <<dbVars, due, trig, batch, cancel, bulk, reap, scan, histVars>>

\* The state verification loop: done, post again, or give up after the last attempt. The
\* agent asks for disk-first before the reboot.
RecordedStates == {"deployed_preboot", "deployed_verified"}

AgentReboots(n) ==
    /\ host[n].at = "posted"
    /\ \/ State(node[n]) \in RecordedStates /\ UNCHANGED faults
       \/ State(node[n]) \notin RecordedStates /\ Fault("node")
    /\ \E o \in {host[n].order, "disk"} :
          host' = [host EXCEPT ![n] = [Reset(@) EXCEPT !.order = o]]
    /\ UNCHANGED <<dbVars, due, srvVars, cycled, wanted, rivals>>

AgentReposts(n) ==
    /\ host[n].at = "posted"
    /\ handler[n] = "idle"
    /\ State(node[n]) \notin RecordedStates
    /\ Serve(n, "complete")
    /\ UNCHANGED <<dbVars, due, trig, batch, cancel, bulk, reap, scan, host, histVars>>

\* clustr-verify-boot.service, and clientd on every start.
OsPhonesHome(n) ==
    /\ host[n].at = "os"
    /\ handler[n] = "idle"
    /\ Serve(n, "verify")
    /\ UNCHANGED <<dbVars, due, trig, batch, cancel, bulk, reap, scan, host, histVars>>

\* Someone restarts the machine, or it loses power while the agent works.
MachineRestarts(n) ==
    /\ "reboot" \in Activity
    /\ \/ host[n].at \in {"os", "stuck"} /\ UNCHANGED faults
       \/ host[n].at \in {"initramfs", "waiting", "writing", "written", "posted"} /\ Fault("node")
    /\ host' = [host EXCEPT ![n] = Reset(@)]
    /\ UNCHANGED <<dbVars, due, srvVars, cycled, wanted, rivals>>

\* clustr-serverd stops and starts again: what was only in memory is gone.
ServerRestarts ==
    /\ Fault("restart")
    /\ req' = [r \in ReqIds |-> IF Exists(r) /\ req[r].status = "checked"
                                THEN [req[r] EXCEPT !.status = "dropped"] ELSE req[r]]
    /\ trig' = [r \in ReqIds |-> "idle"]
    /\ batch' = {}
    /\ cancel' = [r \in ReqIds |-> "idle"]
    /\ bulk' = [stage |-> "idle", nodes |-> {}]
    /\ reap' = [n \in Nodes |-> "idle"]
    /\ scan' = [n \in Nodes |-> "idle"]
    /\ handler' = [n \in Nodes |-> "idle"]
    /\ failing' = {}
    /\ UNCHANGED <<node, due, host, cycled, wanted, rivals>>
-----------------------------------------------------------------------------
Operator ==
    \/ \E n \in Nodes, img \in Images \cup {NoImage} : AssignImage(n, img)
    \/ \E n \in Nodes, img \in Images, sched \in BOOLEAN, opts \in OptSets, force \in BOOLEAN :
          CreateChecks(n, img, sched, opts, force)
    \/ \E r \in ReqIds : \/ RetryChecks(r) \/ InsertRequest(r)
                         \/ CancelReads(r) \/ CancelUpdates(r) \/ CancelClears(r) \/ CancelAborts(r)
    \/ BulkReads \/ BulkUpdates \/ BulkAborts
    \/ \E n \in Nodes : BulkClears(n)

Trigger(r) ==
    \/ TriggerAssigns(r) \/ TriggerFlags(r) \/ TriggerSetsNextBoot(r) \/ TriggerCycles(r)
    \/ TriggerMarks(r) \/ TriggerFails(r) \/ TriggerGivesUp(r)

Scheduler == SchedulerTicks \/ SchedulerTriggers \/ \E r \in ReqIds : FallsDue(r)
Reaper    == ReaperLists \/ \E n \in Nodes : ReaperChecks(n) \/ ReaperClears(n)
Scanner   == ScannerLists \/ \E n \in Nodes : ScannerStamps(n) \/ ScannerFlips(n)

Callback(n) ==
    \/ RecordDeploySucceeded(n) \/ RecordVerifyBooted(n)
    \/ RecordDeployFailed(n) \/ FailureReads(n) \/ FailureUpdates(n)
    \/ ClosesRequests(n) \/ VerifyFlips(n) \/ HandlerAborts(n)

Machine(n) ==
    \/ BootsFromDisk(n) \/ MenuForcesReimage(n) \/ BootsFromPXE(n) \/ BootsWithoutToken(n)
    \/ AgentRegisters(n) \/ AgentPolls(n) \/ AgentWrites(n) \/ AgentFails(n)
    \/ AgentPosts(n) \/ AgentReboots(n) \/ AgentReposts(n)
    \/ OsPhonesHome(n) \/ MachineRestarts(n)

Next ==
    \/ Operator
    \/ \E r \in ReqIds : Trigger(r)
    \/ Scheduler \/ Reaper \/ Scanner
    \/ \E n \in Nodes : Callback(n) \/ Machine(n)
    \/ ServerRestarts

Spec == Init /\ [][Next]_vars

\* A call that has begun goes on, as does a goroutine the server runs.
ServerFairness ==
    /\ \A r \in ReqIds : /\ WF_vars(InsertRequest(r))
                         /\ WF_vars(TriggerAssigns(r) \/ TriggerFlags(r) \/ TriggerSetsNextBoot(r)
                                    \/ TriggerCycles(r) \/ TriggerMarks(r))
                         /\ WF_vars(FallsDue(r))
    /\ WF_vars(SchedulerTicks \/ SchedulerTriggers)
    /\ WF_vars(ReaperLists)
    /\ \A n \in Nodes : /\ WF_vars(ReaperChecks(n) \/ ReaperClears(n))
                        /\ WF_vars(RecordDeploySucceeded(n) \/ RecordVerifyBooted(n)
                                   \/ RecordDeployFailed(n) \/ FailureReads(n) \/ FailureUpdates(n)
                                   \/ ClosesRequests(n) \/ VerifyFlips(n))

\* PXE is first in the boot order as commissioned, so a machine that keeps booting comes to
\* the server; the agent goes on by itself and does not fail for ever; someone restarts a
\* machine that sits in a failed initramfs, or an OS to be reimaged on its next reboot.
MachineFairness ==
    \A n \in Nodes : /\ SF_vars(BootsFromPXE(n))
                     /\ WF_vars(BootsFromDisk(n))
                     /\ WF_vars(AgentRegisters(n)) /\ WF_vars(AgentPolls(n))
                     /\ SF_vars(AgentWrites(n)) /\ SF_vars(AgentPosts(n))
                     /\ WF_vars(AgentReboots(n) \/ AgentReposts(n))
                     /\ WF_vars(MachineRestarts(n) /\ faults' = faults)

FairSpec == Spec /\ ServerFairness /\ MachineFairness
-----------------------------------------------------------------------------
(* Properties.                                                             *)

TypeOK ==
    /\ node \in [Nodes -> NodeRow]
    /\ req \in [ReqIds -> Request \cup {NoReq}]
    /\ due \in [ReqIds -> Nat]
    /\ trig \in [ReqIds -> TrigStages]
    /\ batch \in SUBSET ReqIds
    /\ cancel \in [ReqIds -> {"idle", "update", "clear"}]
    /\ bulk \in [stage : {"idle", "update", "clear"}, nodes : SUBSET Nodes]
    /\ reap \in [Nodes -> {"idle", "listed", "orphan"}]
    /\ scan \in [Nodes -> {"idle", "listed", "stamped"}]
    /\ handler \in [Nodes -> HandlerStages]
    /\ failing \in SUBSET ReqIds
    /\ host \in [Nodes -> Host]
    /\ faults \in 0..MaxFaults
    /\ cycled \in [ReqIds -> Nat]
    /\ wanted \in [Nodes -> BOOLEAN]
    /\ rivals \in [ReqIds -> SUBSET ReqIds]

(* No redeploy loop (boot.go 260-265, ADR-0008): once a deploy is recorded, and until     *)
(* Trigger or the boot menu flags the node again or the agent reports a failure, a PXE    *)
(* boot is sent to the disk, however the reaper, the scanner, late phone-homes, canceled  *)
(* requests, restarts and lost responses interleave.                                      *)
NoRedeployLoop == \A n \in Nodes : ~wanted[n] => BootScript(node[n]) = "disk"

(* Why: between a recorded deploy and the next arming no column that State() reads before *)
(* the deploy columns can be set again.                                                   *)
ServedInv ==
    \A n \in Nodes : ~wanted[n] => ~node[n].pending /\ ~node[n].failed /\ node[n].preboot

(* At most one active request per node is what Create and Retry check before they insert  *)
(* (reimage.go 142).  The check is not part of the insert, and Trigger writes its status   *)
(* last: what can be relied on, with calls that overlap and beside the scheduler, is that  *)
(* of two active requests of a node the later one was forced in, or let in while a handler *)
(* was inserting the earlier one or Trigger or the scheduler still held it.  An earlier    *)
(* request that was closed and let go of by then never comes back beside its successor.    *)
OneActive == \A n \in Nodes : \A r, q \in Active(n) : q < r => q \in rivals[r]

(* A request power-cycles its machine at most once, and a scheduled one at most once more *)
(* per fault (a restart or a lost status write leaves it pending for the next tick).      *)
PowerCyclesBounded ==
    \A r \in ReqIds : cycled[r] <= IF Exists(r) /\ req[r].scheduled THEN 1 + faults ELSE 1

(* The scheduler never fires early: a scheduled request whose time has not come has not   *)
(* touched the machine and is not marked triggered.                                       *)
NeverEarly ==
    \A r \in ReqIds : Exists(r) /\ req[r].scheduled /\ due[r] = 0 =>
                         cycled[r] = 0 /\ req[r].status # "triggered"

(* A terminal status is final once no call is left that read the row before: no later      *)
(* deploy callback, phone-home, tick or bulk cancel changes it.                            *)
Quiet(r) == trig[r] = "idle" /\ cancel[r] # "update" /\ r \notin batch \cup failing
TerminalStays ==
    [][\A r \in ReqIds : Exists(r) /\ req[r].status \in TerminalStatuses /\ Quiet(r) =>
                            req'[r] = req[r]]_vars

(* Every scheduled request is served once its time has come: the cap defers it to a later *)
(* tick, a restart or a lost status write to the next, but nothing starves it.            *)
DueIsServed ==
    \A r \in ReqIds : (due[r] # 0 /\ req[r].status = "pending") ~> req[r].status # "pending"

(* A flag nobody works for any more does not stay: with no active request and no running  *)
(* Trigger the reaper clears it, unless a new request takes it over.                      *)
Orphaned(n) == /\ node[n].pending /\ Active(n) = {}
               /\ \A r \in ReqIds : trig[r] # "idle" => NodeOf(r) # n
OrphansAreReaped == \A n \in Nodes : Orphaned(n) ~> ~Orphaned(n)

(* An armed node is served, unless its boot order stays disk-first: the flag of a request  *)
(* leads to a recorded deploy, or somebody closes the request (an operator who cancels it, *)
(* Trigger or the agent that failed, a report of the deploy or boot before).  BMC errors,  *)
(* lost callbacks, half-written disks and a firmware that starts the old disk only delay   *)
(* that, and State() keeps routing the node to the deploy whatever an earlier cycle left.  *)
Armed(n, r)  == node[n].pending /\ r \in Active(n)
NeverClosed(r) == [](req[r].status \notin TerminalStatuses)

(* What those who make requests may rely on (RequestLifecycle), whatever handlers, workers *)
(* and faults overlap.                                                                     *)
WorksOn(r, h) == \/ h = "trigger" /\ trig[r] # "mark" /\ (trig[r] # "idle" \/ r \in batch)
                 \/ h = "mark"    /\ trig[r] = "mark"
                 \/ h = "cancel"  /\ cancel[r] = "update"
                 \/ h = "report"  /\ r \in failing
Lifecycle == INSTANCE RequestLifecycle WITH
    Reqs   <- ReqIds,
    status <- [r \in ReqIds |-> req[r].status],
    later  <- {r \in ReqIds : Exists(r) /\ req[r].scheduled},
    ripe   <- {r \in ReqIds : due[r] # 0},
    hands  <- [r \in ReqIds |-> {h \in {"trigger", "mark", "cancel", "report"} : WorksOn(r, h)}],
    cycles <- cycled
LifecycleSpec == Lifecycle!Spec
=============================================================================
