---------------------------- MODULE SlurmUpgrade ----------------------------
(***************************************************************************)
(* The rolling upgrade of Slurm (internal/slurm/upgrade.go): an operation  *)
(* is a row, and a goroutine (executeUpgrade, here a run) that walks the   *)
(* plan: slurmdbd nodes, controllers, batches of compute nodes that are    *)
(* drained and resumed around their upgrade, login nodes.  Pause, resume   *)
(* and rollback act on the row and on the one run that is registered as    *)
(* active, while runs read and write the same row in their own time.       *)
(*                                                                         *)
(* Slurm roles do not change during an upgrade, and an active build is set *)
(* (without one the insert of a row fails on its foreign key); the builds  *)
(* an upgrade names are not deleted before it has read them.  Which        *)
(* build a row goes from and to, the result columns, the table of node     *)
(* versions, which no step of an upgrade reads, and the jobs a drain waits *)
(* for are left out.                                                       *)
(***************************************************************************)
EXTENDS Integers, Sequences, FiniteSets

CONSTANTS
    Plan,            \* buildUpgradePlan: sequence of [phase, nodes], one node each but for compute batches
    MaxOps,          \* bound: rows
    MaxRuns,         \* bound: goroutines at a time
    MaxUpgradeFaults \* bound: restarts, refused statements and lost commands

PlanNodes == UNION {Plan[i].nodes : i \in DOMAIN Plan}
Phases == {"dbd", "controller", "compute", "login"}
HasController == \E i \in DOMAIN Plan : Plan[i].phase = "controller"

ASSUME UpgradeAssumption ==
    /\ Plan \in Seq([phase : Phases, nodes : SUBSET PlanNodes])
    /\ MaxOps \in Nat /\ MaxRuns \in Nat /\ MaxUpgradeFaults \in Nat

Ops == 1..MaxOps
Runs == 1..MaxRuns

VARIABLES
    opRow,        \* [Ops -> Statuses], table slurm_upgrade_operations
    run,          \* [Runs -> Run]
    activeRun,    \* the run Manager.activeUpgrade is of, or 0
    starting,     \* StartUpgrade calls that have found no upgrade in progress
    pausing,      \* operations whose PauseUpgrade has found them in progress
    drained,      \* compute nodes the controller has drained for an upgrade
    upgradeFaults

upgradeVars == <<opRow, run, activeRun, starting, pausing, drained, upgradeFaults>>

Statuses == {"none", "queued", "in_progress", "paused", "failed", "completed", "rolled_back"}
Run == [at : {"free", "launched", "registered", "entering", "checking", "draining", "sending",
              "waiting", "resumed", "completing"},
        op : 0..MaxOps, step : 1..Len(Plan) + 1, paused : BOOLEAN, canceled : BOOLEAN,
        waiting : SUBSET PlanNodes, failed : BOOLEAN, acked : SUBSET PlanNodes]
NewRun(o) == [at |-> "launched", op |-> o, step |-> 1, paused |-> FALSE, canceled |-> FALSE,
              waiting |-> {}, failed |-> FALSE, acked |-> {}]
IdleRun == [NewRun(0) EXCEPT !.at = "free"]

Live(r) == run[r].at # "free"
InProgress(o) == opRow[o] = "in_progress"
\* hasInProgressUpgrade
AnyInProgress == \E o \in Ops : InProgress(o)
SetStatus(o, s) == opRow' = [opRow EXCEPT ![o] = s]
UpgradeFault == upgradeFaults < MaxUpgradeFaults /\ upgradeFaults' = upgradeFaults + 1

UpgradeInit ==
    /\ opRow = [o \in Ops |-> "none"]
    /\ run = [r \in Runs |-> IdleRun]
    /\ activeRun = 0
    /\ starting = 0 /\ pausing = {} /\ drained = {}
    /\ upgradeFaults = 0
-----------------------------------------------------------------------------
\* `go m.executeUpgrade(...)`: the next goroutine.
Launches(o) ==
    \E r \in Runs : /\ run[r].at = "free"
                    /\ \A q \in Runs : q < r => run[q].at # "free"
                    /\ run' = [run EXCEPT ![r] = NewRun(o)]

\* StartUpgrade, up to its last check.
StartChecks ==
    /\ ~AnyInProgress
    /\ starting < Cardinality({o \in Ops : opRow[o] = "none"})
    /\ starting' = starting + 1
    /\ UNCHANGED <<opRow, run, activeRun, pausing, drained, upgradeFaults>>

\* Its insert and its goroutine.
StartInserts ==
    /\ starting > 0
    /\ starting' = starting - 1
    /\ \/ /\ \E o \in Ops : /\ opRow[o] = "none"
                            /\ \A p \in Ops : p < o => opRow[p] # "none"
                            /\ SetStatus(o, "queued")
                            /\ Launches(o)
          /\ UNCHANGED upgradeFaults
       \/ UpgradeFault /\ UNCHANGED <<opRow, run>>
    /\ UNCHANGED <<activeRun, pausing, drained>>

\* PauseUpgrade reads the row, ...
PauseChecks(o) ==
    /\ InProgress(o)
    /\ pausing' = pausing \cup {o}
    /\ UNCHANGED <<opRow, run, activeRun, starting, drained, upgradeFaults>>

\* ... tells the active run if it is this operation's, and writes the row whatever it says now.
Pauses(o) ==
    /\ o \in pausing
    /\ pausing' = pausing \ {o}
    /\ run' = [r \in Runs |-> IF r = activeRun /\ run[r].op = o THEN [run[r] EXCEPT !.paused = TRUE] ELSE run[r]]
    /\ \/ SetStatus(o, "paused") /\ UNCHANGED upgradeFaults
       \/ UNCHANGED opRow /\ UpgradeFault
    /\ UNCHANGED <<activeRun, starting, drained>>

\* ResumeUpgrade starts another run of the operation, from the first phase.
Resumes(o) ==
    /\ opRow[o] = "paused"
    /\ Launches(o)
    /\ UNCHANGED <<opRow, activeRun, starting, pausing, drained, upgradeFaults>>

\* RollbackUpgrade cancels the active run if it is this operation's, closes the row and goes on as
\* StartUpgrade of the build before; when that finds an upgrade in progress the row stays closed.
RollsBack(o) ==
    /\ opRow[o] \in {"in_progress", "paused", "failed", "completed"}
    /\ starting < Cardinality({p \in Ops : opRow[p] = "none"})
    /\ LET mine == activeRun # 0 /\ run[activeRun].op = o
       IN  /\ run' = [r \in Runs |-> IF mine /\ r = activeRun THEN [run[r] EXCEPT !.canceled = TRUE] ELSE run[r]]
           /\ activeRun' = IF mine THEN 0 ELSE activeRun
    /\ \/ SetStatus(o, "rolled_back") /\ UNCHANGED upgradeFaults
       \/ UNCHANGED opRow /\ UpgradeFault
    /\ starting' = IF \E p \in Ops : opRow'[p] = "in_progress" THEN starting ELSE starting + 1
    /\ UNCHANGED <<pausing, drained>>

-----------------------------------------------------------------------------
\* executeUpgrade.
Moves(r, at) == run' = [run EXCEPT ![r].at = at]
\* The deferred cleanup: whichever run of this operation is registered, it is forgotten.
Returns(r) ==
    /\ run' = [run EXCEPT ![r] = IdleRun]
    /\ activeRun' = IF activeRun # 0 /\ run[activeRun].op = run[r].op THEN 0 ELSE activeRun

Registers(r) ==
    /\ run[r].at = "launched"
    /\ Moves(r, "registered")
    /\ activeRun' = r
    /\ UNCHANGED <<opRow, starting, pausing, drained, upgradeFaults>>

Begins(r) ==
    /\ run[r].at = "registered"
    /\ \/ /\ SetStatus(run[r].op, "in_progress")
          /\ Moves(r, "entering")
          /\ UNCHANGED <<activeRun, upgradeFaults>>
       \/ Returns(r) /\ UNCHANGED opRow /\ UpgradeFault
    /\ UNCHANGED <<starting, pausing, drained>>

\* The first unit of a phase writes the phase, and in_progress with it.
EntersPhase(r) ==
    /\ run[r].at = "entering"
    /\ \/ SetStatus(run[r].op, "in_progress") /\ UNCHANGED upgradeFaults
       \/ UNCHANGED opRow /\ UpgradeFault
    /\ Moves(r, IF run[r].step > Len(Plan) THEN "completing" ELSE "checking")
    /\ UNCHANGED <<activeRun, starting, pausing, drained>>

\* checkPauseCancel lets the unit begin.
Proceeds(r) ==
    /\ run[r].at = "checking" /\ ~run[r].paused /\ ~run[r].canceled
    /\ Moves(r, IF Plan[run[r].step].phase = "compute" THEN "draining" ELSE "sending")
    /\ UNCHANGED <<opRow, activeRun, starting, pausing, drained, upgradeFaults>>

\* pauseOrCancelUpgrade asks the registered run of this operation, not this one, whether it is paused.
Stops(r) ==
    /\ run[r].at = "checking" /\ (run[r].paused \/ run[r].canceled)
    /\ LET paused == activeRun # 0 /\ run[activeRun].op = run[r].op /\ run[activeRun].paused
       IN  \/ SetStatus(run[r].op, IF paused THEN "paused" ELSE "failed") /\ UNCHANGED upgradeFaults
           \/ UNCHANGED opRow /\ UpgradeFault
    /\ Returns(r)
    /\ UNCHANGED <<starting, pausing, drained>>

\* A batch writes its number, and in_progress, and asks the controller to drain its nodes; that this
\* fails, or that jobs still run when the wait is over, stops nothing.
Drains(r) ==
    /\ run[r].at = "draining"
    /\ \/ SetStatus(run[r].op, "in_progress") /\ UNCHANGED upgradeFaults
       \/ UNCHANGED opRow /\ UpgradeFault
    /\ drained' \in {drained} \cup {drained \cup Plan[run[r].step].nodes : x \in {y \in {1} : HasController}}
    /\ Moves(r, "sending")
    /\ UNCHANGED <<activeRun, starting, pausing>>

\* dnfUpgradeNode for the nodes of the unit: those that are connected get the message.
Sends(r) ==
    /\ run[r].at = "sending"
    /\ \E offline \in SUBSET Plan[run[r].step].nodes :
           run' = [run EXCEPT ![r].at = "waiting", ![r].waiting = Plan[run[r].step].nodes \ offline,
                              ![r].failed = offline # {}]
    /\ UNCHANGED <<opRow, activeRun, starting, pausing, drained, upgradeFaults>>

NodeAnswers(r, n) ==
    /\ run[r].at = "waiting" /\ n \in run[r].waiting
    /\ \/ run' = [run EXCEPT ![r].waiting = @ \ {n}, ![r].acked = @ \cup {n}]
       \/ run' = [run EXCEPT ![r].waiting = @ \ {n}, ![r].failed = TRUE]
    /\ UNCHANGED <<opRow, activeRun, starting, pausing, drained, upgradeFaults>>

\* After 35 minutes without an answer, or when the run is canceled.
GivesUp(r, n) ==
    /\ run[r].at = "waiting" /\ n \in run[r].waiting
    /\ run' = [run EXCEPT ![r].waiting = @ \ {n}, ![r].failed = TRUE]
    /\ UNCHANGED <<opRow, activeRun, starting, pausing, drained, upgradeFaults>>

Resumable(r) == Plan[run[r].step].phase = "compute" /\ HasController
Answered(r) == run[r].at = "waiting" /\ run[r].waiting = {}

\* Mutant: the nodes of a batch that failed are left drained, for the operator to look at.
ResumesBatch_UnlessFailed(r) ==
    /\ Answered(r) /\ Resumable(r)
    /\ Moves(r, "resumed")
    /\ drained' = IF run[r].failed THEN drained ELSE drained \ Plan[run[r].step].nodes
    /\ UNCHANGED <<opRow, activeRun, starting, pausing, upgradeFaults>>
\* The controller is asked to resume a batch, canceled or failed as it may be.
ResumesBatch(r) ==
    /\ Answered(r) /\ Resumable(r)
    /\ Moves(r, "resumed")
    /\ \/ drained' = drained \ Plan[run[r].step].nodes /\ UNCHANGED upgradeFaults
       \/ UNCHANGED drained /\ UpgradeFault
    /\ UNCHANGED <<opRow, activeRun, starting, pausing>>

UnitOver(r) == run[r].at = "resumed" \/ (Answered(r) /\ ~Resumable(r))
NextUnit(r) ==
    LET i == run[r].step
        next == IF i = Len(Plan) THEN "completing"
                ELSE IF Plan[i + 1].phase = Plan[i].phase THEN "checking" ELSE "entering"
    IN  run' = [run EXCEPT ![r].at = next, ![r].step = i + 1]

\* Mutant: a node that fails is passed over, as a login node is.
UnitDone_AnyPhase(r) ==
    /\ UnitOver(r)
    /\ NextUnit(r)
    /\ UNCHANGED <<opRow, activeRun, starting, pausing, drained, upgradeFaults>>
\* Only a login node may have failed.
UnitDone(r) ==
    /\ UnitOver(r)
    /\ run[r].failed => Plan[run[r].step].phase = "login"
    /\ NextUnit(r)
    /\ UNCHANGED <<opRow, activeRun, starting, pausing, drained, upgradeFaults>>

\* Mutant: the row is left for the caller to write.
UnitFails_Silent(r) ==
    /\ UnitOver(r) /\ run[r].failed /\ Plan[run[r].step].phase # "login"
    /\ Returns(r)
    /\ UNCHANGED <<opRow, starting, pausing, drained, upgradeFaults>>
\* failUpgrade, also over what rollback or another run wrote.
UnitFails(r) ==
    /\ UnitOver(r) /\ run[r].failed /\ Plan[run[r].step].phase # "login"
    /\ \/ SetStatus(run[r].op, "failed") /\ UNCHANGED upgradeFaults
       \/ UNCHANGED opRow /\ UpgradeFault
    /\ Returns(r)
    /\ UNCHANGED <<starting, pausing, drained>>

\* The target becomes the active build, and the row says completed.
Completes(r) ==
    /\ run[r].at = "completing"
    /\ \/ SetStatus(run[r].op, "completed") /\ UNCHANGED upgradeFaults
       \/ UNCHANGED opRow /\ UpgradeFault
    /\ Returns(r)
    /\ UNCHANGED <<starting, pausing, drained>>

\* serverd stops; nothing looks at the rows when it starts again.
UpgradeRestarts ==
    /\ UpgradeFault
    /\ run' = [r \in Runs |-> IdleRun]
    /\ activeRun' = 0 /\ starting' = 0 /\ pausing' = {}
    /\ UNCHANGED <<opRow, drained>>
-----------------------------------------------------------------------------
Operates == \/ StartChecks \/ StartInserts
            \/ \E o \in Ops : PauseChecks(o) \/ Pauses(o) \/ Resumes(o) \/ RollsBack(o)
Executes(r) == \/ Registers(r) \/ Begins(r) \/ EntersPhase(r) \/ Proceeds(r) \/ Stops(r) \/ Drains(r) \/ Sends(r)
               \/ \E n \in PlanNodes : GivesUp(r, n)
               \/ ResumesBatch(r) \/ UnitDone(r) \/ UnitFails(r) \/ Completes(r)
UpgradeNext == \/ Operates
               \/ \E r \in Runs : Executes(r) \/ \E n \in PlanNodes : NodeAnswers(r, n)
               \/ UpgradeRestarts
UpgradeSpec == UpgradeInit /\ [][UpgradeNext]_upgradeVars
-----------------------------------------------------------------------------
UpgradeTypeOK ==
    /\ opRow \in [Ops -> Statuses]
    /\ run \in [Runs -> Run]
    /\ activeRun \in 0..MaxRuns
    /\ starting \in 0..MaxOps /\ pausing \subseteq Ops
    /\ drained \subseteq PlanNodes
    /\ upgradeFaults \in 0..MaxUpgradeFaults
    /\ \A r \in Runs : run[r].at # "free" => run[r].op \in Ops

\* Whatever pauses, resumes and rollbacks overlap, a run works on a unit only when every node of the
\* units before it, but for login nodes, has acknowledged the upgrade to this run (the phase order
\* that upgrade.go declares unchangeable).
EarlierUnitsDone ==
    \A r \in Runs : \A i \in DOMAIN Plan :
        i < run[r].step /\ Plan[i].phase # "login" => Plan[i].nodes \subseteq run[r].acked

\* With no statement refused and no restart, an upgrade that the row says is queued or in progress
\* has a run: otherwise nothing would ever finish it and no other upgrade could be started
\* (runs that overlap write the same row; each leaves it with its own last word).
InProgressHasRun ==
    \A o \in Ops : opRow[o] \in {"queued", "in_progress"} =>
        (\E r \in Runs : Live(r) /\ run[r].op = o) \/ upgradeFaults > 0

\* A node stays drained only while a run works on its batch, unless the controller did not get the
\* command or serverd stopped ("even if some failed, to avoid permanent drain").
DrainedIsWorkedOn ==
    \A n \in drained :
        \/ upgradeFaults > 0
        \/ \E r \in Runs : /\ run[r].at \in {"sending", "waiting"}
                           /\ n \in Plan[run[r].step].nodes /\ Plan[run[r].step].phase = "compute"

\* What an administrator may rely on (PhasedUpgrade), however runs, pauses, resumes, rollbacks,
\* refused statements, lost commands and restarts overlap: the phase order, a last word of every
\* run, and "completed" only for an upgrade whose every unit was acknowledged to one run.
CrewOf(x) == [op     |-> x.op,
              unit   |-> x.step,
              agreed |-> x.acked,
              holds  |-> x.at \in {"sending", "waiting"} /\ Plan[x.step].phase = "compute" /\ HasController]
Crewed == [r \in Runs |-> CrewOf(run[r])]
Phased == INSTANCE PhasedUpgrade WITH
    Crews  <- Runs,
    status <- opRow,
    crew   <- Crewed,
    slips  <- upgradeFaults
PhasesSpec == Phased!Spec
=============================================================================
