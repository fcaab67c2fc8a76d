------------------------- MODULE SlurmUpgradeProofs -------------------------
(***************************************************************************)
(* Theorems about SlurmUpgrade, for any plan and any number of operations  *)
(* and of runs that overlap.                                               *)
(***************************************************************************)
EXTENDS SlurmUpgrade, FiniteSetTheorems, TLAPS

(* What holds of a run: it works within the plan, drains for compute batches only, and has    *)
(* the acknowledgement of every node that no longer owes one, unless the unit failed.         *)
RunOK(x) ==
    /\ x \in Run
    /\ x.at # "free" => x.op \in Ops
    /\ x.at \in {"checking", "draining", "sending", "waiting", "resumed"} => x.step \in 1..Len(Plan)
    /\ x.at = "draining" => Plan[x.step].phase = "compute"
    /\ x.at \in {"waiting", "resumed"} => x.failed \/ Plan[x.step].nodes \ x.waiting \subseteq x.acked
    /\ x.at = "resumed" => x.waiting = {}
    /\ \A i \in 1..Len(Plan) : i < x.step /\ Plan[i].phase # "login" => Plan[i].nodes \subseteq x.acked
RunsOK == \A r \in Runs : RunOK(run[r])

(* Nodes are drained only where a controller can resume them.                                 *)
Resumers == drained # {} => HasController

UpgradeInv == UpgradeTypeOK /\ RunsOK /\ InProgressHasRun /\ Resumers /\ DrainedIsWorkedOn

(* The plan of an upgrade is a sequence of units of the plan's nodes.                         *)
LEMMA PlanFacts ==
    /\ Len(Plan) \in Nat
    /\ DOMAIN Plan = 1..Len(Plan)
    /\ \A i \in 1..Len(Plan) : Plan[i].nodes \subseteq PlanNodes /\ Plan[i].phase \in Phases
<1> DEFINE Units == [phase : Phases, nodes : SUBSET PlanNodes]
<1>1. Plan \in Seq(Units)
  BY UpgradeAssumption DEF UpgradeAssumption
<1> HIDE DEF Units
<1>2. Len(Plan) \in Nat /\ DOMAIN Plan = 1..Len(Plan) /\ \A i \in 1..Len(Plan) : Plan[i] \in Units
  BY <1>1
<1>3. \A u \in Units : u.nodes \subseteq PlanNodes /\ u.phase \in Phases
  BY DEF Units
<1> QED
  BY <1>2, <1>3

(* A run that is not there, and one that begins, are in order.                                *)
LEMMA FreshRuns == RunOK(IdleRun) /\ \A o \in Ops : RunOK(NewRun(o))
<1>1. MaxOps \in Nat /\ Len(Plan) \in Nat /\ 1 \in 1..Len(Plan) + 1
  BY PlanFacts, UpgradeAssumption DEF UpgradeAssumption
<1>2. \A o \in 0..MaxOps : NewRun(o) \in Run
  BY <1>1 DEF NewRun, Run
<1>3. IdleRun \in Run
  <2>1. NewRun(0) \in Run
    BY <1>1, <1>2
  <2>2. \A x \in Run : [x EXCEPT !.at = "free"] \in Run
    BY DEF Run
  <2> QED
    BY <2>1, <2>2 DEF IdleRun
<1> QED
  BY <1>1, <1>2, <1>3 DEF RunOK, NewRun, IdleRun, Ops

(* One run changes at a time.                                                                 *)
LEMMA OneRun ==
    ASSUME UpgradeTypeOK, RunsOK, NEW r \in Runs, NEW x, RunOK(x), run' = [run EXCEPT ![r] = x]
    PROVE  RunsOK' /\ run' \in [Runs -> Run]
BY DEF UpgradeTypeOK, RunsOK, RunOK

(* A goroutine that returns, or is started.                                                   *)
LEMMA ComesAndGoes ==
    ASSUME UpgradeTypeOK, RunsOK,
           (\E r \in Runs : run' = [run EXCEPT ![r] = IdleRun]) \/ (\E o \in Ops : Launches(o))
    PROVE  RunsOK' /\ run' \in [Runs -> Run]
BY FreshRuns, OneRun DEF Launches

(* What an operator does to a run is to pause or to cancel it.                                *)
LEMMA OperatesRuns ==
    ASSUME UpgradeTypeOK, RunsOK, Operates
    PROVE  RunsOK' /\ run' \in [Runs -> Run]
<1>1. CASE StartChecks \/ \E o \in Ops : PauseChecks(o)
  BY <1>1 DEF StartChecks, PauseChecks, UpgradeTypeOK, RunsOK
<1>2. CASE StartInserts
  <2>1. CASE UNCHANGED run
    BY <2>1 DEF UpgradeTypeOK, RunsOK
  <2> QED
    BY <1>2, <2>1, ComesAndGoes DEF StartInserts
<1>3. CASE \E o \in Ops : Resumes(o)
  BY <1>3, ComesAndGoes DEF Resumes
<1>4. ASSUME NEW r \in Runs
      PROVE  /\ [run[r] EXCEPT !.paused = TRUE] \in Run /\ RunOK([run[r] EXCEPT !.paused = TRUE])
             /\ [run[r] EXCEPT !.canceled = TRUE] \in Run /\ RunOK([run[r] EXCEPT !.canceled = TRUE])
  BY DEF RunsOK, RunOK, Run
<1>5. ASSUME NEW o \in Ops, Pauses(o)
      PROVE  RunsOK' /\ run' \in [Runs -> Run]
  <2>1. \A r \in Runs : run'[r] = run[r] \/ run'[r] = [run[r] EXCEPT !.paused = TRUE]
    BY <1>5 DEF Pauses
  <2>2. run' = [r \in Runs |-> run'[r]]
    BY <1>5 DEF Pauses
  <2> QED
    BY <1>4, <2>1, <2>2 DEF RunsOK, UpgradeTypeOK
<1>6. ASSUME NEW o \in Ops, RollsBack(o)
      PROVE  RunsOK' /\ run' \in [Runs -> Run]
  <2>1. \A r \in Runs : run'[r] = run[r] \/ run'[r] = [run[r] EXCEPT !.canceled = TRUE]
    BY <1>6 DEF RollsBack
  <2>2. run' = [r \in Runs |-> run'[r]]
    BY <1>6 DEF RollsBack
  <2> QED
    BY <1>4, <2>1, <2>2 DEF RunsOK, UpgradeTypeOK
<1> QED
  BY <1>1, <1>2, <1>3, <1>5, <1>6 DEF Operates

(* A unit is entered, stepped through and left as RunOK says.                                 *)
LEMMA ExecutesRuns ==
    ASSUME UpgradeTypeOK, RunsOK, NEW r \in Runs,
           Executes(r) \/ \E n \in PlanNodes : NodeAnswers(r, n)
    PROVE  RunsOK' /\ run' \in [Runs -> Run]
<1> DEFINE Fine(x) == RunOK(x) /\ run' = [run EXCEPT ![r] = x]
<1>0. RunOK(run[r]) /\ run[r] \in Run
  BY DEF RunsOK, RunOK
<1>a. (\E x : Fine(x)) => RunsOK' /\ run' \in [Runs -> Run]
  BY OneRun
<1>1. CASE run' = [run EXCEPT ![r] = IdleRun]
  BY <1>1, ComesAndGoes
<1>2. ASSUME NEW at, run[r].at # "free", Moves(r, at),
             at \in {"registered", "entering", "completing"}
      PROVE  RunsOK' /\ run' \in [Runs -> Run]
  <2>1. RunOK([run[r] EXCEPT !.at = at])
    BY <1>0, <1>2 DEF RunOK, Run
  <2> QED
    BY <1>a, <1>2, <2>1 DEF Moves, UpgradeTypeOK
<1>3. CASE EntersPhase(r)
  <2>1. CASE run[r].step > Len(Plan)
    BY <1>2, <1>3, <2>1 DEF EntersPhase
  <2>2. CASE ~(run[r].step > Len(Plan))
    <3>1. RunOK([run[r] EXCEPT !.at = "checking"])
      BY <1>0, <1>3, <2>2, PlanFacts DEF EntersPhase, RunOK, Run
    <3> QED
      BY <1>a, <1>3, <2>2, <3>1 DEF EntersPhase, Moves, UpgradeTypeOK
  <2> QED
    BY <2>1, <2>2
<1>4. CASE Proceeds(r)
  <2>1. RunOK([run[r] EXCEPT !.at = IF Plan[run[r].step].phase = "compute" THEN "draining" ELSE "sending"])
    BY <1>0, <1>4 DEF Proceeds, RunOK, Run
  <2> QED
    BY <1>a, <1>4, <2>1 DEF Proceeds, Moves, UpgradeTypeOK
<1>5. CASE Drains(r)
  <2>1. RunOK([run[r] EXCEPT !.at = "sending"])
    BY <1>0, <1>5 DEF Drains, RunOK, Run
  <2> QED
    BY <1>a, <1>5, <2>1 DEF Drains, Moves, UpgradeTypeOK
<1>6. CASE Sends(r)
  <2>1. PICK offline \in SUBSET Plan[run[r].step].nodes :
            run' = [run EXCEPT ![r].at = "waiting", ![r].waiting = Plan[run[r].step].nodes \ offline,
                               ![r].failed = offline # {}]
    BY <1>6 DEF Sends
  <2>2. RunOK([run[r] EXCEPT !.at = "waiting", !.waiting = Plan[run[r].step].nodes \ offline,
                             !.failed = offline # {}])
    BY <1>0, <1>6, PlanFacts DEF Sends, RunOK, Run
  <2> QED
    BY <1>a, <2>1, <2>2 DEF UpgradeTypeOK
<1>7. ASSUME NEW n \in PlanNodes, NodeAnswers(r, n) \/ GivesUp(r, n)
      PROVE  RunsOK' /\ run' \in [Runs -> Run]
  <2>1. RunOK([run[r] EXCEPT !.waiting = @ \ {n}, !.failed = TRUE])
    BY <1>0, <1>7 DEF NodeAnswers, GivesUp, RunOK, Run
  <2>2. RunOK([run[r] EXCEPT !.waiting = @ \ {n}, !.acked = @ \cup {n}])
    BY <1>0, <1>7 DEF NodeAnswers, GivesUp, RunOK, Run
  <2> QED
    BY <1>a, <1>7, <2>1, <2>2 DEF NodeAnswers, GivesUp, UpgradeTypeOK
<1>8. CASE ResumesBatch(r)
  <2>1. RunOK([run[r] EXCEPT !.at = "resumed"])
    BY <1>0, <1>8 DEF ResumesBatch, Answered, RunOK, Run
  <2> QED
    BY <1>a, <1>8, <2>1 DEF ResumesBatch, Moves, UpgradeTypeOK
<1>9. CASE UnitDone(r)
  <2> DEFINE i == run[r].step
  <2>1. PICK at \in {"completing", "checking", "entering"} :
            run' = [run EXCEPT ![r].at = at, ![r].step = i + 1] /\ (at = "checking" => i # Len(Plan))
    BY <1>9 DEF UnitDone, NextUnit
  <2>2. Plan[i].phase # "login" => Plan[i].nodes \subseteq run[r].acked
    BY <1>0, <1>9 DEF UnitDone, UnitOver, Answered, RunOK
  <2>3. i \in 1..Len(Plan)
    BY <1>0, <1>9 DEF UnitDone, UnitOver, Answered, RunOK
  <2>4. \A j \in 1..Len(Plan) : j < i + 1 /\ Plan[j].phase # "login" => Plan[j].nodes \subseteq run[r].acked
    BY <1>0, <2>2, <2>3, PlanFacts DEF RunOK
  <2>5. [run[r] EXCEPT !.at = at, !.step = i + 1] \in Run
    <3>1. i + 1 \in 1..Len(Plan) + 1
      BY <2>3, PlanFacts
    <3>2. ASSUME NEW k \in 1..Len(Plan) + 1
          PROVE  [run[r] EXCEPT !.at = at, !.step = k] \in Run
      BY <1>0, <2>1 DEF Run
    <3> QED
      BY <3>1, <3>2
  <2>6. RunOK([run[r] EXCEPT !.at = at, !.step = i + 1])
    BY <1>0, <1>9, <2>1, <2>3, <2>4, <2>5, PlanFacts DEF UnitDone, UnitOver, Answered, RunOK, Run
  <2> QED
    BY <1>a, <2>1, <2>6 DEF UpgradeTypeOK
<1> QED
  BY <1>1, <1>2, <1>3, <1>4, <1>5, <1>6, <1>7, <1>8, <1>9
  DEF Executes, Registers, Begins, Stops, UnitFails, Completes, Returns

(* Every step, a restart included, leaves each run in order.                                  *)
LEMMA StepRuns ==
    ASSUME UpgradeTypeOK, RunsOK, UpgradeNext
    PROVE  RunsOK' /\ run' \in [Runs -> Run]
<1>1. CASE UpgradeRestarts
  BY <1>1, FreshRuns DEF UpgradeRestarts, RunsOK, RunOK
<1> QED
  BY <1>1, OperatesRuns, ExecutesRuns DEF UpgradeNext

(* As many rows are to be had as there are operations.                                        *)
LEMMA RowsLeft == \A S \in SUBSET Ops : Cardinality(S) \in 0..MaxOps
<1>1. MaxOps \in Nat
  BY UpgradeAssumption DEF UpgradeAssumption
<1>2. IsFiniteSet(Ops) /\ Cardinality(Ops) = MaxOps
  BY <1>1, FS_Interval DEF Ops
<1> QED
  BY <1>1, <1>2, FS_Subset, FS_CardinalityType

(* The rows, the counters and the sets of a step; what runs write is the row of theirs.       *)
LEMMA StepTyped ==
    ASSUME UpgradeTypeOK, RunsOK, UpgradeNext
    PROVE  UpgradeTypeOK'
<1>0. MaxOps \in Nat /\ MaxRuns \in Nat /\ MaxUpgradeFaults \in Nat
  BY UpgradeAssumption DEF UpgradeAssumption
<1>1. run' \in [Runs -> Run] /\ \A r \in Runs : run'[r].at # "free" => run'[r].op \in Ops
  BY StepRuns DEF RunsOK, RunOK
<1>2. \A o \in Ops, s \in Statuses : SetStatus(o, s) => opRow' \in [Ops -> Statuses]
  BY DEF SetStatus, UpgradeTypeOK
<1>3. UpgradeFault => upgradeFaults' \in 0..MaxUpgradeFaults
  BY <1>0 DEF UpgradeFault, UpgradeTypeOK
<1> DEFINE Rest == /\ opRow' \in [Ops -> Statuses]
                   /\ activeRun' \in 0..MaxRuns
                   /\ starting' \in 0..MaxOps /\ pausing' \subseteq Ops
                   /\ drained' \subseteq PlanNodes
                   /\ upgradeFaults' \in 0..MaxUpgradeFaults
<1>4. CASE StartChecks
  <2>1. Cardinality({o \in Ops : opRow[o] = "none"}) \in 0..MaxOps
    BY RowsLeft
  <2>2. starting' \in 0..MaxOps
    BY <1>0, <1>4, <2>1 DEF StartChecks, UpgradeTypeOK
  <2> QED
    BY <1>1, <1>4, <2>2 DEF StartChecks, UpgradeTypeOK
<1>5. CASE StartInserts
  <2>1. starting' \in 0..MaxOps
    BY <1>0, <1>5 DEF StartInserts, UpgradeTypeOK
  <2>2. opRow' \in [Ops -> Statuses] /\ upgradeFaults' \in 0..MaxUpgradeFaults
    BY <1>2, <1>3, <1>5 DEF StartInserts, UpgradeTypeOK, Statuses
  <2> QED
    BY <1>1, <1>5, <2>1, <2>2 DEF StartInserts, UpgradeTypeOK
<1>6. ASSUME NEW o \in Ops, PauseChecks(o) \/ Resumes(o) \/ Pauses(o)
      PROVE  Rest
  <2>1. opRow' \in [Ops -> Statuses] /\ upgradeFaults' \in 0..MaxUpgradeFaults
    BY <1>2, <1>3, <1>6 DEF PauseChecks, Resumes, Pauses, UpgradeTypeOK, Statuses
  <2> QED
    BY <1>6, <2>1 DEF PauseChecks, Resumes, Pauses, UpgradeTypeOK
<1>7. ASSUME NEW o \in Ops, RollsBack(o)
      PROVE  Rest
  <2>1. opRow' \in [Ops -> Statuses] /\ upgradeFaults' \in 0..MaxUpgradeFaults
    BY <1>2, <1>3, <1>7 DEF RollsBack, UpgradeTypeOK, Statuses
  <2>2. Cardinality({p \in Ops : opRow[p] = "none"}) \in 0..MaxOps
    BY RowsLeft
  <2>3. starting' \in 0..MaxOps
    BY <1>0, <1>7, <2>2 DEF RollsBack, UpgradeTypeOK
  <2>4. activeRun' \in 0..MaxRuns
    BY <1>0, <1>7 DEF RollsBack, UpgradeTypeOK
  <2> QED
    BY <1>7, <2>1, <2>3, <2>4 DEF RollsBack, UpgradeTypeOK
<1>8. ASSUME NEW r \in Runs, Executes(r) \/ \E n \in PlanNodes : NodeAnswers(r, n)
      PROVE  Rest
  <2>1. run[r].at # "free" => run[r].op \in Ops
    BY DEF UpgradeTypeOK
  <2>2. opRow' \in [Ops -> Statuses] /\ upgradeFaults' \in 0..MaxUpgradeFaults
    <3>1. \/ UNCHANGED opRow
          \/ run[r].at # "free" /\ \E s \in Statuses : SetStatus(run[r].op, s)
      BY <1>8 DEF Executes, Registers, Begins, EntersPhase, Proceeds, Stops, Drains, Sends, GivesUp, Returns,
                  ResumesBatch, UnitDone, UnitFails, UnitOver, Answered, Completes, NodeAnswers, Statuses
    <3>2. UNCHANGED upgradeFaults \/ UpgradeFault
      BY <1>8 DEF Executes, Registers, Begins, EntersPhase, Proceeds, Stops, Drains, Sends, GivesUp,
                  ResumesBatch, UnitDone, UnitFails, Completes, NodeAnswers
    <3> QED
      BY <1>2, <1>3, <2>1, <3>1, <3>2 DEF UpgradeTypeOK
  <2>3. activeRun' \in 0..MaxRuns
    <3>1. Returns(r) => activeRun' \in {0, activeRun}
      BY DEF Returns
    <3>2. activeRun' \in {0, activeRun, r}
      BY <1>8, <3>1 DEF Executes, Registers, Begins, EntersPhase, Proceeds, Stops, Drains, Sends, GivesUp,
                  ResumesBatch, UnitDone, UnitFails, Completes, NodeAnswers
    <3> QED
      BY <1>0, <3>2 DEF UpgradeTypeOK, Runs
  <2>4. drained' \subseteq PlanNodes
    <3>1. CASE Drains(r)
      <4>1. run[r].step \in 1..Len(Plan)
        BY <3>1 DEF Drains, RunsOK, RunOK
      <4> QED
        BY <3>1, <4>1, PlanFacts DEF Drains, UpgradeTypeOK
    <3>2. CASE ~Drains(r)
      BY <1>8, <3>2 DEF Executes, Registers, Begins, EntersPhase, Proceeds, Stops, Sends, GivesUp,
                  ResumesBatch, UnitDone, UnitFails, Completes, NodeAnswers, UpgradeTypeOK
    <3> QED
      BY <3>1, <3>2
  <2>5. UNCHANGED <<starting, pausing>>
    BY <1>8 DEF Executes, Registers, Begins, EntersPhase, Proceeds, Stops, Drains, Sends, GivesUp,
                ResumesBatch, UnitDone, UnitFails, Completes, NodeAnswers
  <2> QED
    BY <2>2, <2>3, <2>4, <2>5 DEF UpgradeTypeOK
<1>9. CASE UpgradeRestarts
  BY <1>0, <1>1, <1>3, <1>9 DEF UpgradeRestarts, UpgradeTypeOK
<1> QED
  <2>1. Rest => UpgradeTypeOK'
    BY <1>1 DEF UpgradeTypeOK
  <2> QED
    BY <1>4, <1>5, <1>6, <1>7, <1>8, <1>9, <2>1 DEF UpgradeNext, Operates

(* A step of a run either returns or leaves it working for its operation.                     *)
LEMMA StaysOrReturns ==
    ASSUME run \in [Runs -> Run], NEW q \in Runs, Executes(q) \/ \E n \in PlanNodes : NodeAnswers(q, n)
    PROVE  \/ run'[q].at # "free" /\ run'[q].op = run[q].op
           \/ Returns(q) /\ (Begins(q) \/ Stops(q) \/ UnitFails(q) \/ Completes(q))
<1>1. ASSUME NEW at, Moves(q, at), at # "free"
      PROVE  run'[q].at # "free" /\ run'[q].op = run[q].op
  BY <1>1 DEF Moves, Run
<1>2. CASE Registers(q) \/ Drains(q) \/ ResumesBatch(q)
  BY <1>1, <1>2 DEF Registers, Drains, ResumesBatch
<1>3. CASE EntersPhase(q)
  BY <1>1, <1>3 DEF EntersPhase
<1>4. CASE Proceeds(q)
  BY <1>1, <1>4 DEF Proceeds
<1>5. CASE Begins(q)
  BY <1>1, <1>5 DEF Begins
<1>6. CASE Sends(q)
  BY <1>6 DEF Sends, Run
<1>7. CASE \E n \in PlanNodes : GivesUp(q, n) \/ NodeAnswers(q, n)
  <2>1. run[q].at = "waiting" /\ run'[q].at = run[q].at /\ run'[q].op = run[q].op
    BY <1>7 DEF GivesUp, NodeAnswers, Run
  <2> QED
    BY <2>1
<1>8. CASE UnitDone(q)
  <2>1. PICK at \in {"completing", "checking", "entering"} :
            run' = [run EXCEPT ![q].at = at, ![q].step = run[q].step + 1]
    BY <1>8 DEF UnitDone, NextUnit
  <2> QED
    BY <2>1 DEF Run
<1>9. CASE Stops(q) \/ UnitFails(q) \/ Completes(q)
  BY <1>9 DEF Stops, UnitFails, Completes
<1> QED
  BY <1>2, <1>3, <1>4, <1>5, <1>6, <1>7, <1>8, <1>9 DEF Executes

(* A run goes on working for its operation, or its last word is in the row (no fault, no run  *)
(* without a last word).                                                                      *)
LEMMA RunsGoOn ==
    ASSUME UpgradeInv, UpgradeNext, upgradeFaults' = 0, NEW q \in Runs, Live(q)
    PROVE  \/ run'[q].at # "free" /\ run'[q].op = run[q].op
           \/ opRow'[run[q].op] \in {"paused", "failed", "completed"}
<1>0. /\ run[q].op \in Ops /\ run[q] \in Run /\ opRow \in [Ops -> Statuses] /\ run \in [Runs -> Run]
      /\ upgradeFaults \in Nat
  BY DEF UpgradeInv, UpgradeTypeOK, Live
<1>1. ~UpgradeFault
  BY <1>0 DEF UpgradeFault
<1>2. CASE Operates
  <2>1. CASE UNCHANGED run
    BY <2>1 DEF Live
  <2>2. ASSUME NEW o \in Ops, Launches(o)
        PROVE  run'[q] = run[q]
    BY <1>0, <2>2 DEF Launches, Live
  <2>3. ASSUME NEW o \in Ops, Pauses(o)
        PROVE  run'[q].at = run[q].at /\ run'[q].op = run[q].op
    BY <1>0, <2>3 DEF Pauses, Run
  <2>4. ASSUME NEW o \in Ops, RollsBack(o)
        PROVE  run'[q].at = run[q].at /\ run'[q].op = run[q].op
    <3>1. run'[q] = run[q] \/ run'[q] = [run[q] EXCEPT !.canceled = TRUE]
      BY <2>4 DEF RollsBack
    <3> QED
      BY <1>0, <3>1 DEF Run
  <2> QED
    BY <1>2, <2>1, <2>2, <2>3, <2>4 DEF Operates, StartChecks, StartInserts, PauseChecks, Resumes, Live
<1>3. ASSUME NEW r \in Runs, Executes(r) \/ \E n \in PlanNodes : NodeAnswers(r, n), r # q
      PROVE  run'[q] = run[q]
  BY <1>0, <1>3 DEF Executes, Registers, Begins, EntersPhase, Proceeds, Stops, Drains, Sends, GivesUp, Returns,
              ResumesBatch, UnitDone, UnitFails, NextUnit, Completes, NodeAnswers, Moves
<1>4. CASE Executes(q) \/ \E n \in PlanNodes : NodeAnswers(q, n)
  <2>1. CASE Returns(q) /\ (Begins(q) \/ Stops(q) \/ UnitFails(q) \/ Completes(q))
    <3>1. run'[q].at = "free"
      BY <1>0, <2>1 DEF Returns, IdleRun, NewRun
    <3>2. ~(Begins(q) /\ Moves(q, "entering"))
      BY <1>0, <3>1 DEF Moves, Run
    <3>3. \E s \in {"paused", "failed", "completed"} : SetStatus(run[q].op, s)
      BY <1>1, <2>1, <3>2 DEF Begins, Stops, UnitFails, Completes
    <3> QED
      BY <1>0, <3>3 DEF SetStatus
  <2> QED
    BY <1>0, <1>4, <2>1, StaysOrReturns
<1>5. CASE UpgradeRestarts
  BY <1>1, <1>5 DEF UpgradeRestarts
<1> QED
  BY <1>2, <1>3, <1>4, <1>5 DEF UpgradeNext, Live

(* Only a run that goes on, or is started with it, writes queued or in_progress.              *)
LEMMA RowsHaveWriters ==
    ASSUME UpgradeInv, UpgradeNext, NEW o \in Ops,
           opRow'[o] \in {"queued", "in_progress"}, opRow'[o] # opRow[o]
    PROVE  \E q \in Runs : run'[q].at # "free" /\ run'[q].op = o
<1>0. opRow \in [Ops -> Statuses] /\ run \in [Runs -> Run]
  BY DEF UpgradeInv, UpgradeTypeOK
<1>1. CASE StartInserts
  <2>1. PICK p \in Ops : SetStatus(p, "queued") /\ Launches(p)
    BY <1>1 DEF StartInserts
  <2>2. p = o
    BY <1>0, <2>1 DEF SetStatus
  <2>3. PICK q \in Runs : run' = [run EXCEPT ![q] = NewRun(o)]
    BY <2>1, <2>2 DEF Launches
  <2> QED
    BY <1>0, <2>3 DEF NewRun
<1>2. CASE Operates /\ ~StartInserts
  BY <1>0, <1>2 DEF Operates, StartChecks, PauseChecks, Pauses, Resumes, RollsBack, SetStatus
<1>3. ASSUME NEW r \in Runs, Executes(r) \/ \E n \in PlanNodes : NodeAnswers(r, n)
      PROVE  run'[r].at # "free" /\ run'[r].op = o
  <2>1. \/ Moves(r, "entering") /\ SetStatus(run[r].op, "in_progress")
        \/ EntersPhase(r) /\ SetStatus(run[r].op, "in_progress")
        \/ Drains(r)
    BY <1>0, <1>3 DEF Executes, Registers, Begins, EntersPhase, Proceeds, Stops, Drains, Sends, GivesUp,
              ResumesBatch, UnitDone, UnitFails, NextUnit, Completes, NodeAnswers, SetStatus
  <2>2. run[r].op = o
    BY <1>0, <2>1 DEF Drains, SetStatus
  <2> QED
    <3>1. \E at \in {"entering", "completing", "checking", "sending"} : Moves(r, at)
      BY <2>1 DEF Begins, EntersPhase, Drains
    <3> QED
      BY <1>0, <2>2, <3>1 DEF Moves, Run
<1> QED
  BY <1>1, <1>2, <1>3 DEF UpgradeNext, UpgradeRestarts

(* A live operation row has a run that works on it, unless a failure was met.                 *)
LEMMA StepInProgress ==
    ASSUME UpgradeInv, UpgradeNext
    PROVE  InProgressHasRun'
<1> SUFFICES ASSUME NEW o \in Ops, opRow'[o] \in {"queued", "in_progress"}, ~(upgradeFaults' > 0)
             PROVE  \E q \in Runs : run'[q].at # "free" /\ run'[q].op = o
  BY DEF InProgressHasRun, Live
<1>1. UpgradeTypeOK' /\ upgradeFaults \in Nat
  BY StepTyped DEF UpgradeInv, UpgradeTypeOK
<1>2. upgradeFaults' = 0
  BY <1>1 DEF UpgradeTypeOK
<1>3. ~(upgradeFaults > 0)
  <2>1. UNCHANGED upgradeFaults \/ UpgradeFault
    BY DEF UpgradeNext, Operates, StartChecks, StartInserts, PauseChecks, Pauses, Resumes, RollsBack, Executes,
           Registers, Begins, EntersPhase, Proceeds, Stops, Drains, Sends, GivesUp, ResumesBatch, UnitDone,
           UnitFails, Completes, NodeAnswers, UpgradeRestarts
  <2> QED
    BY <1>1, <1>2, <2>1 DEF UpgradeFault
<1>4. CASE opRow'[o] = opRow[o]
  <2>1. PICK q \in Runs : Live(q) /\ run[q].op = o
    BY <1>3, <1>4 DEF UpgradeInv, InProgressHasRun
  <2> QED
    BY <1>2, <2>1, RunsGoOn
<1> QED
  BY <1>4, RowsHaveWriters

(* Nodes are drained by the run whose batch they are, until the controller resumes them.      *)
LEMMA StepDrained ==
    ASSUME UpgradeInv, UpgradeNext
    PROVE  Resumers' /\ DrainedIsWorkedOn'
<1>0. /\ run \in [Runs -> Run] /\ drained \subseteq PlanNodes /\ RunsOK
      /\ upgradeFaults \in Nat /\ UpgradeTypeOK'
  BY StepTyped DEF UpgradeInv, UpgradeTypeOK
<1> DEFINE Works(n, r) == /\ run[r].at \in {"sending", "waiting"}
                          /\ n \in Plan[run[r].step].nodes /\ Plan[run[r].step].phase = "compute"
           WorksNext(n, r) == /\ run'[r].at \in {"sending", "waiting"}
                              /\ n \in Plan[run'[r].step].nodes /\ Plan[run'[r].step].phase = "compute"
<1>1. UNCHANGED upgradeFaults \/ (UpgradeFault /\ upgradeFaults' > 0)
  <2>1. UNCHANGED upgradeFaults \/ UpgradeFault
    BY DEF UpgradeNext, Operates, StartChecks, StartInserts, PauseChecks, Pauses, Resumes, RollsBack, Executes,
           Registers, Begins, EntersPhase, Proceeds, Stops, Drains, Sends, GivesUp, ResumesBatch, UnitDone,
           UnitFails, Completes, NodeAnswers, UpgradeRestarts
  <2> QED
    BY <1>0, <2>1 DEF UpgradeFault
<1>2. \/ drained' \subseteq drained
      \/ \E r \in Runs : Drains(r) /\ HasController /\ drained' = drained \cup Plan[run[r].step].nodes
  <2>1. ASSUME NEW r \in Runs, Drains(r)
        PROVE  \/ drained' \subseteq drained
               \/ HasController /\ drained' = drained \cup Plan[run[r].step].nodes
    BY <2>1 DEF Drains
  <2> QED
    BY <2>1 DEF UpgradeNext, Operates, StartChecks, StartInserts, PauseChecks, Pauses, Resumes, RollsBack,
           Executes, Registers, Begins, EntersPhase, Proceeds, Stops, Sends, GivesUp, ResumesBatch, UnitDone,
           UnitFails, Completes, NodeAnswers, UpgradeRestarts
<1>3. Resumers'
  BY <1>2 DEF UpgradeInv, Resumers, HasController
<1>4. ASSUME NEW n \in drained', NEW r \in Runs, Works(n, r), HasController, ~(upgradeFaults' > 0)
      PROVE  WorksNext(n, r)
  <2>1. CASE Operates
    <3>1. run'[r].at = run[r].at /\ run'[r].step = run[r].step
      <4>1. CASE UNCHANGED run
        BY <4>1
      <4>2. ASSUME NEW o \in Ops, Launches(o)
            PROVE  run'[r] = run[r]
        BY <1>0, <1>4, <4>2 DEF Launches
      <4>3. ASSUME NEW o \in Ops, Pauses(o)
            PROVE  run'[r].at = run[r].at /\ run'[r].step = run[r].step
        BY <1>0, <4>3 DEF Pauses, Run
      <4>4. ASSUME NEW o \in Ops, RollsBack(o)
            PROVE  run'[r].at = run[r].at /\ run'[r].step = run[r].step
        <5>1. run'[r] = run[r] \/ run'[r] = [run[r] EXCEPT !.canceled = TRUE]
          BY <4>4 DEF RollsBack
        <5> QED
          BY <1>0, <5>1 DEF Run
      <4> QED
        BY <2>1, <4>1, <4>2, <4>3, <4>4 DEF Operates, StartChecks, StartInserts, PauseChecks, Resumes
    <3> QED
      BY <1>4, <3>1
  <2>2. ASSUME NEW q \in Runs, q # r, Executes(q) \/ \E m \in PlanNodes : NodeAnswers(q, m)
        PROVE  run'[r] = run[r]
    BY <1>0, <2>2 DEF Executes, Registers, Begins, EntersPhase, Proceeds, Stops, Drains, Sends, GivesUp, Returns,
              ResumesBatch, UnitDone, UnitFails, NextUnit, Completes, NodeAnswers, Moves
  <2>3. CASE Sends(r) \/ \E m \in PlanNodes : GivesUp(r, m) \/ NodeAnswers(r, m)
    <3>1. run'[r].at = "waiting" /\ run'[r].step = run[r].step
      <4>1. CASE Sends(r)
        BY <1>0, <4>1 DEF Sends, Run
      <4>2. ASSUME NEW m \in PlanNodes, GivesUp(r, m) \/ NodeAnswers(r, m)
            PROVE  run'[r].at = "waiting" /\ run'[r].step = run[r].step
        BY <1>0, <4>2 DEF GivesUp, NodeAnswers, Run
      <4> QED
        BY <2>3, <4>1, <4>2
    <3> QED
      BY <1>4, <3>1
  <2>4. ~(Executes(r) /\ ~Sends(r) /\ ~\E m \in PlanNodes : GivesUp(r, m))
    <3>1. CASE ResumesBatch(r)
      BY <1>0, <1>4, <3>1 DEF ResumesBatch, UpgradeFault
    <3>2. ~Resumable(r) => FALSE
      BY <1>4 DEF Resumable
    <3> QED
      BY <1>4, <3>1, <3>2 DEF Executes, Registers, Begins, EntersPhase, Proceeds, Stops, Drains, UnitDone,
                              UnitFails, UnitOver, Completes
  <2>5. ~UpgradeRestarts
    BY <1>1, <1>0, <1>4 DEF UpgradeRestarts, UpgradeFault
  <2> QED
    BY <1>4, <2>1, <2>2, <2>3, <2>4, <2>5 DEF UpgradeNext
<1>5. ASSUME NEW r \in Runs, Drains(r), NEW n \in Plan[run[r].step].nodes
      PROVE  WorksNext(n, r)
  <2>1. run'[r].at = "sending" /\ run'[r].step = run[r].step
    BY <1>0, <1>5 DEF Drains, Moves, Run
  <2>2. Plan[run[r].step].phase = "compute"
    BY <1>0, <1>5 DEF Drains, RunsOK, RunOK
  <2> QED
    BY <1>5, <2>1, <2>2
<1>6. ASSUME NEW n \in drained', ~(upgradeFaults' > 0)
      PROVE  \E r \in Runs : WorksNext(n, r)
  <2>1. CASE n \in drained
    <3>1. ~(upgradeFaults > 0)
      BY <1>0, <1>1, <1>6
    <3>2. PICK r \in Runs : Works(n, r)
      BY <2>1, <3>1 DEF UpgradeInv, DrainedIsWorkedOn
    <3>3. HasController
      BY <2>1 DEF UpgradeInv, Resumers
    <3> QED
      BY <1>4, <1>6, <3>2, <3>3
  <2>2. CASE n \notin drained
    BY <1>2, <1>5, <1>6, <2>2
  <2> QED
    BY <2>1, <2>2
<1>7. DrainedIsWorkedOn'
  BY <1>6 DEF DrainedIsWorkedOn
<1> QED
  BY <1>3, <1>7

(* The inductive invariant of the runs and their rows.                                        *)
THEOREM UpgradeIsInvariant == UpgradeSpec => []UpgradeInv
<1>1. UpgradeInit => UpgradeInv
  <2> SUFFICES ASSUME UpgradeInit PROVE UpgradeInv
    OBVIOUS
  <2>0. MaxOps \in Nat /\ MaxRuns \in Nat /\ MaxUpgradeFaults \in Nat
    BY UpgradeAssumption DEF UpgradeAssumption
  <2>1. RunsOK
    BY FreshRuns DEF UpgradeInit, RunsOK
  <2>2. UpgradeTypeOK
    BY <2>0, FreshRuns DEF UpgradeInit, UpgradeTypeOK, Statuses, RunOK
  <2> QED
    BY <2>1, <2>2 DEF UpgradeInit, UpgradeInv, InProgressHasRun, Resumers, DrainedIsWorkedOn
<1>2. UpgradeInv /\ [UpgradeNext]_upgradeVars => UpgradeInv'
  <2> SUFFICES ASSUME UpgradeInv, [UpgradeNext]_upgradeVars PROVE UpgradeInv'
    OBVIOUS
  <2>1. CASE UpgradeNext
    BY <2>1, StepTyped, StepRuns, StepInProgress, StepDrained DEF UpgradeInv
  <2>2. CASE UNCHANGED upgradeVars
    BY <2>2 DEF upgradeVars, UpgradeInv, UpgradeTypeOK, RunsOK, InProgressHasRun, Live, Resumers, DrainedIsWorkedOn
  <2> QED
    BY <2>1, <2>2
<1> QED
  BY <1>1, <1>2, PTL DEF UpgradeSpec

(* The types of the rows, the runs and the sets of an upgrade.                                *)
THEOREM UpgradeTypeCorrect == UpgradeSpec => []UpgradeTypeOK
<1>1. UpgradeInv => UpgradeTypeOK
  BY DEF UpgradeInv
<1> QED
  BY <1>1, UpgradeIsInvariant, PTL

(* No run passes a unit, but for login nodes, that was not acknowledged to it in full.        *)
THEOREM EarlierUnitsAreDone == UpgradeSpec => []EarlierUnitsDone
<1>1. UpgradeInv => EarlierUnitsDone
  BY PlanFacts DEF UpgradeInv, RunsOK, RunOK, EarlierUnitsDone
<1> QED
  BY <1>1, UpgradeIsInvariant, PTL

(* An upgrade that the table says is under way has a run, faults apart.                       *)
THEOREM UpgradesHaveRuns == UpgradeSpec => []InProgressHasRun
<1>1. UpgradeInv => InProgressHasRun
  BY DEF UpgradeInv
<1> QED
  BY <1>1, UpgradeIsInvariant, PTL

(* No node is left drained behind a run, faults apart.                                        *)
THEOREM DrainedNodesAreWorkedOn == UpgradeSpec => []DrainedIsWorkedOn
<1>1. UpgradeInv => DrainedIsWorkedOn
  BY DEF UpgradeInv
<1> QED
  BY <1>1, UpgradeIsInvariant, PTL
-----------------------------------------------------------------------------
(* Where a run stands in its walk: nowhere, at the end, or waiting for nodes of its unit.     *)
InStep(x) ==
    /\ x.at = "free" => x.op = 0 /\ x.step = 1 /\ x.acked = {}
    /\ x.at = "completing" => x.step = Len(Plan) + 1
    /\ x.at = "waiting" => x.waiting \subseteq Plan[x.step].nodes
InSteps == \A r \in Runs : InStep(run[r])
(* Only an operation that has a row is paused.                                                *)
PausesRows == \A o \in pausing : opRow[o] # "none"

(* The walk of one run is what a step of it changes.                                          *)
LEMMA OneInStep ==
    ASSUME UpgradeTypeOK, InSteps, NEW r \in Runs, NEW x, InStep(x), run' = [run EXCEPT ![r] = x]
    PROVE  InSteps'
BY DEF UpgradeTypeOK, InSteps, InStep

(* A run that is not there, and one that begins.                                              *)
LEMMA FreshInStep == InStep(IdleRun) /\ \A o \in Ops : InStep(NewRun(o))
BY DEF InStep, IdleRun, NewRun

(* Operators start runs, and pause and cancel them where they are.                            *)
LEMMA OperatesInStep ==
    ASSUME UpgradeTypeOK, InSteps, Operates
    PROVE  InSteps'
<1>1. CASE UNCHANGED run
  BY <1>1 DEF InSteps
<1>2. ASSUME NEW o \in Ops, Launches(o)
      PROVE  InSteps'
  BY <1>2, FreshInStep, OneInStep DEF Launches
<1>3. ASSUME NEW r \in Runs
      PROVE  InStep([run[r] EXCEPT !.paused = TRUE]) /\ InStep([run[r] EXCEPT !.canceled = TRUE])
  BY DEF InSteps, InStep, UpgradeTypeOK, Run
<1>4. ASSUME NEW o \in Ops, Pauses(o)
      PROVE  InSteps'
  <2>1. \A r \in Runs : run'[r] = run[r] \/ run'[r] = [run[r] EXCEPT !.paused = TRUE]
    BY <1>4 DEF Pauses
  <2> QED
    BY <1>3, <2>1 DEF InSteps
<1>5. ASSUME NEW o \in Ops, RollsBack(o)
      PROVE  InSteps'
  <2>1. \A r \in Runs : run'[r] = run[r] \/ run'[r] = [run[r] EXCEPT !.canceled = TRUE]
    BY <1>5 DEF RollsBack
  <2> QED
    BY <1>3, <2>1 DEF InSteps
<1> QED
  BY <1>1, <1>2, <1>4, <1>5 DEF Operates, StartChecks, StartInserts, PauseChecks, Resumes

(* A run completes only behind its last unit, and waits for no node of another.               *)
LEMMA ExecutesInStep ==
    ASSUME UpgradeTypeOK, RunsOK, InSteps, NEW r \in Runs,
           Executes(r) \/ \E n \in PlanNodes : NodeAnswers(r, n)
    PROVE  InSteps'
<1> DEFINE Fine(x) == InStep(x) /\ run' = [run EXCEPT ![r] = x]
<1>a. (\E x : Fine(x)) => InSteps'
  BY OneInStep
<1>0. RunOK(run[r]) /\ run[r] \in Run /\ InStep(run[r])
  BY DEF RunsOK, RunOK, InSteps
<1>1. ASSUME Returns(r)
      PROVE  InSteps'
  BY <1>1, FreshInStep, OneInStep DEF Returns
<1>2. ASSUME NEW at \in {"registered", "entering", "checking", "draining", "sending", "resumed"}, Moves(r, at)
      PROVE  InSteps'
  <2>1. InStep([run[r] EXCEPT !.at = at])
    BY <1>0 DEF InStep, Run
  <2> QED
    BY <1>2, <2>1, OneInStep DEF Moves, UpgradeTypeOK
<1>3. CASE EntersPhase(r)
  <2>1. CASE run[r].step > Len(Plan)
    <3>1. run[r].step = Len(Plan) + 1
      BY <1>0, <2>1, PlanFacts DEF Run
    <3>2. InStep([run[r] EXCEPT !.at = "completing"])
      BY <1>0, <3>1 DEF InStep, Run
    <3> QED
      BY <1>3, <2>1, <3>2, OneInStep DEF EntersPhase, Moves, UpgradeTypeOK
  <2> QED
    BY <1>2, <1>3, <2>1 DEF EntersPhase
<1>4. CASE Sends(r)
  <2>1. PICK offline \in SUBSET Plan[run[r].step].nodes :
            run' = [run EXCEPT ![r].at = "waiting", ![r].waiting = Plan[run[r].step].nodes \ offline,
                               ![r].failed = offline # {}]
    BY <1>4 DEF Sends
  <2>2. InStep([run[r] EXCEPT !.at = "waiting", !.waiting = Plan[run[r].step].nodes \ offline,
                              !.failed = offline # {}])
    BY <1>0 DEF InStep, Run
  <2> QED
    BY <2>1, <2>2, OneInStep DEF UpgradeTypeOK
<1>5. ASSUME NEW n \in PlanNodes, NodeAnswers(r, n) \/ GivesUp(r, n)
      PROVE  InSteps'
  <2>1. InStep([run[r] EXCEPT !.waiting = @ \ {n}, !.failed = TRUE])
    BY <1>0, <1>5 DEF NodeAnswers, GivesUp, InStep, Run
  <2>2. InStep([run[r] EXCEPT !.waiting = @ \ {n}, !.acked = @ \cup {n}])
    BY <1>0, <1>5 DEF NodeAnswers, GivesUp, InStep, Run
  <2> QED
    BY <1>a, <1>5, <2>1, <2>2 DEF NodeAnswers, GivesUp, UpgradeTypeOK
<1>6. CASE UnitDone(r)
  <2> DEFINE i == run[r].step
  <2>1. PICK at \in {"completing", "checking", "entering"} :
            run' = [run EXCEPT ![r].at = at, ![r].step = i + 1] /\ (at = "completing" => i = Len(Plan))
    BY <1>6 DEF UnitDone, NextUnit
  <2>2. InStep([run[r] EXCEPT !.at = at, !.step = i + 1])
    BY <1>0, <2>1 DEF InStep, Run
  <2> QED
    BY <2>1, <2>2, OneInStep DEF UpgradeTypeOK
<1> QED
  BY <1>1, <1>2, <1>3, <1>4, <1>5, <1>6 DEF Executes, Registers, Begins, Proceeds, Stops, Drains, ResumesBatch,
     UnitFails, Completes

(* A row, once made, stays.                                                                   *)
LEMMA RowsStay ==
    ASSUME UpgradeTypeOK, RunsOK, PausesRows, UpgradeNext
    PROVE  PausesRows'
<1>0. opRow \in [Ops -> Statuses] /\ pausing \subseteq Ops
  BY DEF UpgradeTypeOK
<1>1. UNCHANGED opRow \/ \E o \in Ops, s \in Statuses \ {"none"} : SetStatus(o, s)
  <2>1. ASSUME NEW r \in Runs, Executes(r) \/ \E n \in PlanNodes : NodeAnswers(r, n)
        PROVE  UNCHANGED opRow \/ \E s \in Statuses \ {"none"} : run[r].at # "free" /\ SetStatus(run[r].op, s)
    BY <2>1 DEF Executes, Registers, Begins, EntersPhase, Proceeds, Stops, Drains, Sends, GivesUp, Returns,
                ResumesBatch, UnitDone, UnitFails, UnitOver, Answered, Completes, NodeAnswers, Statuses
  <2>2. \A r \in Runs : run[r].at # "free" => run[r].op \in Ops
    BY DEF UpgradeTypeOK
  <2> QED
    BY <2>1, <2>2 DEF UpgradeNext, Operates, StartChecks, StartInserts, PauseChecks, Pauses, Resumes, RollsBack,
       UpgradeRestarts, Statuses
<1>2. \A o \in Ops : opRow[o] # "none" => opRow'[o] # "none"
  BY <1>0, <1>1 DEF SetStatus
<1>3. ASSUME NEW o \in pausing'
      PROVE  o \in Ops /\ opRow[o] # "none"
  BY <1>0, <1>3 DEF UpgradeNext, Operates, StartChecks, StartInserts, PauseChecks, Pauses, Resumes, RollsBack,
     Executes, Registers, Begins, EntersPhase, Proceeds, Stops, Drains, Sends, GivesUp, ResumesBatch, UnitDone,
     UnitFails, Completes, NodeAnswers, UpgradeRestarts, InProgress, PausesRows
<1> QED
  BY <1>2, <1>3 DEF PausesRows

(* The invariant under which runs are crews.                                                  *)
WalkInv == UpgradeTypeOK /\ RunsOK /\ InSteps /\ PausesRows

THEOREM WalkIsInvariant == UpgradeSpec => []WalkInv
<1>1. UpgradeInit => InSteps /\ PausesRows
  BY FreshInStep DEF UpgradeInit, InSteps, PausesRows
<1>2. UpgradeTypeOK /\ RunsOK /\ InSteps /\ PausesRows /\ [UpgradeNext]_upgradeVars => InSteps' /\ PausesRows'
  <2> SUFFICES ASSUME UpgradeTypeOK, RunsOK, InSteps, PausesRows, [UpgradeNext]_upgradeVars
               PROVE  InSteps' /\ PausesRows'
    OBVIOUS
  <2>1. CASE UpgradeNext
    <3>1. UpgradeRestarts => InSteps'
      BY FreshInStep DEF UpgradeRestarts, InSteps
    <3>2. InSteps'
      BY <2>1, <3>1, OperatesInStep, ExecutesInStep DEF UpgradeNext
    <3> QED
      BY <2>1, <3>2, RowsStay
  <2>2. CASE UNCHANGED upgradeVars
    BY <2>2 DEF upgradeVars, InSteps, PausesRows
  <2> QED
    BY <2>1, <2>2
<1>3. UpgradeInv => UpgradeTypeOK /\ RunsOK
  BY DEF UpgradeInv
<1> QED
  BY <1>1, <1>2, <1>3, UpgradeIsInvariant, PTL DEF UpgradeSpec, WalkInv
-----------------------------------------------------------------------------
(* No run is no crew, and one that begins is a crew at the first unit.                        *)
LEMMA FreshCrews ==
    /\ CrewOf(IdleRun) = Phased!NoCrew
    /\ \A o \in Ops : CrewOf(NewRun(o)) = Phased!NewCrew(o)
<1>1. CrewOf(IdleRun) = Phased!NoCrew
  BY DEF CrewOf, IdleRun, NewRun, Phased!NoCrew, Phased!NewCrew
<1>2. ASSUME NEW o \in Ops
      PROVE  CrewOf(NewRun(o)) = Phased!NewCrew(o)
  BY DEF CrewOf, NewRun, Phased!NewCrew
<1> QED
  BY <1>1, <1>2

(* When one run changes, one crew does.                                                       *)
LEMMA OneCrew ==
    ASSUME UpgradeTypeOK, NEW r \in Runs, NEW x, run' = [run EXCEPT ![r] = x]
    PROVE  Crewed' = [Crewed EXCEPT ![r] = CrewOf(x)]
<1>1. \A q \in Runs : run'[q] = IF q = r THEN x ELSE run[q]
  BY DEF UpgradeTypeOK
<1>2. Crewed' = [q \in Runs |-> CrewOf(run'[q])]
  BY DEF Crewed, CrewOf
<1>3. Crewed' = [q \in Runs |-> IF q = r THEN CrewOf(x) ELSE CrewOf(run[q])]
  BY <1>1, <1>2
<1> QED
  BY <1>3 DEF Crewed

(* Where no run is seen to move, no crew does.                                                *)
LEMMA SameCrews ==
    ASSUME \A q \in Runs : CrewOf(run'[q]) = CrewOf(run[q])
    PROVE  Crewed' = Crewed
<1>1. Crewed' = [q \in Runs |-> CrewOf(run'[q])]
  BY DEF Crewed, CrewOf
<1> QED
  BY <1>1 DEF Crewed

(* What a crew is seen to be.                                                                 *)
LEMMA CrewIs ==
    \A r \in Runs : /\ Crewed[r] = CrewOf(run[r])
                    /\ Crewed[r].op = run[r].op /\ Crewed[r].unit = run[r].step /\ Crewed[r].agreed = run[r].acked
                    /\ Crewed[r].holds <=> run[r].at \in {"sending", "waiting"} /\ Resumable(r)
                    /\ Phased!AtWork(r) <=> run[r].op # 0
                    /\ Phased!Unit(r) = Plan[run[r].step]
<1>1. \A r \in Runs : Crewed[r] = CrewOf(run[r])
  BY DEF Crewed
<1>2. \A x : CrewOf(x).op = x.op /\ CrewOf(x).unit = x.step /\ CrewOf(x).agreed = x.acked
  BY DEF CrewOf
<1>3. \A r \in Runs : CrewOf(run[r]).holds <=> run[r].at \in {"sending", "waiting"} /\ Resumable(r)
  BY DEF CrewOf, Resumable
<1> QED
  BY <1>1, <1>2, <1>3 DEF Phased!AtWork, Phased!Unit

(* One field of a crew changes.                                                               *)
LEMMA CrewFields ==
    ASSUME NEW x, NEW v
    PROVE  LET holds == x.at \in {"sending", "waiting"} /\ Plan[x.step].phase = "compute" /\ HasController
           IN  /\ [CrewOf(x) EXCEPT !.holds = v]
                    = [op |-> x.op, unit |-> x.step, agreed |-> x.acked, holds |-> v]
               /\ [CrewOf(x) EXCEPT !.agreed = v]
                    = [op |-> x.op, unit |-> x.step, agreed |-> v, holds |-> holds]
               /\ [CrewOf(x) EXCEPT !.unit = v]
                    = [op |-> x.op, unit |-> v, agreed |-> x.acked, holds |-> holds]
<1> DEFINE c == CrewOf(x)
           holds == x.at \in {"sending", "waiting"} /\ Plan[x.step].phase = "compute" /\ HasController
<1>1. c = [op |-> x.op, unit |-> x.step, agreed |-> x.acked, holds |-> holds]
  BY DEF CrewOf
<1> HIDE DEF c, holds
<1>2. /\ [c EXCEPT !.holds = v] = [op |-> x.op, unit |-> x.step, agreed |-> x.acked, holds |-> v]
      /\ [c EXCEPT !.agreed = v] = [op |-> x.op, unit |-> x.step, agreed |-> v, holds |-> holds]
      /\ [c EXCEPT !.unit = v] = [op |-> x.op, unit |-> v, agreed |-> x.acked, holds |-> holds]
  BY <1>1
<1> QED
  BY <1>2 DEF c, holds

(* A run that is there is a crew at work.                                                     *)
LEMMA LiveAtWork == ASSUME WalkInv, NEW r \in Runs, Live(r) PROVE Phased!AtWork(r)
<1>1. run[r].op \in Ops
  BY DEF WalkInv, UpgradeTypeOK, Live
<1>2. run[r].op # 0
  BY <1>1 DEF Ops
<1> QED
  BY <1>2, CrewIs

(* A new goroutine is a new crew.                                                             *)
LEMMA Launching ==
    ASSUME WalkInv, NEW o \in Ops, Launches(o), UNCHANGED <<drained, upgradeFaults>>,
           \/ opRow[o] = "none" /\ SetStatus(o, "queued")
           \/ opRow[o] = "paused" /\ UNCHANGED opRow
    PROVE  Phased!Next
<1>1. PICK r \in Runs : run[r].at = "free" /\ run' = [run EXCEPT ![r] = NewRun(o)]
  BY DEF Launches
<1>2. Crewed' = [Crewed EXCEPT ![r] = Phased!NewCrew(o)]
  BY <1>1, OneCrew, FreshCrews DEF WalkInv
<1>3. ~Phased!AtWork(r)
  BY <1>1, CrewIs DEF WalkInv, InSteps, InStep
<1>4. Phased!Start(o, r)
  BY <1>2, <1>3 DEF Phased!Start, SetStatus
<1> QED
  BY <1>4 DEF Phased!Next

(* What operators ask for.                                                                    *)
LEMMA OperatesPhased ==
    ASSUME WalkInv, Operates
    PROVE  [Phased!Next]_Phased!vars
<1>0. opRow \in [Ops -> Statuses] /\ run \in [Runs -> Run] /\ pausing \subseteq Ops
  BY DEF WalkInv, UpgradeTypeOK
<1>1. CASE StartChecks \/ \E o \in Ops : PauseChecks(o)
  <2>1. Crewed' = Crewed
    BY <1>1, SameCrews DEF StartChecks, PauseChecks
  <2> QED
    BY <1>1, <2>1 DEF StartChecks, PauseChecks, Phased!vars
<1>2. CASE StartInserts
  <2>1. CASE UpgradeFault /\ UNCHANGED <<opRow, run>>
    <3>1. Crewed' = Crewed
      BY <2>1, SameCrews
    <3>2. Phased!Mishap
      BY <1>2, <2>1, <3>1 DEF StartInserts, UpgradeFault, Phased!Mishap, Phased!Slip
    <3> QED
      BY <3>2 DEF Phased!Next
  <2>2. CASE UNCHANGED upgradeFaults /\ \E o \in Ops : opRow[o] = "none" /\ SetStatus(o, "queued") /\ Launches(o)
    BY <1>2, <2>2, Launching DEF StartInserts
  <2> QED
    BY <1>2, <2>1, <2>2 DEF StartInserts
<1>3. CASE \E o \in Ops : Resumes(o)
  BY <1>3, Launching DEF Resumes
<1>4. ASSUME NEW o \in Ops, Pauses(o)
      PROVE  Phased!Next
  <2>1. \A r \in Runs : run'[r] = run[r] \/ run'[r] = [run[r] EXCEPT !.paused = TRUE]
    BY <1>4 DEF Pauses
  <2>2. Crewed' = Crewed
    <3>1. \A r \in Runs : CrewOf([run[r] EXCEPT !.paused = TRUE]) = CrewOf(run[r])
      BY <1>0 DEF CrewOf, Run
    <3> QED
      BY <2>1, <3>1, SameCrews
  <2>3. Phased!Says(o, "paused")
    BY <1>4 DEF Pauses, SetStatus, UpgradeFault, Phased!Says, Phased!Slip
  <2>4. Phased!Pause(o)
    BY <1>4, <2>2, <2>3 DEF Pauses, Phased!Pause, WalkInv, PausesRows
  <2> QED
    BY <2>4 DEF Phased!Next
<1>5. ASSUME NEW o \in Ops, RollsBack(o)
      PROVE  Phased!Next
  <2>1. \A r \in Runs : run'[r] = run[r] \/ run'[r] = [run[r] EXCEPT !.canceled = TRUE]
    BY <1>5 DEF RollsBack
  <2>2. Crewed' = Crewed
    <3>1. \A r \in Runs : CrewOf([run[r] EXCEPT !.canceled = TRUE]) = CrewOf(run[r])
      BY <1>0 DEF CrewOf, Run
    <3> QED
      BY <2>1, <3>1, SameCrews
  <2>3. Phased!Says(o, "rolled_back")
    BY <1>5 DEF RollsBack, SetStatus, UpgradeFault, Phased!Says, Phased!Slip
  <2>4. Phased!RollBack(o)
    BY <1>5, <2>2, <2>3 DEF RollsBack, Phased!RollBack
  <2> QED
    BY <2>4 DEF Phased!Next
<1> QED
  BY <1>1, <1>2, <1>3, <1>4, <1>5 DEF Operates

(* A run that returns with a word is a crew that leaves with it.                              *)
LEMMA Leaving ==
    ASSUME WalkInv, NEW r \in Runs, Live(r), NEW s \in Phased!Finals,
           ~(run[r].at \in {"sending", "waiting"} /\ Resumable(r)),
           Returns(r), Phased!Says(run[r].op, s), UNCHANGED drained,
           s = "completed" => run[r].step = Len(Plan) + 1
    PROVE  Phased!Next
<1>1. Crewed' = [Crewed EXCEPT ![r] = Phased!NoCrew]
  BY OneCrew, FreshCrews DEF Returns, WalkInv
<1>2. Phased!AtWork(r) /\ ~Crewed[r].holds /\ Crewed[r].op = run[r].op /\ Crewed[r].unit = run[r].step
  BY CrewIs, LiveAtWork
<1>3. Phased!Leave(r, s)
  BY <1>1, <1>2 DEF Phased!Leave
<1> QED
  BY <1>3 DEF Phased!Next

(* A run that writes in_progress and walks on.                                                *)
LEMMA Proceeding ==
    ASSUME WalkInv, NEW r \in Runs, Live(r), Crewed' = Crewed,
           Phased!Says(run[r].op, "in_progress"), UNCHANGED drained
    PROVE  Phased!Next
<1>1. Phased!AtWork(r) /\ Crewed[r].op = run[r].op
  BY CrewIs, LiveAtWork
<1>2. Phased!Proceed(r)
  BY <1>1 DEF Phased!Proceed
<1> QED
  BY <1>2 DEF Phased!Next

(* Where a run moves outside of a drain, its crew is seen where it was.                       *)
LEMMA MovesUnseen ==
    ASSUME WalkInv, NEW r \in Runs, NEW at, Moves(r, at),
           \/ run[r].at \notin {"sending", "waiting"} /\ at \notin {"sending", "waiting"}
           \/ ~Resumable(r)
    PROVE  Crewed' = Crewed
<1>0. run \in [Runs -> Run]
  BY DEF WalkInv, UpgradeTypeOK
<1>1. CrewOf([run[r] EXCEPT !.at = at]) = CrewOf(run[r])
  BY <1>0 DEF CrewOf, Run, Resumable
<1>2. \A q \in Runs : run'[q] = IF q = r THEN [run[r] EXCEPT !.at = at] ELSE run[q]
  BY <1>0 DEF Moves
<1> QED
  BY <1>1, <1>2, SameCrews

(* The steps of a run between its units.                                                      *)
LEMMA WalksPhased ==
    ASSUME WalkInv, NEW r \in Runs,
           Registers(r) \/ Begins(r) \/ EntersPhase(r) \/ Proceeds(r) \/ Drains(r)
    PROVE  [Phased!Next]_Phased!vars
<1>0. run \in [Runs -> Run] /\ run[r] \in Run /\ RunOK(run[r])
  BY DEF WalkInv, UpgradeTypeOK, RunsOK
<1>1. CASE Registers(r)
  <2>1. Crewed' = Crewed
    BY <1>1, MovesUnseen DEF Registers
  <2> QED
    BY <1>1, <2>1 DEF Registers, Phased!vars
<1>2. CASE Begins(r)
  <2>0. Live(r) /\ run[r].at = "registered" /\ UNCHANGED drained
    BY <1>2 DEF Begins, Live
  <2>1. CASE Returns(r) /\ UNCHANGED opRow /\ UpgradeFault
    <3>1. Phased!Says(run[r].op, "failed")
      BY <2>1 DEF UpgradeFault, Phased!Says, Phased!Slip
    <3>2. "failed" \in Phased!Finals
      BY DEF Phased!Finals
    <3> QED
      BY <2>0, <2>1, <3>1, <3>2, Leaving
  <2>2. CASE SetStatus(run[r].op, "in_progress") /\ Moves(r, "entering") /\ UNCHANGED upgradeFaults
    <3>1. Crewed' = Crewed
      BY <2>0, <2>2, MovesUnseen
    <3>2. Phased!Says(run[r].op, "in_progress")
      BY <2>2 DEF SetStatus, Phased!Says
    <3> QED
      BY <2>0, <3>1, <3>2, Proceeding
  <2> QED
    BY <1>2, <2>1, <2>2 DEF Begins
<1>3. CASE EntersPhase(r)
  <2>1. Live(r) /\ UNCHANGED drained
    BY <1>3 DEF EntersPhase, Live
  <2>2. Phased!Says(run[r].op, "in_progress")
    BY <1>3 DEF EntersPhase, SetStatus, UpgradeFault, Phased!Says, Phased!Slip
  <2>3. Crewed' = Crewed
    BY <1>3, MovesUnseen DEF EntersPhase
  <2> QED
    BY <2>1, <2>2, <2>3, Proceeding
<1>4. CASE Proceeds(r)
  <2>1. Crewed' = Crewed
    <3>1. CASE Plan[run[r].step].phase = "compute"
      BY <1>4, <3>1, MovesUnseen DEF Proceeds
    <3>2. CASE Plan[run[r].step].phase # "compute"
      BY <1>4, <3>2, MovesUnseen DEF Proceeds, Resumable
    <3> QED
      BY <3>1, <3>2
  <2> QED
    BY <1>4, <2>1 DEF Proceeds, Phased!vars
<1>5. CASE Drains(r)
  <2>1. Live(r) /\ run[r].step \in 1..Len(Plan) /\ Plan[run[r].step].phase = "compute"
    BY <1>0, <1>5 DEF Drains, Live, RunOK
  <2>2. Phased!Says(run[r].op, "in_progress")
    BY <1>5 DEF Drains, SetStatus, UpgradeFault, Phased!Says, Phased!Slip
  <2>3. CASE ~HasController
    <3>1. Crewed' = Crewed
      BY <1>5, <2>3, MovesUnseen DEF Drains, Resumable
    <3> QED
      BY <1>5, <2>1, <2>2, <2>3, <3>1, Proceeding DEF Drains
  <2>4. CASE HasController
    <3>1. CrewOf([run[r] EXCEPT !.at = "sending"]) = [CrewOf(run[r]) EXCEPT !.holds = TRUE]
      <4>1. ~(run[r].at \in {"sending", "waiting"})
        BY <1>5 DEF Drains
      <4>2. LET x == [run[r] EXCEPT !.at = "sending"]
            IN  x.op = run[r].op /\ x.step = run[r].step /\ x.acked = run[r].acked /\ x.at = "sending"
        BY <1>0 DEF Run
      <4>3. CrewOf([run[r] EXCEPT !.at = "sending"]) =
                [op |-> run[r].op, unit |-> run[r].step, agreed |-> run[r].acked, holds |-> TRUE]
        BY <2>1, <2>4, <4>2 DEF CrewOf
      <4> QED
        BY <4>3, CrewFields
    <3>2. Crewed' = [Crewed EXCEPT ![r] = CrewOf([run[r] EXCEPT !.at = "sending"])]
      BY <1>0, <1>5, OneCrew DEF Drains, Moves, WalkInv
    <3>3. Crewed' = [Crewed EXCEPT ![r].holds = TRUE]
      BY <3>1, <3>2, CrewIs
    <3>4. Phased!AtWork(r) /\ ~Crewed[r].holds /\ Crewed[r].op = run[r].op /\ Crewed[r].unit = run[r].step
      BY <1>5, <2>1, CrewIs, LiveAtWork DEF Drains
    <3>5. drained' \in {drained, drained \cup Phased!Unit(r).nodes}
      BY <1>5, CrewIs DEF Drains
    <3>6. Phased!Hold(r)
      BY <2>1, <2>2, <3>3, <3>4, <3>5, CrewIs, PlanFacts DEF Phased!Hold
    <3> QED
      BY <3>6 DEF Phased!Next
  <2> QED
    BY <2>3, <2>4
<1> QED
  BY <1>1, <1>2, <1>3, <1>4, <1>5

(* The nodes of a unit are told, and answer or do not.                                        *)
LEMMA AnswersPhased ==
    ASSUME WalkInv, NEW r \in Runs,
           Sends(r) \/ \E n \in PlanNodes : GivesUp(r, n) \/ NodeAnswers(r, n)
    PROVE  [Phased!Next]_Phased!vars
<1>0. run \in [Runs -> Run] /\ run[r] \in Run /\ RunOK(run[r]) /\ InStep(run[r])
  BY DEF WalkInv, UpgradeTypeOK, RunsOK, InSteps
<1> DEFINE Frame == UNCHANGED <<opRow, drained, upgradeFaults>>
<1>1. ASSUME NEW x, run' = [run EXCEPT ![r] = x], Frame,
             x.op = run[r].op, x.step = run[r].step, x.acked = run[r].acked,
             x.at = "waiting", run[r].at \in {"sending", "waiting"}
      PROVE  UNCHANGED Phased!vars
  <2>1. CrewOf(x) = CrewOf(run[r])
    BY <1>1 DEF CrewOf
  <2>2. \A q \in Runs : run'[q] = IF q = r THEN x ELSE run[q]
    BY <1>0, <1>1
  <2>3. Crewed' = Crewed
    BY <2>1, <2>2, SameCrews
  <2> QED
    BY <1>1, <2>3 DEF Phased!vars
<1>2. CASE Sends(r)
  <2>1. PICK offline \in SUBSET Plan[run[r].step].nodes :
            run' = [run EXCEPT ![r].at = "waiting", ![r].waiting = Plan[run[r].step].nodes \ offline,
                               ![r].failed = offline # {}]
    BY <1>2 DEF Sends
  <2> DEFINE x == [run[r] EXCEPT !.at = "waiting", !.waiting = Plan[run[r].step].nodes \ offline,
                                 !.failed = offline # {}]
  <2>2. run' = [run EXCEPT ![r] = x]
    BY <1>0, <2>1
  <2>3. x.op = run[r].op /\ x.step = run[r].step /\ x.acked = run[r].acked /\ x.at = "waiting"
    BY <1>0 DEF Run
  <2>4. run[r].at \in {"sending", "waiting"} /\ Frame
    BY <1>2 DEF Sends
  <2> HIDE DEF x
  <2> QED
    BY <1>1, <2>2, <2>3, <2>4
<1>3. ASSUME NEW n \in PlanNodes, GivesUp(r, n) \/ NodeAnswers(r, n)
      PROVE  [Phased!Next]_Phased!vars
  <2> DEFINE no == [run[r] EXCEPT !.waiting = @ \ {n}, !.failed = TRUE]
             yes == [run[r] EXCEPT !.waiting = @ \ {n}, !.acked = @ \cup {n}]
  <2>0. run[r].at = "waiting" /\ n \in run[r].waiting /\ Frame
    BY <1>3 DEF GivesUp, NodeAnswers
  <2>1. CASE run' = [run EXCEPT ![r] = no]
    <3>1. no.op = run[r].op /\ no.step = run[r].step /\ no.acked = run[r].acked /\ no.at = "waiting"
      BY <1>0, <2>0 DEF Run
    <3> HIDE DEF no
    <3> QED
      BY <1>1, <2>0, <2>1, <3>1
  <2>2. CASE run' = [run EXCEPT ![r] = yes]
    <3>1. yes.op = run[r].op /\ yes.step = run[r].step /\ yes.acked = run[r].acked \cup {n} /\ yes.at = run[r].at
      BY <1>0 DEF Run
    <3> HIDE DEF yes
    <3>2. CrewOf(yes) = [CrewOf(run[r]) EXCEPT !.agreed = run[r].acked \cup {n}]
      BY <3>1, CrewFields DEF CrewOf
    <3>3. Crewed' = [Crewed EXCEPT ![r] = CrewOf(yes)]
      BY <2>2, OneCrew DEF WalkInv
    <3>4. Crewed' = [Crewed EXCEPT ![r].agreed = @ \cup {n}]
      BY <3>2, <3>3, CrewIs
    <3>5. run[r].step \in DOMAIN Plan /\ n \in Plan[run[r].step].nodes
      BY <1>0, <2>0, PlanFacts DEF RunOK, InStep
    <3>6. Phased!Agree(r, n)
      BY <2>0, <3>4, <3>5, CrewIs, LiveAtWork DEF Live, Phased!Agree
    <3> QED
      BY <3>5, <3>6, CrewIs DEF Phased!Next
  <2> QED
    BY <1>0, <1>3, <2>1, <2>2 DEF GivesUp, NodeAnswers
<1> QED
  BY <1>2, <1>3

(* A unit is left: its batch given back, on to the next one, or with a last word.             *)
LEMMA LeavesPhased ==
    ASSUME WalkInv, NEW r \in Runs,
           ResumesBatch(r) \/ UnitDone(r) \/ UnitFails(r) \/ Stops(r) \/ Completes(r)
    PROVE  Phased!Next
<1>0. run \in [Runs -> Run] /\ run[r] \in Run /\ RunOK(run[r]) /\ InStep(run[r])
  BY DEF WalkInv, UpgradeTypeOK, RunsOK, InSteps
<1>1. CASE ResumesBatch(r)
  <2> DEFINE x == [run[r] EXCEPT !.at = "resumed"]
  <2>1. x.op = run[r].op /\ x.step = run[r].step /\ x.acked = run[r].acked /\ x.at = "resumed"
    BY <1>0 DEF Run
  <2>2. Crewed' = [Crewed EXCEPT ![r] = CrewOf(x)]
    BY <1>0, <1>1, OneCrew DEF ResumesBatch, Moves, WalkInv
  <2> HIDE DEF x
  <2>3. CrewOf(x) = [CrewOf(run[r]) EXCEPT !.holds = FALSE]
    <3>1. CrewOf(x) = [op |-> run[r].op, unit |-> run[r].step, agreed |-> run[r].acked, holds |-> FALSE]
      BY <2>1 DEF CrewOf
    <3> QED
      BY <3>1, CrewFields
  <2>4. Crewed' = [Crewed EXCEPT ![r].holds = FALSE]
    BY <2>2, <2>3, CrewIs
  <2>5. Crewed[r].holds
    BY <1>1, CrewIs DEF ResumesBatch, Answered
  <2>6. Phased!GiveBack(r)
    BY <1>1, <2>4, <2>5, CrewIs DEF ResumesBatch, UpgradeFault, Phased!GiveBack, Phased!Slip
  <2> QED
    BY <2>6 DEF Phased!Next
<1>2. ASSUME UnitOver(r)
      PROVE  /\ Live(r) /\ run[r].step \in 1..Len(Plan)
             /\ ~(run[r].at \in {"sending", "waiting"} /\ Resumable(r))
             /\ run[r].failed \/ Plan[run[r].step].nodes \subseteq run[r].acked
  BY <1>0, <1>2 DEF UnitOver, Answered, Live, RunOK
<1>3. CASE UnitDone(r)
  <2>1. PICK at \in {"completing", "checking", "entering"} :
            run' = [run EXCEPT ![r].at = at, ![r].step = run[r].step + 1]
    BY <1>3 DEF UnitDone, NextUnit
  <2> DEFINE x == [run[r] EXCEPT !.at = at, !.step = run[r].step + 1]
  <2>2. x.op = run[r].op /\ x.step = run[r].step + 1 /\ x.acked = run[r].acked /\ x.at = at
    BY <1>0 DEF Run
  <2>3. Crewed' = [Crewed EXCEPT ![r] = CrewOf(x)]
    BY <1>0, <2>1, OneCrew DEF WalkInv
  <2> HIDE DEF x
  <2>4. CrewOf(x) = [CrewOf(run[r]) EXCEPT !.unit = run[r].step + 1]
    <3>1. x.at \notin {"sending", "waiting"}
      BY <2>1, <2>2
    <3>2. CrewOf(x) = [op |-> run[r].op, unit |-> run[r].step + 1, agreed |-> run[r].acked, holds |-> FALSE]
      BY <2>2, <3>1 DEF CrewOf
    <3>3. (run[r].at \in {"sending", "waiting"} /\ Plan[run[r].step].phase = "compute" /\ HasController) = FALSE
      BY <1>2, <1>3 DEF UnitDone, Resumable
    <3> QED
      BY <3>2, <3>3, CrewFields
  <2>5. Crewed' = [Crewed EXCEPT ![r].unit = @ + 1]
    BY <2>3, <2>4, CrewIs
  <2>6. Phased!Unit(r).phase = "login" \/ Phased!Unit(r).nodes \subseteq Crewed[r].agreed
    BY <1>2, <1>3, CrewIs DEF UnitDone
  <2>7. Phased!AtWork(r) /\ ~Crewed[r].holds /\ Crewed[r].unit \in DOMAIN Plan
    BY <1>2, <1>3, CrewIs, LiveAtWork, PlanFacts DEF UnitDone
  <2>8. Phased!GoOn(r)
    BY <1>3, <2>5, <2>6, <2>7 DEF UnitDone, Phased!GoOn
  <2> QED
    BY <2>8 DEF Phased!Next
<1>4. CASE UnitFails(r)
  <2>1. Phased!Says(run[r].op, "failed") /\ "failed" \in Phased!Finals
    BY <1>4 DEF UnitFails, SetStatus, UpgradeFault, Phased!Says, Phased!Slip, Phased!Finals
  <2>2. Returns(r) /\ UNCHANGED drained /\ UnitOver(r)
    BY <1>4 DEF UnitFails
  <2> QED
    BY <1>2, <2>1, <2>2, Leaving
<1>5. CASE Stops(r)
  <2>1. \E s \in {"paused", "failed"} : Phased!Says(run[r].op, s)
    BY <1>5 DEF Stops, SetStatus, UpgradeFault, Phased!Says, Phased!Slip
  <2>2. {"paused", "failed"} \subseteq Phased!Finals
    BY DEF Phased!Finals
  <2>3. Returns(r) /\ UNCHANGED drained /\ Live(r) /\ run[r].at = "checking"
    BY <1>5 DEF Stops, Live
  <2> QED
    BY <2>1, <2>2, <2>3, Leaving
<1>6. CASE Completes(r)
  <2>1. Phased!Says(run[r].op, "completed") /\ "completed" \in Phased!Finals
    BY <1>6 DEF Completes, SetStatus, UpgradeFault, Phased!Says, Phased!Slip, Phased!Finals
  <2>2. Returns(r) /\ UNCHANGED drained /\ Live(r) /\ run[r].at = "completing"
    BY <1>6 DEF Completes, Live
  <2>3. run[r].step = Len(Plan) + 1
    BY <1>0, <2>2 DEF InStep
  <2> QED
    BY <2>1, <2>2, <2>3, Leaving
<1> QED
  BY <1>1, <1>3, <1>4, <1>5, <1>6

(* Whatever pauses, resumes, rollbacks, refused statements, lost commands and restarts        *)
(* overlap: the rows and runs of upgrades are those of PhasedUpgrade.                         *)
THEOREM KeepsPhases == UpgradeSpec => PhasesSpec
<1>1. UpgradeInit => Phased!Init
  <2> SUFFICES ASSUME UpgradeInit PROVE Phased!Init
    OBVIOUS
  <2>1. Crewed = [r \in Runs |-> Phased!NoCrew]
    <3>1. \A r \in Runs : run[r] = IdleRun
      BY DEF UpgradeInit
    <3> QED
      BY <3>1, FreshCrews DEF Crewed
  <2> QED
    BY <2>1 DEF UpgradeInit, Phased!Init
<1>2. WalkInv /\ [UpgradeNext]_upgradeVars => [Phased!Next]_Phased!vars
  <2> SUFFICES ASSUME WalkInv, [UpgradeNext]_upgradeVars PROVE [Phased!Next]_Phased!vars
    OBVIOUS
  <2>1. ASSUME NEW r \in Runs, Executes(r) \/ \E n \in PlanNodes : NodeAnswers(r, n)
        PROVE  [Phased!Next]_Phased!vars
    BY <2>1, WalksPhased, AnswersPhased, LeavesPhased DEF Executes
  <2>2. CASE UpgradeRestarts
    <3>1. \A r \in Runs : run'[r] = IdleRun
      BY <2>2 DEF UpgradeRestarts
    <3>2. Crewed' = [r \in Runs |-> CrewOf(run'[r])]
      BY DEF Crewed, CrewOf
    <3>3. Crewed' = [r \in Runs |-> Phased!NoCrew]
      BY <3>1, <3>2, FreshCrews
    <3>4. Phased!Mishap
      BY <2>2, <3>3 DEF UpgradeRestarts, UpgradeFault, Phased!Mishap, Phased!Slip
    <3> QED
      BY <3>4 DEF Phased!Next
  <2>3. CASE UNCHANGED upgradeVars
    BY <2>3, SameCrews DEF upgradeVars, Phased!vars
  <2> QED
    BY <2>1, <2>2, <2>3, OperatesPhased DEF UpgradeNext
<1>3. [Phased!Next]_Phased!vars => [Phased!vars' # Phased!vars /\ Phased!Next]_Phased!vars
  OBVIOUS
<1> QED
  BY <1>1, <1>2, <1>3, WalkIsInvariant, PTL DEF UpgradeSpec, PhasesSpec, Phased!Spec
=============================================================================
