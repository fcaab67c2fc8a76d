---------------------------- MODULE GroupReimage ----------------------------
(***************************************************************************)
(* Rolling reimage of a node group: one group_reimage_jobs row, the        *)
(* goroutine runGroupReimage that splits the members into waves, one       *)
(* goroutine per member of the wave, the in-memory counters they share,    *)
(* the operator's resume call, and the startup hook that picks a running   *)
(* job up after a crash.  Orchestrator.Trigger is one step here, with its  *)
(* outcomes; its interleavings are in Reimage.                             *)
(***************************************************************************)
EXTENDS Integers, FiniteSets

CONSTANTS
    Nodes,          \* the members of the group
    Concurrency,    \* GroupReimageRequest.concurrency
    PausePct,       \* pause_on_failure_pct
    BmcFails,       \* may Trigger return an error
    DbFails,        \* may a statement of the dispatcher or of its goroutines fail
    MaxResumes,     \* bound: how often an operator resumes a paused job
    MaxCrashes      \* bound: how often clustr-serverd restarts

ASSUME GroupReimageAssumption ==
    /\ IsFiniteSet(Nodes) /\ Nodes # {}
    /\ Concurrency \in Nat \ {0}
    /\ PausePct \in Nat \ {0}
    /\ BmcFails \in BOOLEAN /\ DbFails \in BOOLEAN
    /\ MaxResumes \in Nat
    /\ MaxCrashes \in Nat

VARIABLES
    job,        \* the row: status and the three progress counters
    disp,       \* where the dispatcher goroutine is
    rest,       \* members it has not put into a wave
    wave,       \* members of the current wave
    gor,        \* [Nodes -> stage], the goroutines of the wave
    cnt,        \* the shared counters triggered, succeeded, failed
    waveFailed, \* the counter of the wave
    snap,       \* [Nodes -> counters], what a goroutine loaded for its UPDATE
    memberReq,  \* [Nodes -> status], the node's newest request from this job
    shots,      \* history: [Nodes -> Nat], Trigger calls for the node
    result,     \* history: [Nodes -> {"none", "ok", "bad"}], its turn in this run of the dispatcher
    lastWord,   \* history: the last statement of this run of the dispatcher
    resumes,    \* operator resumes so far
    crashes     \* restarts so far

rowVars == <<job, memberReq>>
memVars == <<disp, rest, wave, gor, cnt, waveFailed, snap>>
vars    == <<job, disp, rest, wave, gor, cnt, waveFailed, snap, memberReq, shots, result, lastWord,
             resumes, crashes>>

Zero     == [triggered |-> 0, succeeded |-> 0, failed |-> 0]
Counters == [triggered : Nat, succeeded : Nat, failed : Nat]
Job(status, c) == [status |-> status, triggered |-> c.triggered,
                   succeeded |-> c.succeeded, failed |-> c.failed]
JobStatuses == {"none", "running", "paused", "complete", "failed"}
ReqStatuses == {"none", "pending", "triggered", "complete", "failed", "canceled"}
ActiveReq   == {"pending", "triggered"}
RunStages   == {"idle", "resume", "check", "wave"}
GorStages   == {"idle", "create", "trigger", "count", "write"}

Init ==
    /\ job = Job("none", Zero)
    /\ disp = "idle"
    /\ rest = {}
    /\ wave = {}
    /\ gor = [n \in Nodes |-> "idle"]
    /\ cnt = Zero
    /\ waveFailed = 0
    /\ snap = [n \in Nodes |-> Zero]
    /\ memberReq = [n \in Nodes |-> "none"]
    /\ shots = [n \in Nodes |-> 0]
    /\ result = [n \in Nodes |-> "none"]
    /\ lastWord = "none"
    /\ resumes = 0
    /\ crashes = 0
-----------------------------------------------------------------------------
\* A goroutine runGroupReimage over the members S.
Dispatch(S) ==
    /\ disp' = "check"
    /\ rest' = S
    /\ wave' = {}
    /\ cnt' = Zero
    /\ waveFailed' = 0
    /\ result' = [n \in Nodes |-> "none"]
    /\ lastWord' = "none"

\* TriggerGroupReimage: the row, then the goroutine.
TriggerGroupReimage ==
    /\ job.status = "none"
    /\ job' = Job("running", Zero)
    /\ Dispatch(Nodes)
    /\ UNCHANGED <<gor, snap, memberReq, shots, resumes, crashes>>

\* Mutant: the next wave starts where this one did.
BeginWave_Overlapping(W) ==
    /\ disp = "check"
    /\ rest # {}
    /\ job.status = "running" \/ DbFails
    /\ Cardinality(W) = IF Cardinality(rest) < Concurrency THEN Cardinality(rest) ELSE Concurrency
    /\ disp' = "wave"
    /\ wave' = W
    /\ gor' = [n \in Nodes |-> IF n \in W THEN "create" ELSE gor[n]]
    /\ waveFailed' = 0
    /\ UNCHANGED <<rowVars, rest, cnt, snap, shots, result, lastWord, resumes, crashes>>

\* The next wave: the first Concurrency members that are left. A job that is no longer
\* running stops here (a failed read goes on).
BeginWave(W) ==
    /\ disp = "check"
    /\ rest # {}
    /\ job.status = "running" \/ DbFails
    /\ Cardinality(W) = IF Cardinality(rest) < Concurrency THEN Cardinality(rest) ELSE Concurrency
    /\ disp' = "wave"
    /\ rest' = rest \ W
    /\ wave' = W
    /\ gor' = [n \in Nodes |-> IF n \in W THEN "create" ELSE gor[n]]
    /\ waveFailed' = 0
    /\ UNCHANGED <<rowVars, cnt, snap, shots, result, lastWord, resumes, crashes>>

GoOn(n, stage) == gor' = [gor EXCEPT ![n] = stage]
Outcome(n, r) == result' = [result EXCEPT ![n] = r]
MemberFails(n) ==
    /\ Outcome(n, "bad")
    /\ waveFailed' = waveFailed + 1
    /\ cnt' = [cnt EXCEPT !.failed = @ + 1]

\* createReimageRequest; a member whose row cannot be inserted is only counted as failed.
CreateRequest(n) ==
    /\ gor[n] = "create"
    /\ \/ /\ memberReq' = [memberReq EXCEPT ![n] = "pending"]
          /\ GoOn(n, "trigger")
          /\ UNCHANGED <<cnt, waveFailed, result>>
       \/ /\ DbFails
          /\ MemberFails(n)
          /\ GoOn(n, "idle")
          /\ UNCHANGED memberReq
    /\ UNCHANGED <<job, disp, rest, wave, snap, shots, lastWord, resumes, crashes>>

\* Mutant: an error takes back a success that was not counted yet.
Trigger_TakesBack(n) ==
    /\ gor[n] = "trigger"
    /\ shots' = [shots EXCEPT ![n] = @ + 1]
    /\ \/ /\ memberReq' = [memberReq EXCEPT ![n] = "triggered"]
          /\ cnt' = [cnt EXCEPT !.succeeded = @ + 1]
          /\ Outcome(n, "ok")
          /\ UNCHANGED waveFailed
       \/ /\ BmcFails
          /\ memberReq' = [memberReq EXCEPT ![n] = "failed"]
          /\ Outcome(n, "bad")
          /\ waveFailed' = waveFailed + 1
          /\ cnt' = [cnt EXCEPT !.succeeded = @ - 1]
    /\ GoOn(n, "count")
    /\ UNCHANGED <<job, disp, rest, wave, snap, lastWord, resumes, crashes>>

\* Trigger, after the stagger, and the count of its outcome. An error leaves the request
\* failed, or pending if that write failed too.
Trigger(n) ==
    /\ gor[n] = "trigger"
    /\ shots' = [shots EXCEPT ![n] = @ + 1]
    /\ \/ /\ memberReq' = [memberReq EXCEPT ![n] = "triggered"]
          /\ cnt' = [cnt EXCEPT !.succeeded = @ + 1]
          /\ Outcome(n, "ok")
          /\ UNCHANGED waveFailed
       \/ /\ BmcFails
          /\ \/ memberReq' = [memberReq EXCEPT ![n] = "failed"]
             \/ DbFails /\ UNCHANGED memberReq
          /\ MemberFails(n)
    /\ GoOn(n, "count")
    /\ UNCHANGED <<job, disp, rest, wave, snap, lastWord, resumes, crashes>>

\* triggered is incremented and the three counters are loaded ...
CountTriggered(n) ==
    /\ gor[n] = "count"
    /\ cnt' = [cnt EXCEPT !.triggered = @ + 1]
    /\ snap' = [snap EXCEPT ![n] = cnt']
    /\ GoOn(n, "write")
    /\ UNCHANGED <<rowVars, disp, rest, wave, waveFailed, shots, result, lastWord, resumes, crashes>>

\* ... and written, which another goroutine may do in between.
UpdateProgress(n) ==
    /\ gor[n] = "write"
    /\ \/ job' = Job("running", snap[n])
       \/ DbFails /\ UNCHANGED job
    /\ snap' = [snap EXCEPT ![n] = Zero]
    /\ GoOn(n, "idle")
    /\ UNCHANGED <<disp, rest, wave, cnt, waveFailed, memberReq, shots, result, lastWord, resumes, crashes>>

ExceedsThreshold == (waveFailed * 100) \div Cardinality(wave) > PausePct
Quiet == \A n \in Nodes : gor[n] = "idle"

\* Mutant: the wave is judged while its goroutines still run.
PauseJob_NoWait ==
    /\ disp = "wave"
    /\ ExceedsThreshold
    /\ job' = Job("paused", cnt)
    /\ disp' = "idle"
    /\ UNCHANGED <<rest, wave, gor, cnt, waveFailed, snap, memberReq, shots, result, lastWord, resumes, crashes>>

\* wg.Wait returns and the threshold is exceeded: the job is paused and the goroutine ends.
PauseJob ==
    /\ disp = "wave"
    /\ Quiet
    /\ ExceedsThreshold
    /\ \/ job' = Job("paused", cnt) /\ lastWord' = "said"
       \/ DbFails /\ UNCHANGED job /\ lastWord' = "refused"
    /\ disp' = "idle"
    /\ UNCHANGED <<rest, wave, gor, cnt, waveFailed, snap, memberReq, shots, result, resumes, crashes>>

\* Mutant: no wg.Wait before the next wave.
EndWave_NoWait ==
    /\ disp = "wave"
    /\ ~ExceedsThreshold
    /\ disp' = "check"
    /\ UNCHANGED <<rowVars, rest, wave, gor, cnt, waveFailed, snap, shots, result, lastWord, resumes, crashes>>

\* Mutant: the loop goes on whatever the wave's failures are.
EndWave_Always ==
    /\ disp = "wave"
    /\ Quiet
    /\ disp' = "check"
    /\ UNCHANGED <<rowVars, rest, wave, gor, cnt, waveFailed, snap, shots, result, lastWord, resumes, crashes>>

EndWave ==
    /\ disp = "wave"
    /\ Quiet
    /\ ~ExceedsThreshold
    /\ disp' = "check"
    /\ UNCHANGED <<rowVars, rest, wave, gor, cnt, waveFailed, snap, shots, result, lastWord, resumes, crashes>>

\* Mutant: only the last wave's failures count.
FinalizeJob_LastWave ==
    /\ disp = "check"
    /\ rest = {}
    /\ job' = Job(IF waveFailed > 0 THEN "failed" ELSE "complete", cnt)
    /\ disp' = "idle"
    /\ UNCHANGED <<rest, wave, gor, cnt, waveFailed, snap, memberReq, shots, result, lastWord, resumes, crashes>>

\* Mutant: the job is final only once every member succeeded.
FinalizeJob_AllSucceed ==
    /\ disp = "check"
    /\ rest = {}
    /\ cnt.succeeded = Cardinality(Nodes)
    /\ job' = Job("complete", cnt)
    /\ disp' = "idle"
    /\ UNCHANGED <<rest, wave, gor, cnt, waveFailed, snap, memberReq, shots, result, lastWord, resumes, crashes>>

\* All waves are over.
FinalizeJob ==
    /\ disp = "check"
    /\ rest = {}
    /\ \/ job' = Job(IF cnt.failed > 0 THEN "failed" ELSE "complete", cnt) /\ lastWord' = "said"
       \/ DbFails /\ UNCHANGED job /\ lastWord' = "refused"
    /\ disp' = "idle"
    /\ UNCHANGED <<rest, wave, gor, cnt, waveFailed, snap, memberReq, shots, result, resumes, crashes>>

\* POST /reimages/jobs/:id/resume: the handler writes the status, and nothing else.
ResumeGroupReimageJob ==
    /\ job.status = "paused"
    /\ resumes < MaxResumes
    /\ job' = [job EXCEPT !.status = "running"]
    /\ resumes' = resumes + 1
    /\ UNCHANGED <<memVars, memberReq, shots, result, lastWord, crashes>>

\* clustr-serverd restarts, and its startup hook finds the job if it is running.
ServerRestarts ==
    /\ crashes < MaxCrashes
    /\ crashes' = crashes + 1
    /\ disp' = IF job.status = "running" THEN "resume" ELSE "idle"
    /\ rest' = {} /\ wave' = {} /\ cnt' = Zero /\ waveFailed' = 0
    /\ gor' = [n \in Nodes |-> "idle"]
    /\ snap' = [n \in Nodes |-> Zero]
    /\ UNCHANGED <<rowVars, shots, result, lastWord, resumes>>

\* Orchestrator.ResumeGroupReimageJob: the members without an active request. One that cannot be
\* looked up is skipped, and without the list of members nobody is left.
ResumeOrphaned ==
    /\ disp = "resume"
    /\ \E found \in SUBSET Nodes :
          /\ found = Nodes \/ DbFails
          /\ LET remaining == {n \in found : memberReq[n] \notin ActiveReq}
             IN IF remaining = {}
                THEN disp' = "idle" /\ UNCHANGED <<rest, wave, cnt, waveFailed, result, lastWord>>
                ELSE Dispatch(remaining)
    /\ UNCHANGED <<rowVars, gor, snap, shots, resumes, crashes>>

\* Meanwhile a request ends: deployed, failed on the node, or canceled by an operator.
RequestEnds(n) ==
    /\ memberReq[n] \in ActiveReq
    /\ \E s \in IF memberReq[n] = "triggered" THEN {"complete", "failed", "canceled"} ELSE {"canceled"} :
          memberReq' = [memberReq EXCEPT ![n] = s]
    /\ UNCHANGED <<job, memVars, shots, result, lastWord, resumes, crashes>>

Goroutine(n) == CreateRequest(n) \/ Trigger(n) \/ CountTriggered(n) \/ UpdateProgress(n)
Dispatcher   == \/ \E W \in SUBSET rest : BeginWave(W)
                \/ PauseJob \/ EndWave \/ FinalizeJob \/ ResumeOrphaned

Next ==
    \/ TriggerGroupReimage
    \/ Dispatcher
    \/ \E n \in Nodes : Goroutine(n) \/ RequestEnds(n)
    \/ ResumeGroupReimageJob
    \/ ServerRestarts

Spec == Init /\ [][Next]_vars

\* Goroutines run to their end: every database and BMC call has a timeout.
GroupFair == WF_vars(Dispatcher) /\ \A n \in Nodes : WF_vars(Goroutine(n))
FairSpec == Spec /\ GroupFair
-----------------------------------------------------------------------------
TypeOK ==
    /\ job \in [status : JobStatuses, triggered : Nat, succeeded : Nat, failed : Nat]
    /\ disp \in RunStages
    /\ rest \in SUBSET Nodes
    /\ wave \in SUBSET Nodes
    /\ gor \in [Nodes -> GorStages]
    /\ cnt \in Counters
    /\ waveFailed \in Nat
    /\ snap \in [Nodes -> Counters]
    /\ memberReq \in [Nodes -> ReqStatuses]
    /\ shots \in [Nodes -> Nat]
    /\ result \in [Nodes -> {"none", "ok", "bad"}]
    /\ lastWord \in {"none", "said", "refused"}
    /\ resumes \in 0..MaxResumes
    /\ crashes \in 0..MaxCrashes

(* The dispatcher and its goroutines work only while the row says running: a paused job  *)
(* is quiet, and a late progress write cannot bring it back (group.go 6-9, 130-138).      *)
StoppedIsQuiet == job.status # "running" => disp = "idle" /\ Quiet

(* The concurrency cap holds across waves, crashes and resumes (group.go 6, 11).          *)
CapRespected == Cardinality({n \in Nodes : gor[n] # "idle"}) <= Concurrency

(* A member is power-cycled at most once per run of the dispatcher.                       *)
OncePerRun == \A n \in Nodes : shots[n] <= 1 + crashes

(* The row of a job that stopped accounts for every member that had its turn in the last  *)
(* run of the dispatcher, and "complete" says that none failed and, unless the server     *)
(* restarted, that each was power-cycled once.                                            *)
Stopped == {"paused", "complete", "failed"}
RowIsTrue ==
    job.status \in Stopped =>
        /\ job.succeeded = Cardinality({n \in Nodes : result[n] = "ok"})
        /\ job.failed = Cardinality({n \in Nodes : result[n] = "bad"})
        /\ job.status = "complete" => \A n \in Nodes : /\ result[n] # "bad"
                                                       /\ crashes = 0 => shots[n] = 1 /\ result[n] = "ok"

(* The rolling job the operator asked for (RollingJob), restarts and resumes included.     *)
Rolling == INSTANCE RollingJob WITH
               status <- job.status,
               crew   <- disp \in {"check", "wave"},
               left   <- rest
RollingSpec == Rolling!Spec

(* A job somebody works at becomes complete or failed, or paused for the operator,        *)
(* whatever its members do, unless the server restarts or the statement that says so is   *)
(* refused.  That somebody works at it is a premise: a restart leaves a running job alone *)
(* when every member has an active request (group.go 361), and so does a resume (below).  *)
JobStops ==
    \A k \in 0..MaxCrashes :
       (disp \in {"check", "wave"} /\ crashes = k) ~> (job.status \in Stopped \/ lastWord = "refused" \/ crashes > k)
-----------------------------------------------------------------------------
(* What comments of the repository say and the code does not do.                          *)

(* reimage_workers.go 81: a restart "avoids double-reimaging nodes that were already      *)
(* triggered before the crash".                                                           *)
NotTwice == [][\A n \in Nodes : memberReq[n] = "complete" => memberReq'[n] = memberReq[n]]_vars

(* group.go 7-9: a paused job "stops dispatching until the operator resumes it via POST    *)
(* /api/v1/reimages/jobs/:id/resume": then somebody works at the members that are left.    *)
ResumedGoesOn ==
    (job.status = "running" /\ resumes > 0 /\ \E n \in Nodes : shots[n] = 0) ~>
       (disp # "idle" \/ job.status # "running")
=============================================================================
