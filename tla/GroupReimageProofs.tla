------------------------- MODULE GroupReimageProofs -------------------------
(***************************************************************************)
(* Theorems about GroupReimage, for any group, concurrency and threshold,  *)
(* with failing statements, operator resumes and restarts; and that it     *)
(* implements RollingJob.                                                  *)
(***************************************************************************)
EXTENDS GroupReimage, FiniteSetTheorems, TLAPS

(* In the initial state every variable has its type.                                       *)
LEMMA InitTyped == Init => TypeOK
BY GroupReimageAssumption DEF Init, TypeOK, Job, Zero, JobStatuses, RunStages, GorStages, Counters,
   ReqStatuses

(* Every step keeps the types.                                                             *)
LEMMA NextTyped == TypeOK /\ [Next]_vars => TypeOK'
<1> SUFFICES ASSUME TypeOK, [Next]_vars PROVE TypeOK'
  OBVIOUS
<1> USE DEF TypeOK, rowVars, memVars, Job, Zero, Counters, JobStatuses, RunStages, GorStages
<1>1. CASE TriggerGroupReimage
  BY <1>1 DEF TriggerGroupReimage, Dispatch
<1>2. ASSUME NEW W \in SUBSET rest, BeginWave(W) PROVE TypeOK'
  BY <1>2 DEF BeginWave
<1>3. ASSUME NEW n \in Nodes, CreateRequest(n) PROVE TypeOK'
  <2>1. gor' \in [Nodes -> GorStages] /\ memberReq' \in [Nodes -> ReqStatuses]
    BY <1>3 DEF CreateRequest, GoOn, ReqStatuses
  <2>2. result' \in [Nodes -> {"none", "ok", "bad"}]
    BY <1>3 DEF CreateRequest, MemberFails, Outcome
  <2>3. cnt' \in Counters /\ waveFailed' \in Nat
    BY <1>3 DEF CreateRequest, MemberFails
  <2> QED
    BY <1>3, <2>1, <2>2, <2>3 DEF CreateRequest
<1>4. ASSUME NEW n \in Nodes, Trigger(n) PROVE TypeOK'
  <2>1. gor' \in [Nodes -> GorStages] /\ shots' \in [Nodes -> Nat]
    BY <1>4 DEF Trigger, GoOn
  <2>3. memberReq' \in [Nodes -> ReqStatuses]
    BY <1>4 DEF Trigger, ReqStatuses
  <2>4. result' \in [Nodes -> {"none", "ok", "bad"}]
    BY <1>4 DEF Trigger, MemberFails, Outcome
  <2>2. cnt' \in Counters /\ waveFailed' \in Nat
    BY <1>4 DEF Trigger, MemberFails
  <2> QED
    BY <1>4, <2>1, <2>2, <2>3, <2>4 DEF Trigger
<1>5. ASSUME NEW n \in Nodes, CountTriggered(n) PROVE TypeOK'
  <2>1. cnt' \in Counters
    BY <1>5 DEF CountTriggered
  <2> QED
    BY <1>5, <2>1 DEF CountTriggered, GoOn
<1>6. ASSUME NEW n \in Nodes, UpdateProgress(n) PROVE TypeOK'
  BY <1>6 DEF UpdateProgress, GoOn
<1>7. CASE PauseJob
  BY <1>7 DEF PauseJob
<1>8. CASE EndWave
  BY <1>8 DEF EndWave
<1>9. CASE FinalizeJob
  BY <1>9 DEF FinalizeJob
<1>10. CASE ResumeGroupReimageJob
  BY <1>10, GroupReimageAssumption DEF ResumeGroupReimageJob
<1>11. CASE ServerRestarts
  BY <1>11, GroupReimageAssumption DEF ServerRestarts
<1>12. CASE ResumeOrphaned
  BY <1>12 DEF ResumeOrphaned, Dispatch
<1>13. ASSUME NEW n \in Nodes, RequestEnds(n) PROVE TypeOK'
  BY <1>13 DEF RequestEnds, ReqStatuses
<1>14. CASE UNCHANGED vars
  BY <1>14 DEF vars
<1> QED
  BY <1>1, <1>2, <1>3, <1>4, <1>5, <1>6, <1>7, <1>8, <1>9, <1>10, <1>11, <1>12, <1>13, <1>14
     DEF Next, Dispatcher, Goroutine

(* Every variable keeps its type.                                                          *)
THEOREM TypeCorrect == Spec => []TypeOK
<1> QED
  BY InitTyped, NextTyped, PTL DEF Spec
-----------------------------------------------------------------------------
(* One dispatcher.  Its goroutines belong to the current wave, which is cut off the rest   *)
(* and no larger than the cap; outside a wave there are none; and it runs only while the   *)
(* row says running.                                                                       *)
WaveInv ==
    /\ StoppedIsQuiet
    /\ disp # "wave" => Quiet
    /\ disp = "resume" => rest = {}
    /\ \A n \in Nodes : gor[n] # "idle" => n \in wave
    /\ wave \cap rest = {}
    /\ wave # {} => Cardinality(wave) <= Concurrency
    /\ \A n \in Nodes : shots[n] <= 1 + crashes
    /\ \A n \in Nodes : (n \in rest \/ gor[n] \in {"create", "trigger"} \/ disp = "resume"
                           \/ job.status = "none") => shots[n] <= crashes

(* Nothing runs in the initial state.                                                      *)
LEMMA WaveInit == Init => WaveInv
BY DEF Init, WaveInv, StoppedIsQuiet, Quiet, Job

(* A goroutine's step: the others, the dispatcher and the wave stay as they are.           *)
LEMMA WaveGoroutine ==
    ASSUME TypeOK, WaveInv, NEW n \in Nodes, Goroutine(n)
    PROVE  WaveInv'
<1>1. gor[n] # "idle" /\ disp = "wave" /\ job.status = "running" /\ n \in wave
  BY DEF Goroutine, CreateRequest, Trigger, CountTriggered, UpdateProgress, WaveInv, StoppedIsQuiet, Quiet
<1>2. /\ UNCHANGED <<disp, rest, wave, crashes>>
      /\ job' = job \/ job' = Job("running", snap[n])
  BY DEF Goroutine, CreateRequest, Trigger, CountTriggered, UpdateProgress, rowVars
<1>3. job'.status = "running"
  BY <1>1, <1>2 DEF Job
<1>4. \A m \in Nodes : m # n => gor'[m] = gor[m] /\ shots'[m] = shots[m]
  BY DEF Goroutine, CreateRequest, Trigger, CountTriggered, UpdateProgress, GoOn, TypeOK
<1>5. shots'[n] <= 1 + crashes /\ (gor'[n] \in {"create", "trigger"} => shots'[n] <= crashes)
  <2>1. CASE CreateRequest(n)
    BY <2>1, GroupReimageAssumption DEF CreateRequest, GoOn, TypeOK, WaveInv
  <2>2. CASE Trigger(n)
    <3>1. gor'[n] = "count" /\ shots'[n] = shots[n] + 1 /\ shots[n] <= crashes
      BY <2>2 DEF Trigger, GoOn, TypeOK, WaveInv
    <3> QED
      BY <3>1, GroupReimageAssumption DEF TypeOK
  <2>3. CASE CountTriggered(n)
    BY <2>3 DEF CountTriggered, GoOn, TypeOK, WaveInv
  <2>4. CASE UpdateProgress(n)
    BY <2>4 DEF UpdateProgress, GoOn, TypeOK, WaveInv
  <2> QED
    BY <2>1, <2>2, <2>3, <2>4 DEF Goroutine
<1>6. n \notin rest
  BY <1>1 DEF WaveInv
<1> QED
  BY <1>1, <1>2, <1>3, <1>4, <1>5, <1>6 DEF WaveInv, StoppedIsQuiet

(* Every step keeps the dispatcher, its wave and the row in line.                          *)
LEMMA WaveStep == TypeOK /\ WaveInv /\ [Next]_vars => WaveInv'
<1> SUFFICES ASSUME TypeOK, WaveInv, [Next]_vars PROVE WaveInv'
  OBVIOUS
<1> USE DEF TypeOK, WaveInv, StoppedIsQuiet, Quiet, rowVars, memVars
<1>1. CASE TriggerGroupReimage
  BY <1>1, GroupReimageAssumption DEF TriggerGroupReimage, Dispatch, Job
<1>2. ASSUME NEW W \in SUBSET rest, BeginWave(W) PROVE WaveInv'
  <2>1. Cardinality(W) <= Concurrency
    <3>1. Cardinality(rest) \in Nat
      BY GroupReimageAssumption, FS_Subset, FS_CardinalityType
    <3> QED
      BY <1>2, <3>1, GroupReimageAssumption DEF BeginWave
  <2> QED
    BY <1>2, <2>1 DEF BeginWave
<1>3. CASE PauseJob
  BY <1>3 DEF PauseJob, Job
<1>4. CASE EndWave
  BY <1>4 DEF EndWave
<1>5. CASE FinalizeJob
  BY <1>5 DEF FinalizeJob, Job
<1>6. CASE ResumeGroupReimageJob
  BY <1>6 DEF ResumeGroupReimageJob
<1>7. CASE ServerRestarts
  BY <1>7, GroupReimageAssumption DEF ServerRestarts
<1>8. CASE ResumeOrphaned
  BY <1>8 DEF ResumeOrphaned, Dispatch
<1>9. ASSUME NEW n \in Nodes, RequestEnds(n) PROVE WaveInv'
  BY <1>9 DEF RequestEnds
<1>10. CASE UNCHANGED vars
  BY <1>10 DEF vars
<1> QED
  BY <1>1, <1>2, <1>3, <1>4, <1>5, <1>6, <1>7, <1>8, <1>9, <1>10, WaveGoroutine DEF Next, Dispatcher

(* WaveInv holds always.                                                                   *)
LEMMA WaveInvariant == Spec => [](TypeOK /\ WaveInv)
<1>1. Init => TypeOK /\ WaveInv
  BY InitTyped, WaveInit
<1>2. TypeOK /\ WaveInv /\ [Next]_vars => TypeOK' /\ WaveInv'
  BY NextTyped, WaveStep
<1> QED
  BY <1>1, <1>2, PTL DEF Spec

(* A paused, complete or failed job is quiet: nothing that was started before can bring    *)
(* its row back or power-cycle another member.                                             *)
THEOREM StoppedStaysQuiet == Spec => []StoppedIsQuiet
<1>1. WaveInv => StoppedIsQuiet
  BY DEF WaveInv
<1> QED
  BY <1>1, WaveInvariant, PTL

(* No more goroutines than the cap, across waves, pauses, resumes and restarts.            *)
THEOREM CapHolds == Spec => []CapRespected
<1>1. TypeOK /\ WaveInv => CapRespected
  <2> SUFFICES ASSUME TypeOK, WaveInv PROVE CapRespected
    OBVIOUS
  <2> DEFINE busy == {n \in Nodes : gor[n] # "idle"}
  <2>1. busy \subseteq wave /\ wave \subseteq Nodes
    BY DEF WaveInv, TypeOK
  <2>2. IsFiniteSet(wave) /\ Cardinality(busy) <= Cardinality(wave)
    BY <2>1, GroupReimageAssumption, FS_Subset
  <2>3. Cardinality(busy) \in Nat /\ Cardinality(wave) \in Nat
    BY <2>1, <2>2, FS_Subset, FS_CardinalityType
  <2>4. CASE wave = {}
    BY <2>1, <2>2, <2>3, <2>4, FS_EmptySet, GroupReimageAssumption DEF CapRespected
  <2>5. CASE wave # {}
    BY <2>2, <2>3, <2>5, GroupReimageAssumption DEF CapRespected, WaveInv
  <2> QED
    BY <2>4, <2>5
<1> QED
  BY <1>1, WaveInvariant, PTL

(* A member is power-cycled at most once more per restart.                                 *)
THEOREM OnePerRun == Spec => []OncePerRun
<1>1. WaveInv => OncePerRun
  BY DEF WaveInv, OncePerRun
<1> QED
  BY <1>1, WaveInvariant, PTL
-----------------------------------------------------------------------------
(* Accounting.  In every run of the dispatcher the counters count the turns that have      *)
(* ended, and a member of the wave has had its turn unless its goroutine has not come to   *)
(* the end of Trigger; a restart leaves counters and results behind until the next run     *)
(* resets both.  In the first run every member is accounted for.                           *)
With(f, r, S) == {n \in S : f[n] = r}
Counted ==
    /\ job.status = "none" => rest = {} /\ wave = {} /\ \A n \in Nodes : result[n] = "none"
    /\ disp = "wave" => wave # {}
    /\ disp \in {"check", "wave"} =>
          /\ \A n \in Nodes : n \in rest \/ gor[n] \in {"create", "trigger"} => result[n] = "none"
          /\ \A n \in wave : result[n] = "none" => gor[n] \in {"create", "trigger"}
          /\ cnt.succeeded = Cardinality(With(result, "ok", Nodes))
          /\ cnt.failed = Cardinality(With(result, "bad", Nodes))
          /\ waveFailed = Cardinality(With(result, "bad", wave))
    /\ disp = "check" /\ wave # {} => ~ExceedsThreshold
    /\ job.status \in Stopped => /\ job.succeeded = Cardinality(With(result, "ok", Nodes))
                                 /\ job.failed = Cardinality(With(result, "bad", Nodes))
    /\ job.status = "complete" => With(result, "bad", Nodes) = {}
FirstRun ==
    crashes = 0 =>
        /\ disp # "resume"
        /\ job.status # "none" =>
              \A n \in Nodes : result[n] = "none" => n \in rest \/ gor[n] \in {"create", "trigger"}
        /\ \A n \in Nodes : result[n] = "ok" => shots[n] = 1
        /\ job.status = "complete" => rest = {}
CountInv == Counted /\ FirstRun

(* Nothing is counted in the initial state.                                                *)
LEMMA CountInit == Init => CountInv
BY DEF Init, CountInv, Counted, FirstRun, Job, Stopped

(* What members did is a finite set, and none of them is at work outside a wave.           *)
LEMMA FiniteResults ==
    ASSUME TypeOK
    PROVE  \A r : IsFiniteSet(With(result, r, Nodes)) /\ Cardinality(With(result, r, Nodes)) \in Nat
BY GroupReimageAssumption, FS_Subset, FS_CardinalityType DEF With

(* What a goroutine's step leaves alone.                                                    *)
LEMMA GoroutineFrame ==
    ASSUME TypeOK, WaveInv, NEW n \in Nodes, Goroutine(n)
    PROVE  /\ gor[n] # "idle" /\ disp = "wave" /\ job.status = "running" /\ n \in wave /\ n \notin rest
           /\ UNCHANGED <<disp, rest, wave, resumes, crashes>>
           /\ job'.status = "running"
           /\ \A m \in Nodes : m # n => gor'[m] = gor[m] /\ shots'[m] = shots[m]
<1>1. gor[n] # "idle" /\ disp = "wave" /\ job.status = "running" /\ n \in wave /\ n \notin rest
  BY DEF Goroutine, CreateRequest, Trigger, CountTriggered, UpdateProgress, WaveInv, StoppedIsQuiet,
     Quiet, TypeOK
<1>2. /\ UNCHANGED <<disp, rest, wave, resumes, crashes>>
      /\ job' = job \/ job' = Job("running", snap[n])
  BY DEF Goroutine, CreateRequest, Trigger, CountTriggered, UpdateProgress, rowVars
<1>3. job'.status = "running"
  BY <1>1, <1>2 DEF Job
<1>4. \A m \in Nodes : m # n => gor'[m] = gor[m] /\ shots'[m] = shots[m]
  BY DEF Goroutine, CreateRequest, Trigger, CountTriggered, UpdateProgress, GoOn, TypeOK
<1> QED
  BY <1>1, <1>2, <1>3, <1>4

(* A member that ends its turn adds one to the count of its outcome.                       *)
LEMMA OneMore ==
    ASSUME TypeOK, NEW n \in Nodes, NEW r \in {"ok", "bad"}, result[n] = "none", Outcome(n, r),
           NEW S \in SUBSET Nodes, n \in S
    PROVE  /\ Cardinality(With(result', r, S)) = Cardinality(With(result, r, S)) + 1
           /\ \A q \in {"ok", "bad"} : q # r => With(result', q, S) = With(result, q, S)
<1>1. \A m \in Nodes : result'[m] = IF m = n THEN r ELSE result[m]
  BY DEF Outcome, TypeOK
<1>2. With(result', r, S) = With(result, r, S) \cup {n}
  BY <1>1 DEF With
<1>3. n \notin With(result, r, S) /\ IsFiniteSet(With(result, r, S))
  BY GroupReimageAssumption, FS_Subset DEF With
<1>4. \A q \in {"ok", "bad"} : q # r => With(result', q, S) = With(result, q, S)
  BY <1>1 DEF With
<1> QED
  BY <1>2, <1>3, <1>4, FS_AddElement

(* A goroutine's step keeps the account.                                                     *)
LEMMA CountGoroutine ==
    ASSUME TypeOK, WaveInv, CountInv, NEW n \in Nodes, Goroutine(n)
    PROVE  CountInv'
<1> USE DEF TypeOK, CountInv
<1>1. /\ gor[n] # "idle" /\ disp = "wave" /\ job.status = "running" /\ n \in wave /\ n \notin rest
      /\ UNCHANGED <<disp, rest, wave, resumes, crashes>>
      /\ job'.status = "running"
      /\ \A m \in Nodes : m # n => gor'[m] = gor[m] /\ shots'[m] = shots[m]
  BY GoroutineFrame
<1>2. ASSUME UNCHANGED <<result, waveFailed>>, cnt'.succeeded = cnt.succeeded, cnt'.failed = cnt.failed,
             gor'[n] \in {"create", "trigger"} <=> gor[n] \in {"create", "trigger"},
             shots'[n] = shots[n]
      PROVE  CountInv'
  <2>1. Counted'
    BY <1>1, <1>2 DEF Counted, Stopped
  <2>2. FirstRun'
    BY <1>1, <1>2 DEF FirstRun
  <2> QED
    BY <2>1, <2>2
<1>3. ASSUME NEW r \in {"ok", "bad"}, Outcome(n, r), gor[n] \in {"create", "trigger"},
             gor'[n] \notin {"create", "trigger"},
             r = "ok" => /\ shots'[n] = shots[n] + 1 /\ shots[n] <= crashes
                         /\ cnt' = [cnt EXCEPT !.succeeded = @ + 1] /\ waveFailed' = waveFailed,
             r = "bad" => /\ cnt' = [cnt EXCEPT !.failed = @ + 1] /\ waveFailed' = waveFailed + 1
      PROVE  CountInv'
  <2>1. result[n] = "none"
    BY <1>1, <1>3 DEF Counted
  <2>2. \A m \in Nodes : result'[m] = IF m = n THEN r ELSE result[m]
    BY <1>3 DEF Outcome
  <2>3. \A S \in {Nodes, wave} :
           /\ Cardinality(With(result', r, S)) = Cardinality(With(result, r, S)) + 1
           /\ \A q \in {"ok", "bad"} : q # r => With(result', q, S) = With(result, q, S)
    BY <1>1, <1>3, <2>1, OneMore
  <2>4. /\ cnt'.succeeded = Cardinality(With(result', "ok", Nodes))
        /\ cnt'.failed = Cardinality(With(result', "bad", Nodes))
        /\ waveFailed' = Cardinality(With(result', "bad", wave'))
    BY <1>1, <1>3, <2>3 DEF Counted, Counters
  <2>5. /\ \A m \in Nodes : m \in rest \/ gor'[m] \in {"create", "trigger"} => result'[m] = "none"
        /\ \A m \in wave : result'[m] = "none" => gor'[m] \in {"create", "trigger"}
    BY <1>1, <1>3, <2>2 DEF Counted
  <2>6. Counted'
    BY <1>1, <2>4, <2>5 DEF Counted, Stopped
  <2>7. ASSUME crashes' = 0 PROVE \A m \in Nodes : result'[m] = "ok" => shots'[m] = 1
    BY <1>1, <1>3, <2>2, <2>7 DEF FirstRun
  <2>8. FirstRun'
    BY <1>1, <1>3, <2>2, <2>7 DEF FirstRun
  <2> QED
    BY <2>6, <2>8
<1>4. CASE CreateRequest(n)
  <2>1. gor[n] = "create" /\ shots' = shots
    BY <1>4 DEF CreateRequest
  <2>2. CASE GoOn(n, "trigger") /\ UNCHANGED <<cnt, waveFailed, result>>
    BY <1>2, <2>1, <2>2 DEF GoOn
  <2>3. CASE MemberFails(n) /\ GoOn(n, "idle")
    BY <1>3, <2>1, <2>3 DEF GoOn, MemberFails
  <2> QED
    BY <1>4, <2>2, <2>3 DEF CreateRequest
<1>5. CASE Trigger(n)
  <2>1. gor[n] = "trigger" /\ gor'[n] = "count" /\ shots'[n] = shots[n] + 1
    BY <1>5 DEF Trigger, GoOn
  <2>2. CASE Outcome(n, "ok")
    <3>1. cnt' = [cnt EXCEPT !.succeeded = @ + 1] /\ waveFailed' = waveFailed
      <4>1. result'[n] = "ok"
        BY <2>2 DEF Outcome
      <4> QED
        BY <1>5, <4>1 DEF Trigger, MemberFails, Outcome
    <3>2. shots[n] <= crashes
      BY <2>1 DEF WaveInv
    <3> QED
      BY <1>3, <2>1, <2>2, <3>1, <3>2
  <2>3. CASE MemberFails(n)
    BY <1>3, <2>1, <2>3 DEF MemberFails
  <2> QED
    BY <1>5, <2>2, <2>3 DEF Trigger
<1>6. CASE CountTriggered(n)
  BY <1>2, <1>6 DEF CountTriggered, GoOn, Counters
<1>7. CASE UpdateProgress(n)
  BY <1>2, <1>7 DEF UpdateProgress, GoOn
<1> QED
  BY <1>4, <1>5, <1>6, <1>7 DEF Goroutine

(* A run of the dispatcher starts with an empty account.                                   *)
LEMMA CountDispatch ==
    ASSUME TypeOK, NEW S \in SUBSET Nodes, Dispatch(S), job'.status = "running", Quiet, UNCHANGED gor
    PROVE  Counted'
<1>1. \A m \in Nodes : result'[m] = "none"
  BY DEF Dispatch
<1>2. With(result', "ok", Nodes) = {} /\ With(result', "bad", Nodes) = {} /\ With(result', "bad", {}) = {}
  BY <1>1 DEF With
<1> QED
  BY <1>1, <1>2, FS_EmptySet DEF Dispatch, Counted, Zero, Stopped

(* Every step keeps the account.                                                           *)
LEMMA CountStep == TypeOK /\ WaveInv /\ CountInv /\ [Next]_vars => CountInv'
<1> SUFFICES ASSUME TypeOK, WaveInv, CountInv, [Next]_vars PROVE CountInv'
  OBVIOUS
<1> USE DEF rowVars, memVars, CountInv
<1>1. CASE TriggerGroupReimage
  <2>1. /\ job.status = "none" /\ job'.status = "running" /\ Dispatch(Nodes) /\ UNCHANGED <<gor, crashes>>
    BY <1>1 DEF TriggerGroupReimage, Job
  <2>2. Quiet
    BY <2>1 DEF WaveInv, StoppedIsQuiet
  <2>3. Counted'
    BY <2>1, <2>2, CountDispatch
  <2>4. FirstRun'
    BY <2>1 DEF FirstRun, Dispatch
  <2> QED
    BY <2>3, <2>4
<1>2. ASSUME NEW W \in SUBSET rest, BeginWave(W) PROVE CountInv'
  <2>1. /\ disp = "check" /\ disp' = "wave" /\ rest' = rest \ W /\ wave' = W /\ waveFailed' = 0
        /\ gor' = [n \in Nodes |-> IF n \in W THEN "create" ELSE gor[n]]
        /\ UNCHANGED <<job, cnt, shots, result, crashes>>
    BY <1>2 DEF BeginWave
  <2>2. job.status = "running" /\ \A n \in Nodes : gor[n] = "idle"
    BY <2>1 DEF WaveInv, StoppedIsQuiet, Quiet
  <2>3. W # {}
    <3>1. rest # {} /\ rest \subseteq Nodes
      BY <1>2 DEF TypeOK, BeginWave
    <3>2. Cardinality(rest) > 0 /\ Cardinality(rest) \in Nat
      BY <3>1, GroupReimageAssumption, FS_Subset, FS_CardinalityType, FS_EmptySet
    <3>3. Cardinality(W) > 0
      BY <1>2, <3>2, GroupReimageAssumption DEF BeginWave
    <3> QED
      BY <3>3, FS_EmptySet
  <2>4. \A n \in W : n \in Nodes /\ n \in rest /\ result[n] = "none"
    BY <1>2, <2>1 DEF TypeOK, Counted
  <2>5. With(result, "bad", W) = {}
    BY <2>4 DEF With
  <2>6. Counted'
    BY <2>1, <2>2, <2>3, <2>4, <2>5, FS_EmptySet DEF Counted, Stopped
  <2>7. FirstRun'
    BY <2>1, <2>2, <2>4 DEF FirstRun
  <2> QED
    BY <2>6, <2>7
<1>3. CASE PauseJob
  BY <1>3 DEF PauseJob, Counted, FirstRun, Job, WaveInv, StoppedIsQuiet, Stopped
<1>4. CASE EndWave
  <2>1. ExceedsThreshold' <=> ExceedsThreshold
    BY <1>4 DEF EndWave, ExceedsThreshold
  <2> QED
    BY <1>4, <2>1 DEF EndWave, Counted, FirstRun, Stopped
<1>5. CASE FinalizeJob
  <2>1. /\ disp = "check" /\ rest = {} /\ disp' = "idle" /\ UNCHANGED <<rest, wave, gor, shots, result, crashes>>
        /\ job' = Job(IF cnt.failed > 0 THEN "failed" ELSE "complete", cnt) \/ job' = job
    BY <1>5 DEF FinalizeJob
  <2>2. job.status = "running"
    BY <2>1 DEF WaveInv, StoppedIsQuiet
  <2>3. job'.status = "complete" => With(result, "bad", Nodes) = {}
    <3> SUFFICES ASSUME job'.status = "complete" PROVE With(result, "bad", Nodes) = {}
      OBVIOUS
    <3>1. ~(cnt.failed > 0)
      BY <2>1, <2>2 DEF Job
    <3>2. Cardinality(With(result, "bad", Nodes)) = 0
      BY <2>1, <3>1, FiniteResults DEF Counted
    <3> QED
      BY <3>2, FiniteResults, FS_EmptySet
  <2>4. Counted'
    BY <2>1, <2>2, <2>3 DEF Counted, Job, Stopped
  <2>5. FirstRun'
    BY <2>1, <2>2 DEF FirstRun, Job
  <2> QED
    BY <2>4, <2>5
<1>6. CASE ResumeGroupReimageJob
  <2>1. /\ job.status = "paused" /\ job'.status = "running"
        /\ UNCHANGED <<disp, rest, wave, gor, cnt, waveFailed, shots, result, crashes>>
    BY <1>6 DEF ResumeGroupReimageJob, TypeOK
  <2>2. disp = "idle"
    BY <2>1 DEF WaveInv, StoppedIsQuiet
  <2> QED
    BY <2>1, <2>2 DEF Counted, FirstRun, Stopped
<1>7. CASE ServerRestarts
  <2>1. crashes' # 0
    BY <1>7, GroupReimageAssumption DEF ServerRestarts, TypeOK
  <2>2. Counted'
    BY <1>7 DEF ServerRestarts, Counted
  <2> QED
    BY <2>1, <2>2 DEF FirstRun
<1>8. CASE ResumeOrphaned
  <2>1. disp = "resume" /\ UNCHANGED <<job, gor, crashes>>
    BY <1>8 DEF ResumeOrphaned
  <2>2. job.status = "running" /\ Quiet /\ crashes # 0
    BY <2>1 DEF WaveInv, StoppedIsQuiet, FirstRun
  <2>3. CASE disp' = "idle" /\ UNCHANGED <<rest, wave, cnt, waveFailed, result>>
    BY <2>1, <2>2, <2>3 DEF Counted, FirstRun, Stopped
  <2>4. CASE \E S \in SUBSET Nodes : Dispatch(S)
    <3>1. Counted'
      BY <2>1, <2>2, <2>4, CountDispatch
    <3> QED
      BY <2>1, <2>2, <3>1 DEF FirstRun
  <2> QED
    BY <1>8, <2>3, <2>4 DEF ResumeOrphaned
<1>9. CASE UNCHANGED <<job, disp, rest, wave, gor, cnt, waveFailed, shots, result, crashes>>
  BY <1>9 DEF Counted, FirstRun, ExceedsThreshold
<1> QED
  BY <1>1, <1>2, <1>3, <1>4, <1>5, <1>6, <1>7, <1>8, <1>9, CountGoroutine
     DEF Next, Dispatcher, RequestEnds, vars

(* The three invariants hold together.                                                     *)
LEMMA CountInvariant == Spec => [](TypeOK /\ WaveInv /\ CountInv)
<1>1. Init => TypeOK /\ WaveInv /\ CountInv
  BY InitTyped, WaveInit, CountInit
<1>2. TypeOK /\ WaveInv /\ CountInv /\ [Next]_vars => TypeOK' /\ WaveInv' /\ CountInv'
  BY NextTyped, WaveStep, CountStep
<1> QED
  BY <1>1, <1>2, PTL DEF Spec

(* The row of a stopped job accounts for every turn of the last run, restarts and resumes  *)
(* included, and a job is complete only when none of them failed; without a restart, only  *)
(* when each member was power-cycled once and without an error.                            *)
THEOREM RowTellsTheTruth == Spec => []RowIsTrue
<1>1. TypeOK /\ WaveInv /\ CountInv => RowIsTrue
  <2> SUFFICES ASSUME TypeOK, WaveInv, CountInv, job.status \in Stopped
               PROVE  /\ job.succeeded = Cardinality(With(result, "ok", Nodes))
                      /\ job.failed = Cardinality(With(result, "bad", Nodes))
                      /\ job.status = "complete" =>
                            \A n \in Nodes : /\ result[n] # "bad"
                                             /\ crashes = 0 => shots[n] = 1 /\ result[n] = "ok"
    BY DEF RowIsTrue, With
  <2>1. ASSUME job.status = "complete", NEW n \in Nodes
        PROVE  result[n] # "bad" /\ (crashes = 0 => shots[n] = 1 /\ result[n] = "ok")
    <3>1. result[n] # "bad"
      BY <2>1 DEF CountInv, Counted, With
    <3>2. crashes = 0 => n \notin rest /\ gor[n] = "idle"
      BY <2>1 DEF WaveInv, StoppedIsQuiet, Quiet, CountInv, FirstRun
    <3>3. crashes = 0 => result[n] = "ok"
      BY <2>1, <3>1, <3>2 DEF CountInv, FirstRun, TypeOK
    <3> QED
      BY <3>1, <3>3 DEF CountInv, FirstRun
  <2> QED
    BY <2>1 DEF CountInv, Counted
<1> QED
  BY <1>1, CountInvariant, PTL
-----------------------------------------------------------------------------
(* Refinement.  The crew of the rolling job is a dispatcher that is past its lookup.       *)

(* Both modules count with the same Cardinality.                                           *)
LEMMA SameCardinality == \A S : Rolling!Cardinality(S) = Cardinality(S)
BY DEF Cardinality, Rolling!Cardinality

(* The initial states are initial states of the rolling job.                               *)
LEMMA RefinesInit == Init => Rolling!Init
BY DEF Init, Job, Rolling!Init

(* The end of a member's turn is an Ends step, and the rest of a goroutine a stutter.      *)
LEMMA RefinesGoroutine ==
    ASSUME TypeOK, WaveInv, Counted, NEW n \in Nodes, Goroutine(n)
    PROVE  Rolling!Next \/ UNCHANGED Rolling!vars
<1>1. /\ gor[n] # "idle" /\ disp = "wave" /\ job.status = "running" /\ n \in wave
      /\ UNCHANGED <<disp, rest, wave>> /\ job'.status = "running"
  BY GoroutineFrame
<1>2. UNCHANGED result \/ (\E r \in {"ok", "bad"} : Outcome(n, r) /\ gor[n] \in {"create", "trigger"})
  BY DEF Goroutine, CreateRequest, Trigger, MemberFails, CountTriggered, UpdateProgress
<1>3. CASE UNCHANGED result
  BY <1>1, <1>3 DEF Rolling!vars
<1>4. ASSUME NEW r \in {"ok", "bad"}, Outcome(n, r), gor[n] \in {"create", "trigger"}
      PROVE  Rolling!Ends(n, r)
  <2>1. result[n] = "none"
    BY <1>1, <1>4 DEF Counted
  <2> QED
    BY <1>1, <1>4, <2>1 DEF Rolling!Ends, Rolling!Open, Outcome
<1> QED
  BY <1>1, <1>2, <1>3, <1>4 DEF Rolling!Next

(* What the integer division of the code returns.                                           *)
LEMMA Quotient ==
    ASSUME NEW a \in Nat, NEW t \in Nat \ {0}
    PROVE  a \div t \in Int /\ t * (a \div t) <= a /\ a < t * (a \div t) + t
OBVIOUS

(* Multiplication keeps the order.                                                          *)
LEMMA Scaled == ASSUME NEW t \in Nat \ {0}, NEW q \in Int, NEW r \in Int, q <= r PROVE t * q <= t * r
OBVIOUS

(* The truncated percentage is above p exactly when the share of failures is p + 1 percent  *)
(* or more.                                                                                 *)
LEMMA WholePercent ==
    ASSUME NEW b \in Nat, NEW t \in Nat \ {0}, NEW p \in Nat
    PROVE  /\ (b * 100) \div t > p <=> b * 100 >= (p + 1) * t
           /\ (b * 100) \div t > p => b * 100 > p * t
<1> DEFINE a == b * 100
           q == a \div t
<1>1. a \in Nat
  OBVIOUS
<1>2. q \in Int /\ t * q <= a /\ a < t * q + t
  BY <1>1, Quotient
<1> HIDE DEF a, q
<1>3. (p + 1) * t = t * p + t /\ p * t = t * p /\ t * (p + 1) = t * p + t /\ t * p \in Int /\ t * q \in Int
  BY <1>2
<1>4. ASSUME q > p PROVE a >= (p + 1) * t
  <2>1. p + 1 <= q /\ p + 1 \in Int
    BY <1>2, <1>4
  <2>2. t * (p + 1) <= t * q
    BY <1>2, <2>1, Scaled
  <2> QED
    BY <1>1, <1>2, <1>3, <2>2
<1>5. ASSUME q <= p PROVE a < (p + 1) * t
  <2>1. t * q <= t * p
    BY <1>2, <1>5, Scaled
  <2> QED
    BY <1>1, <1>2, <1>3, <2>1
<1>6. q > p => a > p * t
  BY <1>1, <1>3, <1>4
<1>7. q > p <=> a >= (p + 1) * t
  BY <1>1, <1>2, <1>3, <1>4, <1>5
<1> QED
  BY <1>6, <1>7 DEF a, q

(* Between waves no member of the wave is at work, and the truncated percentage that pauses *)
(* the job is one that may, and one that must.                                              *)
LEMMA WaveIsOver ==
    ASSUME TypeOK, WaveInv, Counted, disp \in {"check", "wave"}, Quiet
    PROVE  /\ job.status = "running"
           /\ Rolling!Open = {}
           /\ wave # {} =>
                 /\ ExceedsThreshold <=> Rolling!MustPause(Cardinality(Rolling!Bad), Cardinality(wave))
                 /\ ExceedsThreshold => Rolling!MayPause(Cardinality(Rolling!Bad), Cardinality(wave))
<1>1. job.status = "running"
  BY DEF WaveInv, StoppedIsQuiet
<1>2. \A n \in wave : n \in Nodes /\ gor[n] = "idle"
  BY DEF TypeOK, Quiet
<1>3. \A n \in wave : result[n] # "none"
  BY <1>2 DEF Counted
<1>4. waveFailed = Cardinality(Rolling!Bad) /\ waveFailed \in Nat
  BY DEF Counted, With, Rolling!Bad, TypeOK
<1>5. ASSUME wave # {} PROVE Cardinality(wave) \in Nat \ {0}
  BY <1>5, GroupReimageAssumption, FS_Subset, FS_CardinalityType, FS_EmptySet DEF TypeOK
<1>6. ASSUME wave # {}
      PROVE  /\ ExceedsThreshold <=> waveFailed * 100 >= (PausePct + 1) * Cardinality(wave)
             /\ ExceedsThreshold => waveFailed * 100 > PausePct * Cardinality(wave)
  BY <1>4, <1>5, <1>6, WholePercent, GroupReimageAssumption DEF ExceedsThreshold
<1> QED
  BY <1>1, <1>3, <1>4, <1>6 DEF Rolling!Open, Rolling!MustPause, Rolling!MayPause

(* Each step of the detailed job is a step of the rolling job, or a stutter.               *)
LEMMA RefinesStep ==
    ASSUME TypeOK, WaveInv, Counted, [Next]_vars
    PROVE  Rolling!Next \/ UNCHANGED Rolling!vars
<1> USE DEF rowVars, memVars
<1>1. CASE TriggerGroupReimage
  <2>1. job.status = "none" /\ disp = "idle" /\ job'.status = "running" /\ Dispatch(Nodes)
    BY <1>1 DEF TriggerGroupReimage, Job, WaveInv, StoppedIsQuiet
  <2> QED
    BY <2>1 DEF Dispatch, Rolling!Next, Rolling!Start, Rolling!Crew
<1>2. ASSUME NEW W \in SUBSET rest, BeginWave(W) PROVE Rolling!Next
  <2>1. /\ disp = "check" /\ disp' = "wave" /\ rest' = rest \ W /\ wave' = W /\ rest # {}
        /\ UNCHANGED <<job, result>>
    BY <1>2 DEF BeginWave
  <2>2. Quiet
    BY <2>1 DEF WaveInv
  <2>3. wave # {} => ~Rolling!MustPause(Cardinality(Rolling!Bad), Cardinality(wave))
    BY <2>1, <2>2, WaveIsOver DEF Counted
  <2>4. W # {} /\ Cardinality(W) <= Concurrency
    <3>1. Cardinality(rest) > 0 /\ Cardinality(rest) \in Nat
      BY <2>1, GroupReimageAssumption, FS_Subset, FS_CardinalityType, FS_EmptySet DEF TypeOK
    <3>2. Cardinality(W) > 0 /\ Cardinality(W) <= Concurrency
      BY <1>2, <3>1, GroupReimageAssumption DEF BeginWave
    <3> QED
      BY <3>2, FS_EmptySet
  <2>5. Rolling!BeginWave(W)
    BY <2>1, <2>2, <2>3, <2>4, WaveIsOver, SameCardinality DEF Rolling!BeginWave
  <2> QED
    BY <2>5 DEF Rolling!Next
<1>3. CASE PauseJob
  <2>1. /\ disp = "wave" /\ disp' = "idle" /\ Quiet /\ ExceedsThreshold /\ UNCHANGED <<rest, wave, result>>
        /\ job' = Job("paused", cnt) \/ job' = job
    BY <1>3 DEF PauseJob
  <2>2. job'.status \in {"paused", job.status}
    BY <2>1 DEF Job
  <2>3. Rolling!Pause
    BY <2>1, <2>2, WaveIsOver, SameCardinality DEF Rolling!Pause, Rolling!Leave, Counted
  <2> QED
    BY <2>3 DEF Rolling!Next
<1>4. CASE EndWave
  BY <1>4 DEF EndWave, Rolling!vars
<1>5. CASE FinalizeJob
  <2>1. /\ disp = "check" /\ disp' = "idle" /\ rest = {} /\ UNCHANGED <<rest, wave, result>>
        /\ job' = Job(IF cnt.failed > 0 THEN "failed" ELSE "complete", cnt) \/ job' = job
    BY <1>5 DEF FinalizeJob
  <2>2. Quiet
    BY <2>1 DEF WaveInv
  <2>3. cnt.failed > 0 <=> \E n \in Nodes : result[n] = "bad"
    <3>1. cnt.failed > 0 <=> With(result, "bad", Nodes) # {}
      BY <2>1, FiniteResults, FS_EmptySet DEF Counted
    <3> QED
      BY <3>1 DEF With
  <2>4. job'.status \in {IF \E n \in Nodes : result[n] = "bad" THEN "failed" ELSE "complete", job.status}
    BY <2>1, <2>3 DEF Job
  <2>5. wave # {} => ~Rolling!MustPause(Cardinality(Rolling!Bad), Cardinality(wave))
    BY <2>1, <2>2, WaveIsOver DEF Counted
  <2>6. Rolling!Finish
    BY <2>1, <2>2, <2>4, <2>5, WaveIsOver, SameCardinality DEF Rolling!Finish, Rolling!Leave
  <2> QED
    BY <2>6 DEF Rolling!Next
<1>6. CASE ResumeGroupReimageJob
  <2>1. /\ job.status = "paused" /\ job'.status = "running"
        /\ UNCHANGED <<disp, rest, wave, result>>
    BY <1>6 DEF ResumeGroupReimageJob, TypeOK
  <2> QED
    BY <2>1 DEF Rolling!Next, Rolling!Resume
<1>7. CASE ServerRestarts
  BY <1>7 DEF ServerRestarts, Rolling!Next, Rolling!Restart
<1>8. CASE ResumeOrphaned
  <2>1. disp = "resume" /\ UNCHANGED job
    BY <1>8 DEF ResumeOrphaned
  <2>2. job.status = "running"
    BY <2>1 DEF WaveInv, StoppedIsQuiet
  <2>3. CASE disp' = "idle" /\ UNCHANGED <<rest, wave, result>>
    BY <2>1, <2>3 DEF Rolling!vars
  <2>4. ASSUME NEW S \in SUBSET Nodes, S # {}, Dispatch(S) PROVE Rolling!Next
    BY <2>1, <2>2, <2>4 DEF Dispatch, Rolling!Next, Rolling!PickUp, Rolling!Crew
  <2>5. (disp' = "idle" /\ UNCHANGED <<rest, wave, result>>) \/ \E S \in SUBSET Nodes : S # {} /\ Dispatch(S)
    BY <1>8 DEF ResumeOrphaned
  <2> QED
    BY <2>3, <2>4, <2>5
<1>9. CASE UNCHANGED <<job, disp, rest, wave, result>>
  BY <1>9 DEF Rolling!vars
<1>10. ASSUME NEW n \in Nodes, Goroutine(n) PROVE Rolling!Next \/ UNCHANGED Rolling!vars
  BY <1>10, RefinesGoroutine
<1> QED
  BY <1>1, <1>2, <1>3, <1>4, <1>5, <1>6, <1>7, <1>8, <1>9, <1>10
     DEF Next, Dispatcher, RequestEnds, vars

(* The goroutines, counters and rows implement the rolling job, with failing statements,   *)
(* resumes and restarts: one crew at a time, waves within the cap, one after the other,    *)
(* none after a wave in which too many failed, and an outcome that says what became of the *)
(* members.                                                                                *)
THEOREM Refines == Spec => RollingSpec
<1>1. Init => Rolling!Init
  BY RefinesInit
<1>2. TypeOK /\ WaveInv /\ CountInv /\ [Next]_vars => [Rolling!Next]_(Rolling!vars)
  BY RefinesStep DEF CountInv
<1> QED
  BY <1>1, <1>2, CountInvariant, PTL DEF Spec, RollingSpec, Rolling!Spec
=============================================================================
