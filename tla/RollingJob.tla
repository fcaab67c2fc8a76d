----------------------------- MODULE RollingJob -----------------------------
(***************************************************************************)
(* What a rolling group reimage promises, without goroutines, counters or  *)
(* database rows.  A crew works through its members: each is started once, *)
(* in waves no larger than the concurrency, and none after a wave in which *)
(* too many failed; the job is complete exactly when no member that was    *)
(* started failed.  One crew at a time; a restart ends it, and a running   *)
(* job gets another one, for some of the members.  Resuming a paused job   *)
(* only says that it is running.                                           *)
(***************************************************************************)
EXTENDS Integers, FiniteSets

CONSTANTS
    Nodes,          \* the members of the group, finitely many
    Concurrency,    \* how many members may be in one wave, at least one
    PausePct        \* pause_on_failure_pct

\* The threshold is in whole percent: a wave in which one percent more than that failed, or
\* even more, stops the job, and one in which no more than that failed never does.
MustPause(bad, total) == bad * 100 >= (PausePct + 1) * total
MayPause(bad, total)  == bad * 100 > PausePct * total

VARIABLES
    status,     \* "none", "running", "paused", "complete", "failed"
    crew,       \* does anybody work at the job
    left,       \* members the crew has not started
    wave,       \* members of its current wave
    result      \* [Nodes -> {"none", "ok", "bad"}], what became of those it started

vars == <<status, crew, left, wave, result>>

Open == {n \in wave : result[n] = "none"}    \* still at work
Bad  == {n \in wave : result[n] = "bad"}

Init ==
    /\ status = "none"
    /\ crew = FALSE
    /\ left = {}
    /\ wave = {}
    /\ result = [n \in Nodes |-> "none"]

Crew(S) ==
    /\ ~crew
    /\ crew' = TRUE
    /\ left' = S
    /\ wave' = {}
    /\ result' = [n \in Nodes |-> "none"]
    /\ status' = "running"

Start == status = "none" /\ Crew(Nodes)

\* After a restart: those who are not under way already.
PickUp(S) == status = "running" /\ S # {} /\ Crew(S)

\* A wave begins when the one before it has ended without too many failures.
BeginWave(W) ==
    /\ crew
    /\ Open = {}
    /\ wave # {} => ~MustPause(Cardinality(Bad), Cardinality(wave))
    /\ W # {}
    /\ W \subseteq left
    /\ Cardinality(W) <= Concurrency
    /\ wave' = W
    /\ left' = left \ W
    /\ UNCHANGED <<status, crew, result>>

Ends(n, r) ==
    /\ crew
    /\ n \in Open
    /\ result' = [result EXCEPT ![n] = r]
    /\ UNCHANGED <<status, crew, left, wave>>

\* The crew's last word, which may be lost: the job is then left running.
Leave(s) ==
    /\ crew
    /\ Open = {}
    /\ status' \in {s, status}
    /\ crew' = FALSE
    /\ UNCHANGED <<left, wave, result>>

Pause ==
    /\ wave # {}
    /\ MayPause(Cardinality(Bad), Cardinality(wave))
    /\ Leave("paused")

Finish ==
    /\ left = {}
    /\ wave # {} => ~MustPause(Cardinality(Bad), Cardinality(wave))
    /\ Leave(IF \E n \in Nodes : result[n] = "bad" THEN "failed" ELSE "complete")

Resume ==
    /\ status = "paused"
    /\ status' = "running"
    /\ UNCHANGED <<crew, left, wave, result>>

Restart ==
    /\ crew' = FALSE
    /\ left' = {}
    /\ wave' = {}
    /\ UNCHANGED <<status, result>>

Next ==
    \/ Start
    \/ \E S \in SUBSET Nodes : PickUp(S)
    \/ \E W \in SUBSET left : BeginWave(W)
    \/ \E n \in wave, r \in {"ok", "bad"} : Ends(n, r)
    \/ Pause \/ Finish
    \/ Resume
    \/ Restart

Spec == Init /\ [][Next]_vars
=============================================================================
