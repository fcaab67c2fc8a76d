------------------------------- MODULE MCJobs -------------------------------
(***************************************************************************)
(* An instance for TLC of serverd's long jobs: a behaviour is one of the   *)
(* builds of images (with a fault or an end of the server, not both) or of *)
(* the reimage of a group; the other stays at its initial state, where it  *)
(* owes nothing.                                                           *)
(***************************************************************************)
EXTENDS MCImages

CONSTANTS m1, m2, Members, Concurrency, PausePct, BmcFails, DbFails, MaxResumes, MaxCrashes

TwoMembers == {m1, m2}

VARIABLES part,  \* the kind of job of this behaviour
          job, disp, rest, wave, gor, cnt, waveFailed, snap, memberReq, shots, result, lastWord,
          resumes, crashes

groupVars == <<job, disp, rest, wave, gor, cnt, waveFailed, snap, memberReq, shots, result, lastWord,
               resumes, crashes>>

Group == INSTANCE GroupReimage WITH Nodes <- Members

JobsInit == part \in {"images", "group"} /\ ImagesInit /\ Group!Init

JobsNext ==
    /\ UNCHANGED part
    /\ \/ /\ part = "images" /\ ImagesNext /\ UNCHANGED groupVars
          /\ imageFaults' = 0 \/ (stops' = 0 /\ serving' = "up")
       \/ part = "group" /\ Group!Next /\ UNCHANGED imageVars

JobsSpec == /\ JobsInit /\ [][JobsNext]_<<part, imageVars, groupVars>>
            /\ ImagesFair /\ Group!GroupFair

(* GroupReimage's JobStops: a job somebody works at becomes complete, failed or paused.    *)
JobStops == Group!JobStops
=============================================================================
