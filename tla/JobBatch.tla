------------------------------ MODULE JobBatch ------------------------------
(***************************************************************************)
(* What the analyze stage of run-doctor.py promises, without threads,      *)
(* files or signals: each job gets one result, a job's result is decided   *)
(* only when no session of it is live, never more than MaxLive sessions    *)
(* are live, and the batch is complete only when every job is decided and  *)
(* no session is left.                                                     *)
(***************************************************************************)
EXTENDS Integers, FiniteSets

CONSTANTS Jobs, MaxLive

VARIABLES
  stage,   \* "open", "complete" or "aborted"
  live,    \* jobs with a live session
  result   \* the decided result of each job

batchVars == <<stage, live, result>>

Init ==
  /\ stage = "open"
  /\ live = {}
  /\ result = [j \in Jobs |-> "pending"]

StartLive(j) ==
  /\ stage = "open"
  /\ result[j] = "pending"
  /\ j \notin live
  /\ Cardinality(live) < MaxLive
  /\ live' = live \cup {j}
  /\ UNCHANGED <<stage, result>>

\* A session an aborted batch leaves behind still ends.
EndLive(j) ==
  /\ j \in live
  /\ live' = live \ {j}
  /\ UNCHANGED <<stage, result>>

Decide(j, r) ==
  /\ stage = "open"
  /\ result[j] = "pending"
  /\ j \notin live
  /\ result' = [result EXCEPT ![j] = r]
  /\ UNCHANGED <<stage, live>>

Complete ==
  /\ stage = "open"
  /\ live = {}
  /\ \A j \in Jobs : result[j] # "pending"
  /\ stage' = "complete"
  /\ UNCHANGED <<live, result>>

Abort ==
  /\ stage = "open"
  /\ stage' = "aborted"
  /\ UNCHANGED <<live, result>>

Next ==
  \/ \E j \in Jobs : StartLive(j) \/ EndLive(j)
  \/ \E j \in Jobs, r \in {"ok", "failed"} : Decide(j, r)
  \/ Complete
  \/ Abort

Spec == Init /\ [][Next]_batchVars
=============================================================================
