------------------------- MODULE DoctorStagesProofs -------------------------
(***************************************************************************)
(* Proofs about the stage loop, for every list of stages: type             *)
(* correctness, that a fatal stage which failed is followed by no child    *)
(* (FinalizeNeedsBugs), that the exit status tells the truth               *)
(* (ExitStatusTold), and whom a signal can hit (SignalHitsItsChild).       *)
(***************************************************************************)
EXTENDS DoctorStages, TLAPS

USE StagesAssumption

\* While main is inside a stage function with a child, the current stage
\* has no verdict yet; a reaped child has exited.
InChild ==
  pc \in {"spawned", "reading", "reaped", "verdict"} =>
    /\ step \in Steps
    /\ verdict[step] = "none"
    /\ pc \in {"reaped", "verdict"} => child[step] = "exited"

\* Stages behind the current one have a verdict, a fatal one a good verdict;
\* stages ahead have neither a verdict nor a child.
StageOrder ==
  /\ \A i \in Steps : i < step =>
       /\ verdict[i] # "none"
       /\ Stages[i] \in {"prepare", "bugs"} => verdict[i] = "ok"
  /\ \A i \in Steps : i > step => verdict[i] = "none" /\ child[i] = "none"
  /\ pc = "dispatch" /\ step \in Steps =>
       verdict[step] = "none" /\ child[step] = "none"

\* A good verdict on a stage with a child comes from exit code 0.
OkMeansZero ==
  \A i \in Steps :
    verdict[i] = "ok" /\ Stages[i] # "analyze" => code[i] = 0

ExitTold ==
  /\ exit = "ok" => \A i \in Steps : verdict[i] = "ok"
  /\ exit = "errors" => \E i \in Steps : verdict[i] = "failed"
  /\ exit # "none" => pc = "exited"

StageInv == TypeOK /\ InChild /\ StageOrder /\ OkMeansZero /\ ExitTold

LEMMA StepsFinite == Len(Stages) \in Nat /\ Steps = 1..Len(Stages)
  BY DEF Steps

LEMMA StageInit == Init => StageInv
<1> SUFFICES ASSUME Init PROVE StageInv
  OBVIOUS
<1>1. step \in 1..(Len(Stages) + 1)
  BY StepsFinite DEF Init
<1>2. /\ child \in [Steps -> ChildStates] /\ code \in [Steps -> -1..1]
      /\ timer \in [Steps -> TimerStates]
      /\ verdict \in [Steps -> {"none", "ok", "failed"}]
  BY DEF Init, ChildStates, TimerStates
<1>3. TypeOK
  BY <1>1, <1>2 DEF Init, TypeOK
<1>4. InChild /\ StageOrder /\ OkMeansZero /\ ExitTold
  BY StepsFinite DEF Init, InChild, StageOrder, OkMeansZero, ExitTold
<1> QED
  BY <1>3, <1>4 DEF StageInv

\* The stage function returns: what Return does to the invariant.
LEMMA ReturnStep ==
  ASSUME StageInv, step \in Steps,
         pc \in {"dispatch", "spawned", "reading", "verdict"},
         NEW ok \in BOOLEAN, Return(ok),
         UNCHANGED <<child, reaped, code, timedOut, stray>>,
         registered' \subseteq Steps, timer' \in [Steps -> TimerStates],
         summary' \in {"none", "old", "fresh"},
         verdict[step] = "none",
         ok /\ Stages[step] # "analyze" => code[step] = 0
  PROVE  StageInv'
<1> USE StepsFinite DEF StageInv, TypeOK, childVars, Steps
<1>1. /\ verdict' \in [Steps -> {"none", "ok", "failed"}]
      /\ verdict'[step] = IF ok THEN "ok" ELSE "failed"
      /\ \A i \in Steps : i # step => verdict'[i] = verdict[i]
  BY DEF Return
<1>2. CASE ~ok /\ Current \in {"prepare", "bugs"}
  <2>1. pc' = "exited" /\ exit' = "errors" /\ step' = step
    BY <1>2 DEF Return
  <2>2. TypeOK' /\ InChild'
    BY <1>1, <2>1 DEF InChild
  <2>3. StageOrder'
    BY <1>1, <2>1 DEF StageOrder
  <2>4. OkMeansZero' /\ ExitTold'
    BY <1>1, <1>2, <2>1 DEF OkMeansZero, ExitTold
  <2> QED
    BY <2>2, <2>3, <2>4
<1>3. CASE ok \/ Current \notin {"prepare", "bugs"}
  <2>1. pc' = "dispatch" /\ step' = step + 1 /\ exit' = exit
    BY <1>3 DEF Return
  <2>2. TypeOK' /\ InChild'
    BY <1>1, <2>1 DEF InChild
  <2>3. StageOrder'
    <3>1. \A i \in Steps : i < step' => i < step \/ i = step
      BY <2>1
    <3>2. \A i \in Steps : i < step' =>
            /\ verdict'[i] # "none"
            /\ Stages[i] \in {"prepare", "bugs"} => verdict'[i] = "ok"
      BY <1>1, <1>3, <3>1 DEF StageOrder, Current
    <3>3. \A i \in Steps : i >= step' => i > step
      BY <2>1
    <3>4. \A i \in Steps : i >= step' => verdict'[i] = "none" /\ child'[i] = "none"
      BY <1>1, <3>3 DEF StageOrder
    <3> QED
      BY <2>1, <3>2, <3>4 DEF StageOrder
  <2>4. OkMeansZero'
    BY <1>1, <2>1 DEF OkMeansZero
  <2>5. ExitTold'
    BY <2>1 DEF ExitTold
  <2> QED
    BY <2>2, <2>3, <2>4, <2>5
<1> QED
  BY <1>2, <1>3

LEMMA StageStep == StageInv /\ [Next]_vars => StageInv'
<1> SUFFICES ASSUME StageInv, [Next]_vars PROVE StageInv'
  OBVIOUS
<1> USE StepsFinite
<1>1. CASE Finish
  <2>1. \A i \in Steps : verdict[i] # "none"
    BY <1>1 DEF Finish, StageInv, StageOrder, TypeOK, Steps
  <2> QED
    BY <1>1, <2>1 DEF Finish, HadErrors, StageInv, TypeOK, InChild,
       StageOrder, OkMeansZero, ExitTold, childVars, Steps
<1>2. CASE Analyze
  <2>1. PICK ok \in BOOLEAN : Return(ok)
    BY <1>2 DEF Analyze
  <2>2. /\ verdict[step] = "none" /\ step \in Steps /\ pc = "dispatch"
        /\ summary' \in {"none", "old", "fresh"}
    BY <1>2 DEF Analyze, StageInv, StageOrder, TypeOK
  <2>3. /\ UNCHANGED <<child, reaped, code, timedOut, stray>>
        /\ registered' \subseteq Steps /\ timer' \in [Steps -> TimerStates]
    BY <1>2 DEF Analyze, childVars, StageInv, TypeOK
  <2> QED
    BY <1>2, <2>1, <2>2, <2>3, ReturnStep DEF Analyze, Current
<1>3. CASE StartChild
  BY <1>3 DEF StartChild, StageInv, TypeOK, InChild, StageOrder, OkMeansZero,
     ExitTold, stageVars, Steps, ChildStates, Current
<1>4. CASE StartChildFails
  <2>1. verdict[step] = "none" /\ step \in Steps /\ pc = "dispatch"
    BY <1>4 DEF StartChildFails, StageInv, StageOrder, TypeOK
  <2>2. Return(FALSE) /\ UNCHANGED <<child, reaped, code, timedOut, stray>>
    BY <1>4 DEF StartChildFails, childVars
  <2>3. /\ summary' \in {"none", "old", "fresh"}
        /\ registered' \subseteq Steps /\ timer' \in [Steps -> TimerStates]
    BY <1>4 DEF StartChildFails, childVars, StageInv, TypeOK
  <2> QED
    BY <2>1, <2>2, <2>3, ReturnStep
<1>5. CASE WatchChild
  BY <1>5 DEF WatchChild, StageInv, TypeOK, InChild, StageOrder, OkMeansZero,
     ExitTold, stageVars, Steps, TimerStates
<1>6. CASE WaitChild
  BY <1>6 DEF WaitChild, StageInv, TypeOK, InChild, StageOrder, OkMeansZero,
     ExitTold, stageVars, Steps
<1>7. CASE Cleanup
  <2>1. /\ timer' \in [Steps -> TimerStates] /\ timedOut' \in BOOLEAN
        /\ registered' \subseteq Steps
    BY <1>7 DEF Cleanup, CancelTimer, Unregister, StageInv, TypeOK, TimerStates
  <2> QED
    BY <1>7, <2>1 DEF Cleanup, StageInv, TypeOK, InChild, StageOrder,
       OkMeansZero, ExitTold, stageVars, Steps
<1>8. CASE Judge
  <2>1. verdict[step] = "none" /\ step \in Steps /\ pc = "verdict"
    BY <1>8 DEF Judge, StageInv, InChild
  <2>2. PICK ok \in BOOLEAN : Return(ok) /\ (ok => code[step] = 0)
    BY <1>8 DEF Judge, ChildSucceeded
  <2>3. /\ UNCHANGED <<child, reaped, code, timedOut, stray>>
        /\ registered' \subseteq Steps /\ timer' \in [Steps -> TimerStates]
        /\ summary' \in {"none", "old", "fresh"}
    BY <1>8 DEF Judge, PrepareSummary, childVars, StageInv, TypeOK
  <2> QED
    BY <2>1, <2>2, <2>3, ReturnStep
<1>9. CASE SignalHandler
  BY <1>9 DEF SignalHandler, StageInv, TypeOK, InChild, StageOrder,
     OkMeansZero, ExitTold, Steps, ChildStates, TimerStates
<1>10. ASSUME NEW i \in Steps, TimerExpires(i) PROVE StageInv'
  BY <1>10 DEF TimerExpires, StageInv, TypeOK, InChild, StageOrder,
     OkMeansZero, ExitTold, stageVars, childVars, Steps, TimerStates
<1>11. ASSUME NEW i \in Steps, Kill(i) PROVE StageInv'
  <2>1. \A k \in Steps : /\ child'[k] \in ChildStates
                         /\ child'[k] = "exited" <=> child[k] = "exited"
                         /\ child'[k] = "none" <=> child[k] = "none"
    BY <1>11 DEF Kill, StageInv, TypeOK, ChildStates
  <2>2. child' \in [Steps -> ChildStates]
    BY <1>11 DEF Kill, StageInv, TypeOK, ChildStates
  <2> QED
    BY <1>11, <2>1, <2>2 DEF Kill, StageInv, TypeOK, InChild, StageOrder,
       OkMeansZero, ExitTold, stageVars, Steps, TimerStates
<1>12. ASSUME NEW i \in Steps, NEW c \in {0, 1}, ChildExits(i, c)
       PROVE  StageInv'
  <2>1. code[i] = -1
    BY <1>12 DEF ChildExits, StageInv, TypeOK
  <2>2. TypeOK' /\ InChild' /\ ExitTold'
    BY <1>12 DEF ChildExits, StageInv, TypeOK, InChild, ExitTold, stageVars,
       ChildStates, Steps
  <2>3. StageOrder' /\ OkMeansZero'
    BY <1>12, <2>1 DEF ChildExits, StageInv, TypeOK, StageOrder, OkMeansZero,
       stageVars, Steps
  <2> QED
    BY <2>2, <2>3 DEF StageInv
<1>13. CASE TimerFails \/ ReadFails
  <2>1. /\ verdict[step] = "none" /\ step \in Steps
        /\ pc \in {"spawned", "reading"}
    BY <1>13 DEF TimerFails, ReadFails, StageInv, InChild
  <2>2. /\ UNCHANGED <<child, reaped, code, timedOut, stray>>
        /\ registered' \subseteq Steps /\ timer' \in [Steps -> TimerStates]
        /\ summary' \in {"none", "old", "fresh"}
    BY <1>13, <2>1 DEF TimerFails, ReadFails, CancelTimer, Unregister,
       StageInv, TypeOK, TimerStates
  <2>3. CASE Return(FALSE)
    BY <2>1, <2>2, <2>3, ReturnStep
  <2>4. CASE Raise
    BY <2>1, <2>2, <2>4 DEF Raise, StageInv, TypeOK, InChild, StageOrder,
       OkMeansZero, ExitTold
  <2> QED
    BY <1>13, <2>3, <2>4 DEF TimerFails, ReadFails
<1>14. CASE UNCHANGED vars
  BY <1>14 DEF vars, stageVars, childVars, StageInv, TypeOK, InChild,
     StageOrder, OkMeansZero, ExitTold
<1> QED
  BY <1>1, <1>2, <1>3, <1>4, <1>5, <1>6, <1>7, <1>8, <1>9, <1>10, <1>11,
     <1>12, <1>13, <1>14 DEF Next, MainStep, Terminated

LEMMA StageInvariant == Spec => []StageInv
  BY StageInit, StageStep, PTL DEF Spec

\* Type correctness of the stage loop.
THEOREM StagesTypeCorrect == Spec => []TypeOK
<1>1. StageInv => TypeOK
  BY DEF StageInv
<1> QED
  BY <1>1, StageInvariant, PTL

\* No stage starts a child after a prepare or bugs stage that failed.
THEOREM FinalizeNeedsBugsHolds == Spec => []FinalizeNeedsBugs
<1>1. StageInv => FinalizeNeedsBugs
  BY StepsFinite DEF StageInv, TypeOK, StageOrder, OkMeansZero,
     FinalizeNeedsBugs, Steps
<1> QED
  BY <1>1, StageInvariant, PTL

\* The exit status agrees with the stages' verdicts, and the verdicts with
\* the children's exit codes.
THEOREM ExitStatusToldHolds == Spec => []ExitStatusTold
<1>1. StageInv => ExitStatusTold
  BY DEF StageInv, OkMeansZero, ExitTold, ExitStatusTold, HadErrors
<1> QED
  BY <1>1, StageInvariant, PTL
(***************************************************************************)
(* The signal invariant: which children are alive and which are registered *)
(* at each control state, so that what a signal does at any of them is     *)
(* known, and what it did stays true of the process it ended.              *)
(***************************************************************************)
\* A stage that failed without waiting for its child.
LeftAlone(i) == verdict[i] = "failed" /\ i \notin reaped

\* A live child is the current stage's, which main reads or the end of the
\* run has left, or one a failed stage left alone.
LiveIsCurrent ==
  \A i \in Steps : child[i] \in {"running", "terminated"} =>
    \/ i = step /\ pc \in {"spawned", "reading", "exited"}
    \/ LeftAlone(i)

\* A registered child was started; the child main reads is registered, the
\* one it has only just started is not.
RegisteredStarted ==
  /\ \A i \in registered : child[i] # "none"
  /\ pc = "spawned" => child[step] # "none" /\ step \notin registered
  /\ pc = "reading" => step \in registered

\* Behind the current stage only the child of bugs is still registered.
RegisteredIsCurrent ==
  \A i \in registered :
    Stages[i] = "bugs" \/ (i = step /\ pc \in {"reading", "reaped", "exited"})

StrayEnds == stray # {} => pc = "exited"

SignalInv ==
  /\ LiveIsCurrent
  /\ RegisteredStarted
  /\ RegisteredIsCurrent
  /\ StrayEnds
  /\ SignalHitsItsChild

LEMMA SignalInit == Init => SignalInv
  BY DEF Init, SignalInv, LiveIsCurrent, RegisteredStarted,
     RegisteredIsCurrent, StrayEnds, SignalHitsItsChild

\* A stage function that returns has waited for its child or fails.
LEMMA ReturnKeepsSignals ==
  ASSUME StageInv, SignalInv, step \in Steps,
         verdict[step] = "none", pc # "exited",
         NEW ok \in BOOLEAN, Return(ok),
         pc \in {"spawned", "reading"} => ~ok,
         UNCHANGED <<child, reaped, stray>>,
         \A i \in registered' :
           child[i] # "none" /\ (Stages[i] = "bugs" \/ i \in registered),
         \A i \in registered' \cap registered :
           Stages[i] = "bugs" \/ i # step \/ pc \notin {"reading", "reaped"}
  PROVE  SignalInv'
<1>1. /\ verdict'[step] = IF ok THEN "ok" ELSE "failed"
      /\ \A i \in Steps : i # step => verdict'[i] = verdict[i]
      /\ pc' = "dispatch" \/ (pc' = "exited" /\ exit' = "errors")
  BY DEF Return, StageInv, TypeOK
<1>2. \A i \in Steps : child'[i] \in {"running", "terminated"} => LeftAlone(i)'
  BY <1>1 DEF SignalInv, LiveIsCurrent, LeftAlone, StageInv, TypeOK
<1>3. \A i \in registered' : child'[i] # "none" /\ Stages[i] = "bugs"
  BY DEF SignalInv, RegisteredIsCurrent
<1>4. stray = {}
  BY DEF SignalInv, StrayEnds
<1> QED
  BY <1>1, <1>2, <1>3, <1>4 DEF SignalInv, LiveIsCurrent, LeftAlone,
     RegisteredStarted, RegisteredIsCurrent, StrayEnds, SignalHitsItsChild

LEMMA SignalStep == StageInv /\ SignalInv /\ [Next]_vars => SignalInv'
<1> SUFFICES ASSUME StageInv, SignalInv, [Next]_vars PROVE SignalInv'
  OBVIOUS
<1> USE StepsFinite
<1>1. CASE Finish
  BY <1>1 DEF Finish, childVars, SignalInv, LiveIsCurrent, LeftAlone,
     RegisteredStarted, RegisteredIsCurrent, StrayEnds, SignalHitsItsChild
<1>2. CASE Analyze
  <2>1. PICK ok \in BOOLEAN : Return(ok)
    BY <1>2 DEF Analyze
  <2>2. verdict[step] = "none" /\ step \in Steps /\ pc = "dispatch"
    BY <1>2 DEF Analyze, StageInv, StageOrder
  <2>3. UNCHANGED <<child, reaped, stray, registered>>
    BY <1>2 DEF Analyze, childVars
  <2>4. \A i \in registered : child[i] # "none"
    BY DEF SignalInv, RegisteredStarted
  <2> QED
    BY <2>1, <2>2, <2>3, <2>4, ReturnKeepsSignals
<1>3. CASE StartChild
  <2>1. /\ step \in Steps /\ child[step] = "none" /\ pc = "dispatch"
        /\ child' = [child EXCEPT ![step] = "running"] /\ pc' = "spawned"
        /\ child \in [Steps -> ChildStates]
        /\ UNCHANGED <<step, verdict, reaped, registered, stray>>
    BY <1>3 DEF StartChild, StageInv, TypeOK, StageOrder, stageVars
  <2> QED
    BY <2>1 DEF SignalInv, LiveIsCurrent, LeftAlone, RegisteredStarted,
       RegisteredIsCurrent, StrayEnds, SignalHitsItsChild
<1>4. CASE StartChildFails
  <2>1. /\ verdict[step] = "none" /\ step \in Steps /\ pc = "dispatch"
        /\ Return(FALSE) /\ UNCHANGED <<child, reaped, stray, registered>>
    BY <1>4 DEF StartChildFails, StageInv, StageOrder, childVars
  <2>2. \A i \in registered : child[i] # "none"
    BY DEF SignalInv, RegisteredStarted
  <2> QED
    BY <2>1, <2>2, ReturnKeepsSignals
<1>5. CASE WatchChild
  <2>1. child[step] # "none"
    BY <1>5 DEF WatchChild, SignalInv, RegisteredStarted
  <2> QED
    BY <1>5, <2>1 DEF WatchChild, stageVars, StageInv, InChild, SignalInv,
       LiveIsCurrent, LeftAlone, RegisteredStarted, RegisteredIsCurrent,
       StrayEnds, SignalHitsItsChild
<1>6. CASE WaitChild
  <2>1. verdict[step] = "none"
    BY <1>6 DEF WaitChild, StageInv, InChild
  <2> QED
    BY <1>6, <2>1 DEF WaitChild, stageVars, SignalInv, LiveIsCurrent,
       LeftAlone, RegisteredStarted, RegisteredIsCurrent, StrayEnds,
       SignalHitsItsChild
<1>7. CASE Cleanup
  BY <1>7 DEF Cleanup, Unregister, Current, stageVars, SignalInv,
     LiveIsCurrent, LeftAlone, RegisteredStarted, RegisteredIsCurrent, StrayEnds, SignalHitsItsChild
<1>8. CASE Judge
  <2>1. /\ verdict[step] = "none" /\ step \in Steps /\ pc = "verdict"
        /\ UNCHANGED <<child, reaped, stray, registered>>
    BY <1>8 DEF Judge, StageInv, InChild, childVars
  <2>2. PICK ok \in BOOLEAN : Return(ok)
    BY <1>8 DEF Judge, ChildSucceeded
  <2>3. \A i \in registered : child[i] # "none"
    BY DEF SignalInv, RegisteredStarted
  <2> QED
    BY <2>1, <2>2, <2>3, ReturnKeepsSignals
<1>9. CASE SignalHandler
  <2>1. /\ pc # "exited" /\ pc' = "exited"
        /\ \A i \in Steps : child'[i] =
             IF i \in registered /\ child[i] = "running"
               THEN "terminated" ELSE child[i]
        /\ stray' = stray \cup (registered \cap reaped)
        /\ exit' = "signal" /\ UNCHANGED <<step, verdict, reaped, registered>>
    BY <1>9 DEF SignalHandler
  <2>2. registered \subseteq Steps
    BY DEF StageInv, TypeOK
  <2>3. LiveIsCurrent' /\ RegisteredStarted' /\ RegisteredIsCurrent' /\ StrayEnds'
    BY <2>1, <2>2 DEF SignalInv, LiveIsCurrent, LeftAlone, RegisteredStarted,
       RegisteredIsCurrent, StrayEnds
  <2>4. \A i \in Steps : child'[i] = "running" =>
          (i = step /\ i \notin registered) \/ LeftAlone(i)
    BY <2>1 DEF SignalInv, LiveIsCurrent
  <2>5. \A i \in stray' : Stages[i] = "bugs" \/ (i = step /\ verdict[i] = "none")
    BY <2>1 DEF SignalInv, StrayEnds, RegisteredIsCurrent, StageInv, InChild
  <2> QED
    BY <2>1, <2>3, <2>4, <2>5 DEF SignalInv, LeftAlone, SignalHitsItsChild
<1>10. ASSUME NEW i \in Steps, TimerExpires(i) PROVE SignalInv'
  BY <1>10 DEF TimerExpires, stageVars, childVars, SignalInv, LiveIsCurrent,
     LeftAlone, RegisteredStarted, RegisteredIsCurrent, StrayEnds, SignalHitsItsChild
<1>11. ASSUME NEW i \in Steps, NEW c \in {0, 1}, Kill(i) \/ ChildExits(i, c)
       PROVE  SignalInv'
  <2>1. /\ \A k \in Steps :
             /\ child'[k] \in {"running", "terminated"} =>
                  child[k] \in {"running", "terminated"}
             /\ child'[k] = "running" => child[k] = "running"
             /\ child[k] # "none" => child'[k] # "none"
        /\ UNCHANGED <<pc, step, verdict, exit, reaped, registered, stray>>
    BY <1>11 DEF Kill, ChildExits, stageVars, StageInv, TypeOK
  <2>2. registered \subseteq Steps /\ (pc = "spawned" => step \in Steps)
    BY DEF StageInv, TypeOK, InChild
  <2> QED
    BY <2>1, <2>2 DEF SignalInv, LiveIsCurrent, LeftAlone,
       RegisteredStarted, RegisteredIsCurrent, StrayEnds, SignalHitsItsChild
<1>12. CASE TimerFails \/ ReadFails
  <2>1. /\ verdict[step] = "none" /\ step \in Steps
        /\ pc \in {"spawned", "reading"} /\ child[step] # "none"
        /\ UNCHANGED <<child, reaped, stray>>
    BY <1>12 DEF TimerFails, ReadFails, StageInv, InChild, StageOrder,
       SignalInv, RegisteredStarted
  <2>2. \/ registered' = registered \cup {step} /\ pc = "spawned"
        \/ Unregister /\ pc = "reading"
    BY <1>12 DEF TimerFails, ReadFails
  <2>3. CASE Raise
    <3>1. pc' = "exited" /\ exit' = "raised" /\ UNCHANGED <<step, verdict>>
      BY <2>3 DEF Raise
    <3>2. stray = {}
      BY <2>1 DEF SignalInv, StrayEnds
    <3> QED
      BY <2>1, <2>2, <3>1, <3>2 DEF Unregister, Current, SignalInv,
         LiveIsCurrent, LeftAlone, RegisteredStarted, RegisteredIsCurrent,
         StrayEnds, SignalHitsItsChild
  <2>4. CASE Return(FALSE) /\ (pc = "spawned" => Current = "bugs")
    <3>1. /\ \A i \in registered' :
               child[i] # "none" /\ (Stages[i] = "bugs" \/ i \in registered)
          /\ \A i \in registered' \cap registered :
               Stages[i] = "bugs" \/ i # step \/ pc \notin {"reading", "reaped"}
      BY <2>1, <2>2, <2>4 DEF Unregister, Current, SignalInv, RegisteredStarted
    <3> QED
      BY <2>1, <2>4, <3>1, ReturnKeepsSignals
  <2> QED
    BY <1>12, <2>3, <2>4 DEF TimerFails, ReadFails
<1>13. CASE UNCHANGED vars
  BY <1>13 DEF vars, stageVars, childVars, SignalInv, LiveIsCurrent, LeftAlone,
     RegisteredStarted, RegisteredIsCurrent, StrayEnds, SignalHitsItsChild
<1> QED
  BY <1>1, <1>2, <1>3, <1>4, <1>5, <1>6, <1>7, <1>8, <1>9, <1>10, <1>11,
     <1>12, <1>13 DEF Next, MainStep, Terminated

\* A child left alive by the exit got SIGTERM unless the signal came between
\* Popen and _register_child or its stage failed without waiting for it, and a
\* reaped process group is signalled only for bugs or between wait() and the
\* finally block.
THEOREM SignalHitsItsChildHolds == Spec => []SignalHitsItsChild
<1>1. Spec => [](StageInv /\ SignalInv)
  BY StageInit, StageStep, SignalInit, SignalStep, PTL DEF Spec
<1>2. SignalInv => SignalHitsItsChild
  BY DEF SignalInv
<1> QED
  BY <1>1, <1>2, PTL
=============================================================================
