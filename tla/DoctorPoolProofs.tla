-------------------------- MODULE DoctorPoolProofs --------------------------
(***************************************************************************)
(* Proofs about the analyze stage, for every number of jobs, workers and   *)
(* signals: type correctness, that no claude session outlives the process  *)
(* (NoOrphans), that the signal handler misses a session only in the       *)
(* window between Popen and _register_child, that what is reported as      *)
(* reused was acquired, and that the pool implements JobBatch.             *)
(***************************************************************************)
EXTENDS DoctorPool, FiniteSetTheorems, TLAPS

USE PoolAssumption

\* main still has a job to submit while it is in the submit loop, and no
\* job is queued before that loop.
SubmitRoom ==
  /\ mpc \in {"clear", "acquire"} => submitted = 0
  /\ mpc = "submit" => submitted < NJobs

\* A worker has a job exactly while it is not idle.
BusyHasJob == \A w \in Workers : wpc[w] # "idle" <=> wjob[w] \in Jobs

TypeInv == TypeOK /\ SubmitRoom /\ BusyHasJob

LEMMA TypeInit == Init => TypeInv
  BY DEF Init, TypeInv, TypeOK, SubmitRoom, BusyHasJob, Jobs, Workers, MainStates,
         WorkerStates, ChildStates, ReportStates

LEMMA TypeStep == TypeInv /\ [Next]_vars => TypeInv'
<1> SUFFICES ASSUME TypeInv, [Next]_vars PROVE TypeInv'
  OBVIOUS
<1> USE DEF TypeInv, TypeOK, SubmitRoom, BusyHasJob, Jobs, Workers, MainStates,
            WorkerStates, ChildStates, ReportStates, mainVars, workerVars,
            fileVars
<1>1. ASSUME NEW j \in Jobs, ClearTarget(j) PROVE TypeInv'
  BY <1>1 DEF ClearTarget
<1>2. CASE EndClear
  BY <1>2 DEF EndClear, AfterClear
<1>3. ASSUME NEW j \in Jobs, AcquirePredecessor(j) PROVE TypeInv'
  BY <1>3 DEF AcquirePredecessor, MaterializeReport
<1>4. CASE EndAcquire
  BY <1>4 DEF EndAcquire
<1>5. CASE Submit
  BY <1>5 DEF Submit
<1>6. ASSUME NEW j \in Jobs, Collect(j) PROVE TypeInv'
  BY <1>6 DEF Collect
<1>7. CASE Complete
  BY <1>7 DEF Complete
<1>8. CASE JoinWorkers
  BY <1>8 DEF JoinWorkers
<1>9. CASE SignalHandler
  BY <1>9 DEF SignalHandler
<1>10. ASSUME NEW w \in Workers, WorkerStep(w) PROVE TypeInv'
  <2> USE DEF Goto, Settle
  <2>1. CASE TakeJob(w)
    BY <2>1 DEF TakeJob
  <2>2. CASE ReuseReport(w)
    <3>1. wpc[w] = "check" /\ wjob[w] \in Jobs
      BY <2>2 DEF ReuseReport
    <3>2. reused' \subseteq Jobs
      BY <2>2, <3>1 DEF ReuseReport
    <3> QED
      BY <2>2, <3>1, <3>2 DEF ReuseReport
  <2>3. CASE StartSession(w)
    BY <2>3 DEF StartSession
  <2>4. CASE StartFails(w)
    BY <2>4 DEF StartFails
  <2>5. CASE RegisterChild(w)
    BY <2>5 DEF RegisterChild
  <2>6. CASE WaitReturns(w)
    BY <2>6 DEF WaitReturns
  <2>7. CASE SessionTimeout(w)
    BY <2>7 DEF SessionTimeout
  <2>8. CASE UnregisterChild(w)
    BY <2>8 DEF UnregisterChild
  <2>9. CASE SaveReport(w)
    BY <2>9 DEF SaveReport
  <2>10. CASE NothingToSave(w)
    BY <2>10 DEF NothingToSave
  <2>11. CASE SaveFails(w)
    BY <2>11 DEF SaveFails
  <2> QED
    BY <1>10, <2>1, <2>2, <2>3, <2>4, <2>5, <2>6, <2>7, <2>8, <2>9, <2>10,
       <2>11 DEF WorkerStep
<1>11. ASSUME NEW j \in Jobs, SessionEnds(j) \/ SessionObeysSigterm(j)
       PROVE TypeInv'
  BY <1>11 DEF SessionEnds, SessionObeysSigterm
<1>12. CASE UNCHANGED vars
  BY <1>12 DEF vars
<1> QED
  BY <1>1, <1>2, <1>3, <1>4, <1>5, <1>6, <1>7, <1>8, <1>9, <1>10, <1>11,
     <1>12 DEF Next, MainStep, Terminated

\* Type correctness of the analyze stage.
THEOREM TypeCorrect == Spec => []TypeOK
<1>1. TypeInv => TypeOK
  BY DEF TypeInv
<1> QED
  BY <1>1, TypeInit, TypeStep, PTL DEF Spec
(***************************************************************************)
(* The session invariant: no two workers share a job, a live session is    *)
(* owned by a worker that waits for it, what is waited for is registered,  *)
(* and the process only exits early after its third signal.                *)
(***************************************************************************)
WorkersApart ==
  \A w, v \in Workers : w # v /\ wjob[w] \in Jobs => wjob[w] # wjob[v]

JobsTaken == \A w \in Workers : wjob[w] <= taken

AliveOwned ==
  \A j \in Jobs : Alive(j) =>
    \E w \in Workers :
      wjob[w] = j /\ wpc[w] \in {"spawned", "waiting", "reaping"}

WaitingRegistered ==
  \A w \in Workers :
    wpc[w] \in {"waiting", "reaping"} => wjob[w] \in registered

ExitOrder ==
  /\ mpc = "join" => signals >= 1
  /\ mpc = "atexit" => signals >= 2
  /\ mpc = "exited" /\ signals < 3 => \A w \in Workers : wpc[w] = "idle"

SessionInv ==
  WorkersApart /\ JobsTaken /\ AliveOwned /\ WaitingRegistered /\ ExitOrder

LEMMA SessionInit == Init => SessionInv
  BY DEF Init, SessionInv, WorkersApart, JobsTaken, AliveOwned, Alive,
         WaitingRegistered, ExitOrder, Jobs, Workers

\* Steps of the main thread that are not a signal touch no worker.
LEMMA MainKeepsSessions == TypeInv /\ SessionInv /\ MainStep => SessionInv'
<1> SUFFICES ASSUME TypeInv, SessionInv, MainStep PROVE SessionInv'
  OBVIOUS
<1>1. UNCHANGED <<workerVars, child, signals>>
  BY DEF MainStep, ClearTarget, EndClear, AfterClear, AcquirePredecessor,
         MaterializeReport, EndAcquire, Submit, Collect, Complete,
         JoinWorkers, mainVars, fileVars
<1>2. WorkersApart' /\ JobsTaken' /\ AliveOwned' /\ WaitingRegistered'
  BY <1>1 DEF SessionInv, WorkersApart, JobsTaken, AliveOwned, Alive,
              WaitingRegistered, workerVars
<1>3. ExitOrder'
  BY <1>1 DEF MainStep, ClearTarget, EndClear, AfterClear, AcquirePredecessor,
              MaterializeReport, EndAcquire, Submit, Collect, Complete,
              JoinWorkers, Drained, SessionInv, ExitOrder, mainVars,
              workerVars, fileVars
<1> QED
  BY <1>2, <1>3 DEF SessionInv

LEMMA SignalKeepsSessions ==
  TypeInv /\ SessionInv /\ SignalHandler => SessionInv'
<1> SUFFICES ASSUME TypeInv, SessionInv, SignalHandler PROVE SessionInv'
  OBVIOUS
<1>1. UNCHANGED workerVars /\ \A j \in Jobs : Alive(j)' => Alive(j)
  BY DEF SignalHandler, Alive, TypeInv, TypeOK
<1>2. WorkersApart' /\ JobsTaken' /\ AliveOwned' /\ WaitingRegistered'
  BY <1>1 DEF SessionInv, WorkersApart, JobsTaken, AliveOwned,
              WaitingRegistered, workerVars
<1>3. ExitOrder'
  <2>1. CASE mpc \in {"clear", "acquire"}
    <3>1. taken = 0
      BY <2>1 DEF TypeInv, TypeOK, SubmitRoom
    <3>2. \A w \in Workers : wpc[w] = "idle"
      BY <3>1 DEF SessionInv, JobsTaken, TypeInv, TypeOK, BusyHasJob, Jobs
    <3> QED
      BY <1>1, <2>1, <3>2 DEF SignalHandler, ExitOrder, workerVars
  <2>2. CASE mpc \in {"submit", "await", "join", "atexit"}
    BY <1>1, <2>2 DEF SignalHandler, SessionInv, ExitOrder, TypeInv, TypeOK
  <2> QED
    BY <2>1, <2>2 DEF SignalHandler, MainStates
<1> QED
  BY <1>2, <1>3 DEF SessionInv

LEMMA WorkerKeepsSessions ==
  ASSUME TypeInv, SessionInv, NEW w \in Workers, WorkerStep(w)
  PROVE  SessionInv'
<1> USE DEF TypeInv, TypeOK, BusyHasJob, SessionInv, Goto, Settle,
            Interpreting
<1>1. ExitOrder'
  BY DEF WorkerStep, TakeJob, ReuseReport, StartSession, StartFails,
         RegisterChild, WaitReturns, SessionTimeout, UnregisterChild,
         SaveReport, NothingToSave, SaveFails, ExitOrder, mainVars
<1>2. CASE TakeJob(w)
  <2>1. /\ taken' = taken + 1 /\ wjob' = [wjob EXCEPT ![w] = taken + 1]
        /\ wpc' = [wpc EXCEPT ![w] = "check"] /\ wpc[w] = "idle"
        /\ UNCHANGED <<registered, child>>
    BY <1>2 DEF TakeJob
  <2>2. JobsTaken'
    BY <2>1 DEF JobsTaken
  <2>3. WorkersApart'
    BY <2>1 DEF WorkersApart, JobsTaken, Jobs
  <2>4. AliveOwned' /\ WaitingRegistered'
    BY <2>1 DEF AliveOwned, Alive, WaitingRegistered
  <2> QED
    BY <1>1, <2>2, <2>3, <2>4
<1>3. ASSUME NEW from \in {"check", "save"}, NEW r, Settle(w, from, r)
      PROVE  SessionInv'
  <2>1. /\ wjob' = [wjob EXCEPT ![w] = 0]
        /\ wpc' = [wpc EXCEPT ![w] = "idle"] /\ wpc[w] = from
        /\ UNCHANGED <<taken, registered, child>>
    BY <1>3
  <2>2. JobsTaken' /\ WorkersApart'
    BY <2>1 DEF JobsTaken, WorkersApart, Jobs
  <2>3. AliveOwned' /\ WaitingRegistered'
    BY <2>1 DEF AliveOwned, Alive, WaitingRegistered
  <2> QED
    BY <1>1, <2>2, <2>3
<1>4. ASSUME NEW from \in WorkerStates, NEW to \in WorkerStates,
             Goto(w, from, to), UNCHANGED <<taken, wjob>>,
             \A j \in Jobs : Alive(j)' =>
               Alive(j) \/ (j = wjob[w] /\ to = "spawned"),
             from \in {"spawned", "waiting", "reaping"} =>
               \/ to \in {"spawned", "waiting", "reaping"}
               \/ ~Alive(wjob[w])',
             registered \ {wjob[w]} \subseteq registered',
             to \in {"waiting", "reaping"} => wjob[w] \in registered'
      PROVE  SessionInv'
  <2>1. JobsTaken' /\ WorkersApart'
    BY <1>4 DEF JobsTaken, WorkersApart
  <2>2. AliveOwned'
    <3> SUFFICES ASSUME NEW j \in Jobs, Alive(j)'
                 PROVE  \E v \in Workers : wjob'[v] = j /\
                          wpc'[v] \in {"spawned", "waiting", "reaping"}
      BY DEF AliveOwned
    <3>1. CASE j = wjob[w] /\ to = "spawned"
      BY <1>4, <3>1
    <3>2. CASE Alive(j)
      <4>1. PICK v \in Workers :
              wjob[v] = j /\ wpc[v] \in {"spawned", "waiting", "reaping"}
        BY <3>2 DEF AliveOwned
      <4>2. CASE v = w
        BY <1>4, <4>1, <4>2
      <4>3. CASE v # w
        BY <1>4, <4>1, <4>3
      <4> QED
        BY <4>2, <4>3
    <3> QED
      BY <1>4, <3>1, <3>2
  <2>3. WaitingRegistered'
    <3> SUFFICES ASSUME NEW v \in Workers,
                        wpc'[v] \in {"waiting", "reaping"}
                 PROVE  wjob'[v] \in registered'
      BY DEF WaitingRegistered
    <3>1. CASE v = w
      BY <1>4, <3>1
    <3>2. CASE v # w
      BY <1>4, <3>2 DEF WaitingRegistered, WorkersApart
    <3> QED
      BY <3>1, <3>2
  <2> QED
    BY <1>1, <2>1, <2>2, <2>3
<1>5. CASE ReuseReport(w) \/ StartFails(w)
  BY <1>3, <1>5 DEF ReuseReport, StartFails
<1>6. CASE SaveReport(w) \/ NothingToSave(w) \/ SaveFails(w)
  BY <1>3, <1>6 DEF SaveReport, NothingToSave, SaveFails
<1>7. CASE StartSession(w)
  BY <1>4, <1>7 DEF StartSession, Alive, WorkerStates
<1>8. CASE RegisterChild(w)
  BY <1>4, <1>8 DEF RegisterChild, Alive, WorkerStates
<1>9. CASE WaitReturns(w)
  BY <1>4, <1>9 DEF WaitReturns, Alive, WorkerStates
<1>10. CASE SessionTimeout(w)
  <2>1. wjob[w] \in registered
    BY <1>10 DEF SessionTimeout, WaitingRegistered
  <2> QED
    BY <1>4, <1>10, <2>1 DEF SessionTimeout, Alive, WorkerStates
<1>11. CASE UnregisterChild(w)
  BY <1>4, <1>11 DEF UnregisterChild, Alive, WorkerStates
<1> QED
  BY <1>2, <1>5, <1>6, <1>7, <1>8, <1>9, <1>10, <1>11 DEF WorkerStep

LEMMA SessionStep == TypeInv /\ SessionInv /\ [Next]_vars => SessionInv'
<1> SUFFICES ASSUME TypeInv, SessionInv, [Next]_vars PROVE SessionInv'
  OBVIOUS
<1>1. ASSUME NEW j \in Jobs, SessionEnds(j) \/ SessionObeysSigterm(j)
      PROVE  SessionInv'
  <2>1. /\ UNCHANGED <<mainVars, workerVars>>
        /\ \A i \in Jobs : Alive(i)' => Alive(i)
    BY <1>1 DEF SessionEnds, SessionObeysSigterm, Alive, TypeInv, TypeOK
  <2> QED
    BY <2>1 DEF SessionInv, WorkersApart, JobsTaken, AliveOwned,
                WaitingRegistered, ExitOrder, mainVars, workerVars
<1>2. CASE UNCHANGED vars
  BY <1>2 DEF vars, mainVars, workerVars, SessionInv, WorkersApart,
              JobsTaken, AliveOwned, Alive, WaitingRegistered, ExitOrder
<1> QED
  BY <1>1, <1>2, MainKeepsSessions, SignalKeepsSessions, WorkerKeepsSessions
  DEF Next, Terminated

LEMMA SessionInvariant == Spec => [](TypeInv /\ SessionInv)
  BY TypeInit, TypeStep, SessionInit, SessionStep, PTL DEF Spec

\* No claude session is alive when the process exits on its first or second
\* signal.
THEOREM NoOrphansHolds == Spec => []NoOrphans
<1>1. TypeInv /\ SessionInv => NoOrphans
  BY DEF TypeInv, TypeOK, SessionInv, AliveOwned, ExitOrder, NoOrphans
<1> QED
  BY <1>1, SessionInvariant, PTL

\* A session the signal handler leaves running is in the window between
\* Popen and _register_child.
THEOREM HandlerMisses == Spec => HandlerMissesOnlyUnregistered
<1> DEFINE Missed(j) == \E w \in Workers : wjob[w] = j /\ wpc[w] = "spawned"
           Misses == signals' # signals =>
                       \A j \in Jobs : child'[j] = "running" => Missed(j)
<1>1. TypeInv /\ SessionInv /\ [Next]_vars => [Misses]_vars
  <2> SUFFICES ASSUME TypeInv, SessionInv, [Next]_vars, signals' # signals,
                      NEW j \in Jobs, child'[j] = "running"
               PROVE  Missed(j)
    OBVIOUS
  <2>1. SignalHandler
    BY DEF Next, MainStep, ClearTarget, EndClear, AfterClear, AcquirePredecessor,
           EndAcquire, Submit, Collect, Complete, JoinWorkers, WorkerStep,
           Goto, Settle, TakeJob, ReuseReport, StartSession, StartFails,
           RegisterChild, WaitReturns, SessionTimeout, UnregisterChild,
           SaveReport, NothingToSave, SaveFails, SessionEnds,
           SessionObeysSigterm, Terminated, vars, mainVars
  <2>2. child[j] = "running" /\ j \notin registered
    BY <2>1 DEF SignalHandler, TypeInv, TypeOK
  <2> QED
    BY <2>2 DEF SessionInv, AliveOwned, Alive, WaitingRegistered
<1> QED
  BY <1>1, SessionInvariant, PTL DEF Spec, HandlerMissesOnlyUnregistered
(***************************************************************************)
(* The decision invariant: when a job's result is decided, and which       *)
(* reports the work directory can hold by then.  A worker's job and a job  *)
(* still queued are undecided, so a job is decided once; nothing is queued *)
(* before the old reports are cleared; an old file survives only with a    *)
(* message, a predecessor's only in "acquired", and a fresh report or a    *)
(* reuse belongs to a decided job, which no later step touches.            *)
(***************************************************************************)
WorkerJobPending ==
  \A w \in Workers : wjob[w] \in Jobs => outcome[wjob[w]] = "pending"

QueuedPending == \A j \in Jobs : j > taken => outcome[j] = "pending"

CollectedDecided == \A j \in collected : outcome[j] # "pending"

DoneDrained == mpc = "done" => Drained

ClearedFirst == mpc \notin {"clear", "exited"} => uncleared = {}

StaleWarned ==
  \A j \in Jobs : report[j] = "stale" => j \in uncleared \cup warned

PredecessorAcquired ==
  \A j \in Jobs : report[j] = "predecessor" => j \in acquired

FreshDecided == \A j \in Jobs : report[j] = "fresh" => outcome[j] # "pending"

ReusedDecided == \A j \in reused : outcome[j] # "pending"

DecisionInv ==
  /\ WorkerJobPending
  /\ QueuedPending
  /\ CollectedDecided
  /\ DoneDrained
  /\ ClearedFirst
  /\ StaleWarned
  /\ PredecessorAcquired
  /\ FreshDecided
  /\ ReusedDecided
  /\ ReuseIsAcquired

LEMMA DecisionInit == Init => DecisionInv
  BY DEF Init, DecisionInv, WorkerJobPending, QueuedPending,
         CollectedDecided, DoneDrained, ClearedFirst, StaleWarned,
         PredecessorAcquired, FreshDecided, ReusedDecided, ReuseIsAcquired,
         Jobs

\* Before the submit loop every worker is idle and every job undecided.
LEMMA NothingDecidedYet ==
  ASSUME TypeInv, SessionInv, DecisionInv, mpc \in {"clear", "acquire"}
  PROVE  /\ taken = 0
         /\ \A w \in Workers : wpc[w] = "idle"
         /\ \A j \in Jobs : outcome[j] = "pending"
         /\ reused = {}
<1>1. taken = 0
  BY DEF TypeInv, TypeOK, SubmitRoom
<1>2. \A w \in Workers : wpc[w] = "idle"
  BY <1>1 DEF SessionInv, JobsTaken, TypeInv, TypeOK, BusyHasJob, Jobs
<1>3. \A j \in Jobs : outcome[j] = "pending"
  BY <1>1 DEF DecisionInv, QueuedPending, Jobs
<1>4. reused = {}
  BY <1>3 DEF DecisionInv, ReusedDecided, TypeInv, TypeOK
<1> QED
  BY <1>1, <1>2, <1>3, <1>4

LEMMA MainKeepsDecisions ==
  ASSUME TypeInv, SessionInv, DecisionInv, MainStep
  PROVE  DecisionInv'
<1>1. UNCHANGED <<taken, wpc, wjob, outcome, reused>>
  BY DEF MainStep, ClearTarget, EndClear, AfterClear, AcquirePredecessor,
         MaterializeReport, EndAcquire, Submit, Collect, Complete,
         JoinWorkers, mainVars, workerVars, fileVars
<1>2. WorkerJobPending' /\ QueuedPending' /\ ReusedDecided'
  BY <1>1 DEF DecisionInv, WorkerJobPending, QueuedPending, ReusedDecided
<1>3. CollectedDecided' /\ DoneDrained' /\ ClearedFirst'
  BY <1>1 DEF MainStep, ClearTarget, EndClear, AfterClear, AcquirePredecessor,
         EndAcquire, Submit, Collect, Complete, JoinWorkers, Drained,
         mainVars, DecisionInv, CollectedDecided, DoneDrained, ClearedFirst
<1>4. StaleWarned' /\ PredecessorAcquired' /\ FreshDecided'
      /\ ReuseIsAcquired'
  <2>1. ASSUME NEW j \in Jobs, ClearTarget(j)
        PROVE  StaleWarned' /\ PredecessorAcquired' /\ FreshDecided'
    BY <1>1, <2>1 DEF ClearTarget, DecisionInv, StaleWarned,
           PredecessorAcquired, FreshDecided, TypeInv, TypeOK
  <2>2. ASSUME NEW j \in Jobs, AcquirePredecessor(j)
        PROVE  StaleWarned' /\ PredecessorAcquired' /\ FreshDecided'
    BY <1>1, <2>2 DEF AcquirePredecessor, MaterializeReport, DecisionInv,
           StaleWarned, PredecessorAcquired, FreshDecided, TypeInv, TypeOK
  <2>3. ASSUME NEW j \in Jobs, ClearTarget(j) \/ AcquirePredecessor(j)
        PROVE  ReuseIsAcquired'
    <3>1. mpc \in {"clear", "acquire"}
      BY <2>3 DEF ClearTarget, AcquirePredecessor
    <3> QED
      BY <1>1, <3>1, NothingDecidedYet DEF ReuseIsAcquired
  <2>4. CASE UNCHANGED <<fileVars, uncleared>>
    BY <1>1, <2>4 DEF fileVars, DecisionInv, StaleWarned,
           PredecessorAcquired, FreshDecided, ReuseIsAcquired
  <2> QED
    BY <2>1, <2>2, <2>3, <2>4 DEF MainStep, EndClear, AfterClear, EndAcquire, Submit,
           Collect, Complete, JoinWorkers
<1> QED
  BY <1>2, <1>3, <1>4 DEF DecisionInv

\* What the steps of a worker do to the decisions: they leave them alone, or
\* they decide the worker's own, undecided job.
LEMMA WorkerKeepsDecisions ==
  ASSUME TypeInv, SessionInv, DecisionInv, NEW w \in Workers, WorkerStep(w)
  PROVE  DecisionInv'
<1> USE DEF TypeInv, TypeOK, BusyHasJob, DecisionInv, Goto, Interpreting
<1>1. UNCHANGED <<mpc, uncleared, collected, submitted, warned, acquired>>
  BY DEF WorkerStep, TakeJob, ReuseReport, StartSession, StartFails,
         RegisterChild, WaitReturns, SessionTimeout, UnregisterChild,
         SaveReport, NothingToSave, SaveFails, Settle, mainVars, fileVars
<1>2. DoneDrained'
  <2> SUFFICES ASSUME mpc = "done" PROVE FALSE
    BY <1>1 DEF DoneDrained
  <2>1. taken = submitted /\ wpc[w] = "idle"
    BY DEF DoneDrained, Drained
  <2> QED
    BY <2>1 DEF WorkerStep, TakeJob, ReuseReport, StartSession, StartFails,
           RegisterChild, WaitReturns, SessionTimeout, UnregisterChild,
           SaveReport, NothingToSave, SaveFails, Settle
<1>3. ClearedFirst'
  BY <1>1 DEF ClearedFirst
<1>4. CASE TakeJob(w)
  <2>1. /\ taken' = taken + 1 /\ wjob' = [wjob EXCEPT ![w] = taken + 1]
        /\ taken + 1 \in Jobs
        /\ UNCHANGED <<outcome, reused, report>>
    BY <1>4 DEF TakeJob, fileVars, Jobs
  <2>2. WorkerJobPending' /\ QueuedPending'
    BY <2>1 DEF WorkerJobPending, QueuedPending, Jobs
  <2> QED
    BY <1>1, <1>2, <1>3, <2>1, <2>2 DEF CollectedDecided, StaleWarned,
           PredecessorAcquired, FreshDecided, ReusedDecided, ReuseIsAcquired
<1>5. ASSUME UNCHANGED <<taken, wjob, outcome, reused, report>>
      PROVE  DecisionInv'
  BY <1>1, <1>2, <1>3, <1>5 DEF WorkerJobPending, QueuedPending,
     CollectedDecided, StaleWarned, PredecessorAcquired, FreshDecided,
     ReusedDecided, ReuseIsAcquired
<1>6. ASSUME NEW from \in {"check", "save"}, NEW r \in {"ok", "failed"},
             Settle(w, from, r),
             \/ report' = report /\ reused' = reused
             \/ /\ report' = report /\ report[wjob[w]] # "none"
                /\ reused' = reused \cup {wjob[w]}
             \/ /\ report' = [report EXCEPT ![wjob[w]] = "fresh"]
                /\ reused' = reused
             \/ /\ report' = [report EXCEPT ![wjob[w]] = "truncated"]
                /\ reused' = reused
      PROVE  DecisionInv'
  <2> DEFINE j == wjob[w]
  <2>1. /\ j \in Jobs /\ outcome[j] = "pending" /\ j <= taken
        /\ wjob' = [wjob EXCEPT ![w] = 0] /\ taken' = taken
        /\ outcome' = [outcome EXCEPT ![j] = r]
    BY <1>6 DEF Settle, WorkerJobPending, SessionInv, JobsTaken
  <2>2. j \notin reused /\ report[j] # "fresh"
    BY <2>1 DEF ReusedDecided, FreshDecided
  <2>3. uncleared = {}
    <3>1. mpc \notin {"clear", "acquire"}
      BY <2>1 DEF SubmitRoom, Jobs
    <3> QED
      BY <3>1, <1>6 DEF ClearedFirst, Settle
  <2>4. WorkerJobPending'
    BY <2>1 DEF WorkerJobPending, SessionInv, WorkersApart, Jobs
  <2>5. QueuedPending'
    BY <2>1 DEF QueuedPending, Jobs
  <2>6. CollectedDecided'
    BY <1>1, <2>1 DEF CollectedDecided
  <2>7. StaleWarned' /\ PredecessorAcquired'
    BY <1>1, <1>6, <2>1 DEF StaleWarned, PredecessorAcquired
  <2>8. FreshDecided' /\ ReusedDecided'
    BY <1>6, <2>1 DEF FreshDecided, ReusedDecided
  <2>9. ReuseIsAcquired'
    <3>1. report[j] = "stale" => j \in warned
      BY <2>1, <2>3 DEF StaleWarned
    <3>2. report[j] = "predecessor" => j \in acquired
      BY <2>1 DEF PredecessorAcquired
    <3> QED
      BY <1>1, <1>6, <2>1, <2>2, <3>1, <3>2 DEF ReuseIsAcquired, ReportStates
  <2> QED
    BY <1>2, <1>3, <2>4, <2>5, <2>6, <2>7, <2>8, <2>9
<1>7. CASE ReuseReport(w)
  BY <1>6, <1>7 DEF ReuseReport
<1>8. CASE StartFails(w) \/ SaveReport(w) \/ NothingToSave(w) \/ SaveFails(w)
  BY <1>6, <1>8 DEF StartFails, SaveReport, NothingToSave, SaveFails
<1>9. CASE \/ StartSession(w) \/ RegisterChild(w) \/ WaitReturns(w)
           \/ SessionTimeout(w) \/ UnregisterChild(w)
  BY <1>5, <1>9 DEF StartSession, RegisterChild, WaitReturns,
     SessionTimeout, UnregisterChild, fileVars
<1> QED
  BY <1>4, <1>7, <1>8, <1>9 DEF WorkerStep

LEMMA DecisionStep ==
  TypeInv /\ SessionInv /\ DecisionInv /\ [Next]_vars => DecisionInv'
<1> SUFFICES ASSUME TypeInv, SessionInv, DecisionInv, [Next]_vars
             PROVE  DecisionInv'
  OBVIOUS
<1>1. CASE SignalHandler
  <2>1. /\ UNCHANGED <<uncleared, collected, submitted, workerVars, fileVars>>
        /\ mpc' \in {"exited", "join", "atexit"}
        /\ mpc = "clear" => mpc' = "exited"
    BY <1>1 DEF SignalHandler, MainStates
  <2> QED
    BY <2>1, <1>1 DEF SignalHandler, MainStates, workerVars, fileVars,
       DecisionInv, WorkerJobPending, QueuedPending, CollectedDecided,
       DoneDrained, ClearedFirst, StaleWarned, PredecessorAcquired,
       FreshDecided, ReusedDecided, ReuseIsAcquired
<1>2. ASSUME UNCHANGED <<mainVars, workerVars, fileVars>> PROVE DecisionInv'
  BY <1>2 DEF mainVars, workerVars, fileVars, DecisionInv,
     WorkerJobPending, QueuedPending, CollectedDecided, DoneDrained, Drained,
     ClearedFirst, StaleWarned, PredecessorAcquired, FreshDecided,
     ReusedDecided, ReuseIsAcquired
<1>3. ASSUME NEW j \in Jobs, SessionEnds(j) \/ SessionObeysSigterm(j)
      PROVE  DecisionInv'
  BY <1>2, <1>3 DEF SessionEnds, SessionObeysSigterm
<1>4. CASE UNCHANGED vars
  BY <1>2, <1>4 DEF vars
<1> QED
  BY <1>1, <1>3, <1>4, MainKeepsDecisions, WorkerKeepsDecisions
  DEF Next, Terminated

LEMMA DecisionInvariant == Spec => [](TypeInv /\ SessionInv /\ DecisionInv)
  BY TypeInit, TypeStep, SessionInit, SessionStep, DecisionInit, DecisionStep,
     PTL DEF Spec

\* A job reported as [REUSE] was materialized from the predecessor, or the
\* diagnostics name its stale file, or its file was torn by the copy.
THEOREM ReuseHolds == Spec => []ReuseIsAcquired
<1>1. DecisionInv => ReuseIsAcquired
  BY DEF DecisionInv
<1> QED
  BY <1>1, DecisionInvariant, PTL
(***************************************************************************)
(* The analyze stage implements JobBatch.  Its live sessions are the alive *)
(* process groups, its stage and results are read off mpc and outcome, and *)
(* each step below maps to a step of JobBatch or to a stutter.             *)
(***************************************************************************)
Live == {j \in Jobs : Alive(j)}

Stage == CASE mpc = "done"   -> "complete"
           [] mpc = "exited" -> "aborted"
           [] OTHER          -> "open"

LEMMA StageValue ==
  /\ mpc = "done" => Stage = "complete"
  /\ mpc = "exited" => Stage = "aborted"
  /\ mpc \notin {"done", "exited"} => Stage = "open"
  BY Zenon DEF Stage

\* A worker that holds no live session leaves one of the MaxParallel slots
\* free: the live sessions map one to one to the other workers.
LEMMA SlotFree ==
  ASSUME TypeInv, SessionInv, NEW w \in Workers,
         wpc[w] \notin {"spawned", "waiting", "reaping"}
  PROVE  Cardinality(Live) < MaxParallel
<1> DEFINE Holds(v, j) ==
             wjob[v] = j /\ wpc[v] \in {"spawned", "waiting", "reaping"}
           Others == Workers \ {w}
           holder == [j \in Live |-> CHOOSE v \in Workers : Holds(v, j)]
<1>1. \A j \in Live : holder[j] \in Others /\ wjob[holder[j]] = j
  <2> SUFFICES ASSUME NEW j \in Live
               PROVE  holder[j] \in Others /\ wjob[holder[j]] = j
    OBVIOUS
  <2>1. \E v \in Workers : Holds(v, j)
    BY DEF Live, SessionInv, AliveOwned
  <2>2. holder[j] \in Workers /\ Holds(holder[j], j)
    BY <2>1
  <2> QED
    BY <2>2
<1>2. holder \in Injection(Live, Others)
  BY <1>1 DEF Injection, IsInjective
<1>3. IsFiniteSet(Workers) /\ Cardinality(Workers) = MaxParallel
  BY FS_Interval DEF Workers
<1>4. IsFiniteSet(Others) /\ Cardinality(Others) = MaxParallel - 1
  BY <1>3, FS_RemoveElement
<1>5. IsFiniteSet(Live) /\ Cardinality(Live) <= Cardinality(Others)
  BY <1>2, <1>4, FS_Injection
<1>6. Cardinality(Live) \in Nat
  BY <1>5, FS_CardinalityType
<1> QED
  BY <1>4, <1>5, <1>6

\* A worker that is not in a session has none alive for its job.
LEMMA OwnSessionOver ==
  ASSUME TypeInv, SessionInv, NEW w \in Workers, wjob[w] \in Jobs,
         wpc[w] \notin {"spawned", "waiting", "reaping"}
  PROVE  wjob[w] \notin Live
  BY DEF Live, SessionInv, AliveOwned, WorkersApart

BatchVars == <<Stage, Live, outcome>>

LEMMA MainImplementsBatch ==
  ASSUME TypeInv, SessionInv, DecisionInv, MainStep
  PROVE  Batch!Next \/ UNCHANGED BatchVars
<1>1. UNCHANGED <<outcome, child, wjob, wpc>> /\ UNCHANGED Live
  BY DEF MainStep, ClearTarget, EndClear, AfterClear, AcquirePredecessor,
         MaterializeReport, EndAcquire, Submit, Collect, Complete,
         JoinWorkers, workerVars, Live, Alive
<1>2. CASE Complete
  <2>1. Live = {}
    BY <1>2 DEF Complete, Drained, Live, SessionInv, AliveOwned
  <2>2. \A j \in Jobs : outcome[j] # "pending"
    BY <1>2 DEF Complete, DecisionInv, CollectedDecided
  <2>3. Stage = "open" /\ Stage' = "complete"
    BY <1>2, StageValue DEF Complete, Stage
  <2>4. Batch!Complete
    BY <1>1, <2>1, <2>2, <2>3 DEF Batch!Complete, Stage, Live
  <2> QED
    BY <2>4 DEF Batch!Next
<1>3. CASE JoinWorkers
  <2>1. Stage = "open" /\ Stage' = "aborted"
    BY <1>3, StageValue DEF JoinWorkers, Stage
  <2>2. Batch!Abort
    BY <1>1, <2>1 DEF Batch!Abort, Stage, Live
  <2> QED
    BY <2>2 DEF Batch!Next
<1>4. ASSUME mpc \notin {"done", "exited"}, mpc' \notin {"done", "exited"}
      PROVE  UNCHANGED BatchVars
  <2>1. Stage = "open" /\ Stage' = "open"
    BY <1>4 DEF Stage
  <2> QED
    BY <1>1, <2>1 DEF BatchVars
<1>5. ASSUME NEW j \in Jobs,
             ClearTarget(j) \/ AcquirePredecessor(j) \/ Collect(j)
      PROVE  UNCHANGED BatchVars
  BY <1>4, <1>5 DEF ClearTarget, AcquirePredecessor, Collect
<1>6. CASE EndClear \/ EndAcquire \/ Submit
  BY <1>4, <1>6 DEF EndClear, AfterClear, EndAcquire, Submit
<1> QED
  BY <1>2, <1>3, <1>5, <1>6 DEF MainStep

LEMMA SignalImplementsBatch ==
  ASSUME TypeInv, SignalHandler
  PROVE  Batch!Next \/ UNCHANGED BatchVars
<1>1. outcome' = outcome
  BY DEF SignalHandler, workerVars
<1>2. Live' = Live
  BY DEF SignalHandler, Live, Alive, TypeInv, TypeOK
<1>3. mpc \notin {"done", "exited"} /\ mpc' \in {"exited", "join", "atexit"}
  BY DEF SignalHandler, MainStates
<1>4. CASE mpc' = "exited"
  <2>1. Stage = "open" /\ Stage' = "aborted"
    BY <1>3, <1>4 DEF Stage
  <2>2. Batch!Abort
    BY <1>1, <1>2, <2>1 DEF Batch!Abort, Stage, Live
  <2> QED
    BY <2>2 DEF Batch!Next
<1>5. CASE mpc' # "exited"
  <2>1. Stage = "open" /\ Stage' = "open"
    BY <1>3, <1>5 DEF Stage
  <2> QED
    BY <1>1, <1>2, <2>1 DEF BatchVars
<1> QED
  BY <1>4, <1>5

LEMMA WorkerImplementsBatch ==
  ASSUME TypeInv, SessionInv, DecisionInv, NEW w \in Workers, WorkerStep(w)
  PROVE  Batch!Next \/ UNCHANGED BatchVars
<1> USE DEF TypeInv, TypeOK, BusyHasJob, Goto, Interpreting
<1>1. mpc' = mpc /\ Stage' = Stage
  BY DEF WorkerStep, TakeJob, ReuseReport, StartSession, StartFails,
         RegisterChild, WaitReturns, SessionTimeout, UnregisterChild,
         SaveReport, NothingToSave, SaveFails, Settle, mainVars, Stage
<1>2. ASSUME wpc[w] # "idle" PROVE Stage = "open"
  BY <1>2, StageValue
     DEF DecisionInv, DoneDrained, Drained, WorkerStep, TakeJob, ReuseReport,
         StartSession, StartFails, RegisterChild, WaitReturns,
         SessionTimeout, UnregisterChild, SaveReport, NothingToSave,
         SaveFails, Settle
<1>3. ASSUME NEW from \in {"check", "save"}, NEW r \in {"ok", "failed"},
             Settle(w, from, r)
      PROVE  Batch!Next
  <2>1. /\ wpc[w] = from /\ wjob[w] \in Jobs
        /\ outcome' = [outcome EXCEPT ![wjob[w]] = r] /\ child' = child
    BY <1>3 DEF Settle
  <2>2. outcome[wjob[w]] = "pending"
    BY <2>1 DEF DecisionInv, WorkerJobPending
  <2>3. wjob[w] \notin Live
    BY <2>1, OwnSessionOver
  <2>4. Live' = Live
    BY <2>1 DEF Live, Alive
  <2>5. Stage = "open"
    BY <1>2, <2>1
  <2>6. Batch!Decide(wjob[w], r)
    BY <1>1, <2>1, <2>2, <2>3, <2>4, <2>5 DEF Batch!Decide, Stage, Live
  <2> QED
    BY <2>1, <2>6 DEF Batch!Next
<1>4. CASE StartSession(w)
  <2>1. /\ wpc[w] = "check" /\ wjob[w] \in Jobs /\ outcome' = outcome
        /\ child' = [child EXCEPT ![wjob[w]] = "running"]
    BY <1>4 DEF StartSession
  <2>2. outcome[wjob[w]] = "pending"
    BY <2>1 DEF DecisionInv, WorkerJobPending
  <2>3. wjob[w] \notin Live
    BY <2>1, OwnSessionOver
  <2>4. Live' = Live \cup {wjob[w]}
    BY <2>1 DEF Live, Alive
  <2>5. Cardinality(Live) < MaxParallel
    BY <2>1, SlotFree
  <2>6. Stage = "open" /\ Batch!Cardinality(Live) = Cardinality(Live)
    BY <1>2, <2>1 DEF Batch!Cardinality, Cardinality
  <2>7. Batch!StartLive(wjob[w])
    BY <1>1, <2>1, <2>2, <2>3, <2>4, <2>5, <2>6
       DEF Batch!StartLive, Stage, Live
  <2> QED
    BY <2>1, <2>7 DEF Batch!Next
<1>5. CASE \/ TakeJob(w) \/ RegisterChild(w) \/ WaitReturns(w)
           \/ SessionTimeout(w) \/ UnregisterChild(w)
  <2>1. outcome' = outcome
    BY <1>5 DEF TakeJob, RegisterChild, WaitReturns, SessionTimeout,
                UnregisterChild
  <2>2. Live' = Live
    BY <1>5 DEF TakeJob, RegisterChild, WaitReturns, SessionTimeout,
                UnregisterChild, Live, Alive
  <2> QED
    BY <1>1, <2>1, <2>2 DEF BatchVars
<1>6. CASE ReuseReport(w) \/ StartFails(w)
  BY <1>3, <1>6 DEF ReuseReport, StartFails
<1>7. CASE SaveReport(w) \/ NothingToSave(w) \/ SaveFails(w)
  BY <1>3, <1>7 DEF SaveReport, NothingToSave, SaveFails
<1> QED
  BY <1>4, <1>5, <1>6, <1>7 DEF WorkerStep

LEMMA SessionEndImplementsBatch ==
  ASSUME TypeInv, NEW j \in Jobs, SessionEnds(j) \/ SessionObeysSigterm(j)
  PROVE  Batch!Next
<1>1. /\ Alive(j) /\ child' = [child EXCEPT ![j] = "exited"]
      /\ UNCHANGED <<mpc, outcome>>
  BY DEF SessionEnds, SessionObeysSigterm, Alive, mainVars, workerVars
<1>2. j \in Live /\ Live' = Live \ {j}
  BY <1>1 DEF Live, Alive, TypeInv, TypeOK
<1>3. Stage' = Stage
  BY <1>1 DEF Stage
<1>4. Batch!EndLive(j)
  BY <1>1, <1>2, <1>3 DEF Batch!EndLive, Stage, Live
<1> QED
  BY <1>4 DEF Batch!Next

\* The analyze stage keeps the executor's promise: one result per job, none
\* decided while its session is alive, never more than MaxParallel sessions,
\* and complete only with every job decided and no session left.
THEOREM PoolImplementsBatch == Spec => ImplementsBatch
<1>1. Init => Batch!Init
  <2> SUFFICES ASSUME Init PROVE Batch!Init
    OBVIOUS
  <2>1. Stage = "open"
    BY DEF Init, Stage
  <2>2. Live = {}
    BY DEF Init, Live, Alive
  <2> QED
    BY <2>1, <2>2 DEF Init, Batch!Init, Stage, Live
<1>2. TypeInv /\ SessionInv /\ DecisionInv /\ [Next]_vars
        => [Batch!Next]_(Batch!batchVars)
  <2> SUFFICES ASSUME TypeInv, SessionInv, DecisionInv, [Next]_vars
               PROVE  Batch!Next \/ UNCHANGED BatchVars
    BY DEF Batch!batchVars, BatchVars, Stage, Live
  <2>1. CASE UNCHANGED vars
    BY <2>1 DEF vars, mainVars, workerVars, BatchVars, Stage, Live, Alive
  <2> QED
    BY <2>1, MainImplementsBatch, SignalImplementsBatch,
       WorkerImplementsBatch, SessionEndImplementsBatch
    DEF Next, Terminated
<1> QED
  BY <1>1, <1>2, DecisionInvariant, PTL DEF Spec, ImplementsBatch, Batch!Spec
=============================================================================
