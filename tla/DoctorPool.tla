----------------------------- MODULE DoctorPool -----------------------------
(***************************************************************************)
(* The analyze stage of run-doctor.py: the main thread clears and acquires *)
(* the per-job reports, submits one future per job to a ThreadPoolExecutor *)
(* and collects the results, while MaxParallel worker threads each run one *)
(* claude session at a time and a SIGTERM or SIGINT may arrive at any      *)
(* moment.  Jobs are numbered in the order of the job list; the executor's *)
(* queue is first-in first-out, so the jobs submitted + 1 .. NJobs are not *)
(* yet queued and taken + 1 .. submitted are queued and not yet started.   *)
(***************************************************************************)
EXTENDS Integers, FiniteSets

CONSTANTS
  NJobs,          \* length of the list _collect_jobs_to_analyze returns
  MaxParallel,    \* --parallel, the worker threads of the executor
  MaxSignals,     \* bound on the SIGTERM / SIGINT the run receives
  UnlinkMayFail,  \* whether unlinking an old report may raise OSError
  WriteMayFail    \* whether write_text and json.dump may fail half way

ASSUME PoolAssumption ==
  /\ NJobs \in Nat \ {0}
  /\ MaxParallel \in Nat \ {0}
  /\ MaxSignals \in Nat
  /\ UnlinkMayFail \in BOOLEAN
  /\ WriteMayFail \in BOOLEAN

Jobs    == 1..NJobs
Workers == 1..MaxParallel

VARIABLES
  mpc,        \* control state of the main thread
  uncleared,  \* jobs whose old report is not unlinked yet
  unacquired, \* jobs the predecessor loop has not reached yet
  submitted,  \* jobs handed to the executor
  taken,      \* jobs a worker has dequeued
  wpc,        \* control state of each worker
  wjob,       \* the job each worker is on, 0 when it has none
  child,      \* the claude process group of each job
  registered, \* _active_children
  report,     \* jobs/<output_name>
  outcome,    \* the future's result
  collected,  \* labels in main's results dict
  signals,    \* signals handled so far
  warned,     \* jobs with a "Could not clear stale" message
  acquired,   \* jobs whose predecessor report was materialized
  reused      \* jobs a worker reported as [REUSE]

mainVars   == <<mpc, uncleared, unacquired, submitted, collected, signals>>
workerVars == <<taken, wpc, wjob, registered, outcome, reused>>
fileVars   == <<report, warned, acquired>>
vars       == <<mainVars, workerVars, fileVars, child>>

MainStates   == {"clear", "acquire", "submit", "await", "join", "atexit",
                 "done", "exited"}
WorkerStates == {"idle", "check", "spawned", "waiting", "reaping",
                 "unregister", "save"}
ChildStates  == {"none", "running", "terminated", "exited"}
ReportStates == {"none", "stale", "predecessor", "truncated", "fresh"}

Alive(j) == child[j] \in {"running", "terminated"}

\* The interpreter runs worker threads until main has left it.
Interpreting == mpc # "exited"

(***************************************************************************)
(* Main thread                                                             *)
(***************************************************************************)
\* The work directory may hold reports of an earlier run for the same jobs.
Init ==
  /\ mpc = "clear"
  /\ uncleared = Jobs
  /\ unacquired = Jobs
  /\ submitted = 0
  /\ taken = 0
  /\ wpc = [w \in Workers |-> "idle"]
  /\ wjob = [w \in Workers |-> 0]
  /\ child = [j \in Jobs |-> "none"]
  /\ registered = {}
  /\ report \in [Jobs -> {"none", "stale"}]
  /\ outcome = [j \in Jobs |-> "pending"]
  /\ collected = {}
  /\ signals = 0
  /\ warned = {}
  /\ acquired = {}
  /\ reused = {}

\* Mutant: an unlink that fails is passed over without a message.
ClearTargetSilently(j) ==
  /\ mpc = "clear"
  /\ j \in uncleared
  /\ uncleared' = uncleared \ {j}
  /\ \/ report' = [report EXCEPT ![j] = "none"]
     \/ UnlinkMayFail /\ report[j] = "stale" /\ UNCHANGED report
  /\ UNCHANGED <<mpc, unacquired, submitted, collected, signals, warned,
                 acquired, workerVars, child>>

\* One turn of the loop that unlinks the reports of an earlier run.
ClearTarget(j) ==
  /\ mpc = "clear"
  /\ j \in uncleared
  /\ uncleared' = uncleared \ {j}
  /\ \/ /\ report' = [report EXCEPT ![j] = "none"]
        /\ UNCHANGED warned
     \/ /\ UnlinkMayFail /\ report[j] = "stale"
        /\ warned' = warned \cup {j}
        /\ UNCHANGED report
  /\ UNCHANGED <<mpc, unacquired, submitted, collected, signals, acquired,
                 workerVars, child>>

\* _find_predecessor_url: a successful build among the newest earlier ones of
\* the job starts the downloads; none, a listing that fails or is too long, or
\* a run outside Prow does not, nor do they start when reuse is disabled.
AfterClear == {"acquire", "submit"}

EndClear ==
  /\ mpc = "clear"
  /\ uncleared = {}
  /\ mpc' \in AfterClear
  /\ UNCHANGED <<uncleared, unacquired, submitted, collected, signals,
                 workerVars, fileVars, child>>

\* _materialize_predecessor_report: the rebased, validated report is saved,
\* rejected, or cut short while write_text fills the target.
MaterializeReport(j) ==
  \/ /\ report' = [report EXCEPT ![j] = "predecessor"]
     /\ acquired' = acquired \cup {j}
  \/ UNCHANGED <<report, acquired>>
  \/ /\ WriteMayFail
     /\ report' = [report EXCEPT ![j] = "truncated"]
     /\ UNCHANGED acquired

\* gsutil cp for one job, which may fail, and the materialization.
AcquirePredecessor(j) ==
  /\ mpc = "acquire"
  /\ j \in unacquired
  /\ unacquired' = unacquired \ {j}
  /\ \/ MaterializeReport(j)
     \/ UNCHANGED <<report, acquired>>
  /\ UNCHANGED <<mpc, uncleared, submitted, collected, signals, warned,
                 workerVars, child>>

EndAcquire ==
  /\ mpc = "acquire"
  /\ unacquired = {}
  /\ mpc' = "submit"
  /\ UNCHANGED <<uncleared, unacquired, submitted, collected, signals,
                 workerVars, fileVars, child>>

\* Mutant: the submit loop runs once too often.
SubmitOneTooMany ==
  /\ mpc = "submit"
  /\ submitted' = submitted + 1
  /\ mpc' = IF submitted = NJobs THEN "await" ELSE "submit"
  /\ UNCHANGED <<uncleared, unacquired, collected, signals, workerVars,
                 fileVars, child>>

\* pool.submit for the next job; after the last one main iterates
\* as_completed.
Submit ==
  /\ mpc = "submit"
  /\ submitted' = submitted + 1
  /\ mpc' = IF submitted + 1 = NJobs THEN "await" ELSE "submit"
  /\ UNCHANGED <<uncleared, unacquired, collected, signals, workerVars,
                 fileVars, child>>

Collect(j) ==
  /\ mpc = "await"
  /\ j \notin collected
  /\ outcome[j] # "pending"
  /\ collected' = collected \cup {j}
  /\ UNCHANGED <<mpc, uncleared, unacquired, submitted, signals, workerVars,
                 fileVars, child>>

\* Leaving the with block joins the worker threads, which end once the
\* queue is drained.
Drained == taken = submitted /\ \A w \in Workers : wpc[w] = "idle"

Complete ==
  /\ mpc = "await"
  /\ collected = Jobs
  /\ Drained
  /\ mpc' = "done"
  /\ UNCHANGED <<uncleared, unacquired, submitted, collected, signals,
                 workerVars, fileVars, child>>

\* _kill_all_children runs in the main thread: SIGTERM to every registered
\* process group, then SystemExit.  Inside the with block the exception
\* joins the workers; raised again in that join it reaches the interpreter's
\* own exit join, and raised there it ends the process at once.
SignalHandler ==
  /\ mpc \in MainStates \ {"done", "exited"}
  /\ signals < MaxSignals
  /\ signals' = signals + 1
  /\ child' = [j \in Jobs |->
                 IF j \in registered /\ child[j] = "running"
                   THEN "terminated" ELSE child[j]]
  /\ mpc' = CASE mpc \in {"clear", "acquire"} -> "exited"
              [] mpc \in {"submit", "await"}  -> "join"
              [] mpc = "join"                 -> "atexit"
              [] mpc = "atexit"               -> "exited"
  /\ UNCHANGED <<uncleared, unacquired, submitted, collected, workerVars,
                 fileVars>>

\* Mutant: shutdown(wait=False).
ExitWithoutJoin ==
  /\ mpc \in {"join", "atexit"}
  /\ mpc' = "exited"
  /\ UNCHANGED <<uncleared, unacquired, submitted, collected, signals,
                 workerVars, fileVars, child>>

\* shutdown(wait=True) does not cancel queued futures: the join waits for
\* every submitted job to be worked off.
JoinWorkers ==
  /\ mpc \in {"join", "atexit"}
  /\ Drained
  /\ mpc' = "exited"
  /\ UNCHANGED <<uncleared, unacquired, submitted, collected, signals,
                 workerVars, fileVars, child>>

(***************************************************************************)
(* Worker threads: _analyze_single_job and _run_claude_session             *)
(***************************************************************************)
Goto(w, from, to) ==
  /\ Interpreting
  /\ wpc[w] = from
  /\ wpc' = [wpc EXCEPT ![w] = to]

\* The job's future gets its result and the worker looks for more work.
Settle(w, from, result) ==
  /\ Goto(w, from, "idle")
  /\ outcome' = [outcome EXCEPT ![wjob[w]] = result]
  /\ wjob' = [wjob EXCEPT ![w] = 0]
  /\ UNCHANGED <<mainVars, taken, registered, warned, acquired, child>>

TakeJob(w) ==
  /\ Goto(w, "idle", "check")
  /\ taken < submitted
  /\ taken' = taken + 1
  /\ wjob' = [wjob EXCEPT ![w] = taken + 1]
  /\ UNCHANGED <<mainVars, registered, outcome, reused, fileVars, child>>

\* output_path.exists(): whatever is there counts as an acquired report.
ReuseReport(w) ==
  /\ Settle(w, "check", "ok")
  /\ report[wjob[w]] # "none"
  /\ reused' = reused \cup {wjob[w]}
  /\ UNCHANGED report

StartSession(w) ==
  /\ Goto(w, "check", "spawned")
  /\ report[wjob[w]] = "none"
  /\ child' = [child EXCEPT ![wjob[w]] = "running"]
  /\ UNCHANGED <<mainVars, taken, wjob, registered, outcome, reused, fileVars>>

\* Popen or the log file raises OSError: no text, nothing saved.
StartFails(w) ==
  /\ Settle(w, "check", "failed")
  /\ report[wjob[w]] = "none"
  /\ UNCHANGED <<reused, report>>

\* Mutant: the session is waited for without being registered.
WaitUnregistered(w) ==
  /\ Goto(w, "spawned", "waiting")
  /\ UNCHANGED <<mainVars, taken, wjob, registered, outcome, reused, fileVars,
                 child>>

RegisterChild(w) ==
  /\ Goto(w, "spawned", "waiting")
  /\ registered' = registered \cup {wjob[w]}
  /\ UNCHANGED <<mainVars, taken, wjob, outcome, reused, fileVars, child>>

WaitReturns(w) ==
  /\ wpc[w] \in {"waiting", "reaping"}
  /\ Goto(w, wpc[w], "unregister")
  /\ child[wjob[w]] = "exited"
  /\ UNCHANGED <<mainVars, taken, wjob, registered, outcome, reused, fileVars,
                 child>>

\* Mutant: the worker does not wait for the process it has signalled.
TimeoutWithoutReap(w) ==
  /\ Goto(w, "waiting", "unregister")
  /\ Alive(wjob[w])
  /\ child' = [child EXCEPT ![wjob[w]] = "terminated"]
  /\ UNCHANGED <<mainVars, taken, wjob, registered, outcome, reused, fileVars>>

\* Mutant: the expired session is waited for without SIGTERM.
TimeoutWithoutKill(w) ==
  /\ Goto(w, "waiting", "reaping")
  /\ Alive(wjob[w])
  /\ UNCHANGED <<mainVars, taken, wjob, registered, outcome, reused, fileVars,
                 child>>

\* wait(timeout) expires: SIGTERM to the group, then wait() with no bound.
SessionTimeout(w) ==
  /\ Goto(w, "waiting", "reaping")
  /\ Alive(wjob[w])
  /\ child' = [child EXCEPT ![wjob[w]] = "terminated"]
  /\ UNCHANGED <<mainVars, taken, wjob, registered, outcome, reused, fileVars>>

UnregisterChild(w) ==
  /\ Goto(w, "unregister", "save")
  /\ registered' = registered \ {wjob[w]}
  /\ UNCHANGED <<mainVars, taken, wjob, outcome, reused, fileVars, child>>

\* The text of the log parses as JSON and is written to the report, whether
\* or not the session was killed.
SaveReport(w) ==
  /\ Settle(w, "save", "ok")
  /\ report' = [report EXCEPT ![wjob[w]] = "fresh"]
  /\ UNCHANGED reused

NothingToSave(w) ==
  /\ Settle(w, "save", "failed")
  /\ UNCHANGED <<reused, report>>

\* json.dump fails half way: the future carries the exception and the
\* truncated file stays.
SaveFails(w) ==
  /\ WriteMayFail
  /\ Settle(w, "save", "failed")
  /\ report' = [report EXCEPT ![wjob[w]] = "truncated"]
  /\ UNCHANGED reused

WorkerStep(w) ==
  \/ TakeJob(w)
  \/ ReuseReport(w)
  \/ StartSession(w)
  \/ StartFails(w)
  \/ RegisterChild(w)
  \/ WaitReturns(w)
  \/ SessionTimeout(w)
  \/ UnregisterChild(w)
  \/ SaveReport(w)
  \/ NothingToSave(w)
  \/ SaveFails(w)

(***************************************************************************)
(* The claude processes: a session may end by itself at any time           *)
(***************************************************************************)
SessionEnds(j) ==
  /\ child[j] = "running"
  /\ child' = [child EXCEPT ![j] = "exited"]
  /\ UNCHANGED <<mainVars, workerVars, fileVars>>

SessionObeysSigterm(j) ==
  /\ child[j] = "terminated"
  /\ child' = [child EXCEPT ![j] = "exited"]
  /\ UNCHANGED <<mainVars, workerVars, fileVars>>

MainStep ==
  \/ \E j \in Jobs : ClearTarget(j)
  \/ EndClear
  \/ \E j \in Jobs : AcquirePredecessor(j)
  \/ EndAcquire
  \/ Submit
  \/ \E j \in Jobs : Collect(j)
  \/ Complete
  \/ JoinWorkers

Terminated == mpc \in {"done", "exited"} /\ UNCHANGED vars

Next ==
  \/ MainStep
  \/ SignalHandler
  \/ \E w \in Workers : WorkerStep(w)
  \/ \E j \in Jobs : SessionEnds(j) \/ SessionObeysSigterm(j)
  \/ Terminated

(***************************************************************************)
(* The threads are scheduled, the session timeout fires, and a process     *)
(* that got SIGTERM ends.  Nothing makes a session end by itself.          *)
(***************************************************************************)
Fairness ==
  /\ WF_vars(MainStep)
  /\ \A w \in Workers : WF_vars(WorkerStep(w))
  /\ \A j \in Jobs : WF_vars(SessionObeysSigterm(j))

Spec == Init /\ [][Next]_vars

FairSpec == Spec /\ Fairness

(***************************************************************************)
(* Properties                                                              *)
(***************************************************************************)
\* The types, and the bounds of the queue: a job is taken only after it was
\* submitted, and none is submitted that the list does not hold.
TypeOK ==
  /\ mpc \in MainStates
  /\ uncleared \subseteq Jobs
  /\ unacquired \subseteq Jobs
  /\ submitted \in 0..NJobs
  /\ taken \in 0..submitted
  /\ wpc \in [Workers -> WorkerStates]
  /\ wjob \in [Workers -> 0..NJobs]
  /\ child \in [Jobs -> ChildStates]
  /\ registered \subseteq Jobs
  /\ report \in [Jobs -> ReportStates]
  /\ outcome \in [Jobs -> {"pending", "ok", "failed"}]
  /\ collected \subseteq Jobs
  /\ signals \in 0..MaxSignals
  /\ warned \subseteq Jobs
  /\ acquired \subseteq Jobs
  /\ reused \subseteq Jobs

\* The process does not leave a claude session behind when it exits on its
\* first or second signal: the executor's join outlives the handler's
\* sys.exit.  (The third signal breaks the last join.)
NoOrphans ==
  mpc = "exited" /\ signals < 3 => \A j \in Jobs : ~Alive(j)

\* _kill_all_children misses a running session only while its worker is
\* between Popen and _register_child.
HandlerMissesOnlyUnregistered ==
  [][signals' # signals =>
       \A j \in Jobs : child'[j] = "running" =>
         \E w \in Workers : wjob[w] = j /\ wpc[w] = "spawned"]_vars

\* "clear stale outputs so failed acquisition is not mistaken for successful
\* reuse": a job reported as [REUSE] was materialized from the predecessor,
\* unless the diagnostics name its stale file, or the copy failed half way and
\* the file it tore is what the worker found.
ReuseIsAcquired ==
  \A j \in reused \ warned : j \in acquired \/ report[j] = "truncated"

\* The executor's promise: see JobBatch.
Batch == INSTANCE JobBatch WITH
  Jobs <- Jobs,
  MaxLive <- MaxParallel,
  stage <- CASE mpc = "done"   -> "complete"
             [] mpc = "exited" -> "aborted"
             [] OTHER          -> "open",
  live <- {j \in Jobs : Alive(j)},
  result <- outcome

\* The abstract specification as a property of this one.
ImplementsBatch == Batch!Spec

\* The analyze stage ends, with its results or by exiting on a signal,
\* however long the sessions would have gone on.
StageEnds == <>(mpc \in {"done", "exited"})
=============================================================================
