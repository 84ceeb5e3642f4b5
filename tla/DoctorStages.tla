---------------------------- MODULE DoctorStages ----------------------------
(***************************************************************************)
(* DoctorPipeline.run of run-doctor.py: the stages in order, each of       *)
(* prepare, graphs, bugs and finalize as one child process with a          *)
(* threading.Timer that kills it, and SIGTERM or SIGINT at any moment.     *)
(* The analyze stage is one step here; DoctorPool is its own model.        *)
(***************************************************************************)
EXTENDS Integers, Sequences

CONSTANTS
  Stages,         \* self.stages, the requested stages in order
  OldSummary      \* whether an earlier run left prepare-summary.json

ASSUME StagesAssumption ==
  /\ Stages \in Seq({"prepare", "graphs", "analyze", "bugs", "finalize"})
  /\ OldSummary \in BOOLEAN

Steps == 1..Len(Stages)

VARIABLES
  pc,         \* control state of the main thread
  step,       \* index of the current stage
  child,      \* process group of each stage's child
  reaped,     \* stages whose child has been waited for
  code,       \* return code of each stage's child, -1 when not known
  registered, \* stages whose child is in _active_children
  timer,      \* the threading.Timer of each stage
  timedOut,   \* the timed_out flag of the current stage
  summary,    \* self.prepare_summary: "none", "old" or "fresh"
  verdict,    \* what each stage function returned
  exit,       \* exit status: "none", "ok", "errors", "signal" or "raised"
  stray       \* reaped process groups the signal handler signalled

stageVars == <<step, summary, verdict, exit>>
childVars == <<child, reaped, code, registered>>
vars      == <<pc, stageVars, childVars, timer, timedOut, stray>>

Current == Stages[step]

ChildStates == {"none", "running", "terminated", "exited"}
TimerStates == {"off", "armed", "firing", "fired", "cancelled"}

Init ==
  /\ pc = "dispatch"
  /\ step = 1
  /\ child = [i \in Steps |-> "none"]
  /\ reaped = {}
  /\ code = [i \in Steps |-> -1]
  /\ registered = {}
  /\ timer = [i \in Steps |-> "off"]
  /\ timedOut = FALSE
  /\ summary = "none"
  /\ verdict = [i \in Steps |-> "none"]
  /\ exit = "none"
  /\ stray = {}

(***************************************************************************)
(* The loop over the stages                                                *)
(***************************************************************************)
\* Mutant: only a failing prepare is fatal.
ReturnBugsNotFatal(ok) ==
  /\ verdict' = [verdict EXCEPT ![step] = IF ok THEN "ok" ELSE "failed"]
  /\ IF ~ok /\ Current = "prepare"
       THEN pc' = "exited" /\ exit' = "errors" /\ UNCHANGED step
       ELSE pc' = "dispatch" /\ step' = step + 1 /\ UNCHANGED exit

\* The stage function returns: prepare and bugs are fatal, the others let
\* the run continue with errors.
Return(ok) ==
  /\ verdict' = [verdict EXCEPT ![step] = IF ok THEN "ok" ELSE "failed"]
  /\ IF ~ok /\ Current \in {"prepare", "bugs"}
       THEN pc' = "exited" /\ exit' = "errors" /\ UNCHANGED step
       ELSE pc' = "dispatch" /\ step' = step + 1 /\ UNCHANGED exit

\* An exception that no stage function catches ends the run.
Raise == pc' = "exited" /\ exit' = "raised" /\ UNCHANGED <<step, verdict>>

\* Mutant: had_errors is overwritten by each stage.
LastStageFailed == verdict[Len(Stages)] = "failed"

HadErrors == \E i \in Steps : verdict[i] = "failed"

Finish ==
  /\ pc = "dispatch"
  /\ step > Len(Stages)
  /\ pc' = "exited"
  /\ exit' = IF HadErrors THEN "errors" ELSE "ok"
  /\ UNCHANGED <<step, summary, verdict, childVars, timer, timedOut, stray>>

(***************************************************************************)
(* analyze: the summary of this run, else the one on disk                  *)
(***************************************************************************)
Analyze ==
  /\ pc = "dispatch"
  /\ step \in Steps /\ Current = "analyze"
  /\ summary' = IF summary = "none" /\ OldSummary THEN "old" ELSE summary
  /\ \E ok \in BOOLEAN : Return(ok) /\ (ok => summary' # "none")
  /\ UNCHANGED <<childVars, timer, timedOut, stray>>

(***************************************************************************)
(* run_doctor_sh and bugs: one child process with a timer                  *)
(***************************************************************************)
StartChild ==
  /\ pc = "dispatch"
  /\ step \in Steps /\ Current # "analyze"
  /\ child' = [child EXCEPT ![step] = "running"]
  /\ pc' = "spawned"
  /\ UNCHANGED <<stageVars, reaped, code, registered, timer, timedOut, stray>>

StartChildFails ==
  /\ pc = "dispatch"
  /\ step \in Steps /\ Current # "analyze"
  /\ Return(FALSE)
  /\ UNCHANGED <<summary, childVars, timer, timedOut, stray>>

\* Mutant: the timer is made but not started.
WatchChildWithoutTimer ==
  /\ pc = "spawned"
  /\ registered' = registered \cup {step}
  /\ timedOut' = FALSE
  /\ pc' = "reading"
  /\ UNCHANGED <<stageVars, child, reaped, code, timer, stray>>

\* _register_child, then the timer starts and main reads the pipe.
WatchChild ==
  /\ pc = "spawned"
  /\ registered' = registered \cup {step}
  /\ timer' = [timer EXCEPT ![step] = "armed"]
  /\ timedOut' = FALSE
  /\ pc' = "reading"
  /\ UNCHANGED <<stageVars, child, reaped, code, stray>>

\* The timer thread cannot be started: the child is registered, alive and
\* nobody's any more.  bugs catches every exception, run_doctor_sh only OSError.
TimerFails ==
  /\ pc = "spawned"
  /\ registered' = registered \cup {step}
  /\ IF Current = "bugs" THEN Return(FALSE) ELSE Raise
  /\ UNCHANGED <<summary, child, reaped, code, timer, timedOut, stray>>

\* Mutant: the end of the pipe is taken for the end of the child.
WaitPipeOnly ==
  /\ pc = "reading"
  /\ reaped' = reaped \cup {step}
  /\ pc' = "reaped"
  /\ UNCHANGED <<stageVars, child, code, registered, timer, timedOut, stray>>

\* The pipe is at its end and wait() returns.
WaitChild ==
  /\ pc = "reading"
  /\ child[step] = "exited"
  /\ reaped' = reaped \cup {step}
  /\ pc' = "reaped"
  /\ UNCHANGED <<stageVars, child, code, registered, timer, timedOut, stray>>

CancelTimer(i) ==
  timer' = [timer EXCEPT ![i] = IF @ = "armed" THEN "cancelled" ELSE @]

\* The finally block cancels the timer; that of run_doctor_sh unregisters the
\* child as well.
Unregister ==
  registered' = IF Current = "bugs" THEN registered ELSE registered \ {step}

\* A line cannot be decoded or logged: the loop is left without waiting for
\* the child or killing it.  An OSError fails the stage, as anything does in
\* bugs; an undecodable line of the other stages ends the run.
ReadFails ==
  /\ pc = "reading"
  /\ CancelTimer(step)
  /\ Unregister
  /\ \/ Return(FALSE)
     \/ Current # "bugs" /\ Raise
  /\ UNCHANGED <<summary, child, reaped, code, timedOut, stray>>

\* Mutant: no stage unregisters its child.
CleanupNoUnregister ==
  /\ pc = "reaped"
  /\ CancelTimer(step)
  /\ timedOut' = (timedOut /\ code[step] # 0)
  /\ pc' = "verdict"
  /\ UNCHANGED <<stageVars, childVars, stray>>

\* The finally block after the wait.
Cleanup ==
  /\ pc = "reaped"
  /\ CancelTimer(step)
  /\ Unregister
  /\ timedOut' = (timedOut /\ (Current = "bugs" \/ code[step] # 0))
  /\ pc' = "verdict"
  /\ UNCHANGED <<stageVars, child, reaped, code, stray>>

\* prepare also needs the JSON summary at the end of the output, or the file
\* an earlier run wrote.
PrepareSummary(ok) ==
  IF ok /\ Current = "prepare"
    THEN summary' \in {"fresh"} \cup (IF OldSummary THEN {"old"} ELSE {"none"})
    ELSE UNCHANGED summary

ChildSucceeded == ~timedOut /\ code[step] = 0

\* The stage fails, too, when its log cannot be written out on closing it.
Judge ==
  /\ pc = "verdict"
  /\ \E good \in {ChildSucceeded, FALSE} :
       /\ PrepareSummary(good)
       /\ Return(good /\ (Current = "prepare" => summary' # "none"))
  /\ UNCHANGED <<childVars, timer, timedOut, stray>>

(***************************************************************************)
(* The timer thread: past its own check of the cancelled flag it runs      *)
(* _kill even when main cancels the timer in between                       *)
(***************************************************************************)
TimerExpires(i) ==
  /\ timer[i] = "armed"
  /\ pc # "exited"
  /\ timer' = [timer EXCEPT ![i] = "firing"]
  /\ UNCHANGED <<pc, stageVars, childVars, timedOut, stray>>

\* timed_out belongs to the call that made the timer; a late timer of an
\* earlier stage sets a flag nobody reads.
Kill(i) ==
  /\ timer[i] = "firing"
  /\ timer' = [timer EXCEPT ![i] = "fired"]
  /\ timedOut' = (timedOut \/ (i = step))
  /\ child' = [child EXCEPT ![i] = IF @ = "running" THEN "terminated" ELSE @]
  /\ UNCHANGED <<pc, stageVars, reaped, code, registered, stray>>

(***************************************************************************)
(* The children and the signal                                             *)
(***************************************************************************)
ChildExits(i, c) ==
  /\ child[i] \in {"running", "terminated"}
  /\ child' = [child EXCEPT ![i] = "exited"]
  /\ code' = [code EXCEPT ![i] = c]
  /\ UNCHANGED <<pc, stageVars, reaped, registered, timer, timedOut, stray>>

\* _kill_all_children, then SystemExit through the finally block, which
\* cancels the timer but waits for nothing.
SignalHandler ==
  /\ pc # "exited"
  /\ child' = [i \in Steps |->
                 IF i \in registered /\ child[i] = "running"
                   THEN "terminated" ELSE child[i]]
  /\ stray' = stray \cup (registered \cap reaped)
  /\ timer' = [i \in Steps |->
                 IF timer[i] = "armed" THEN "cancelled" ELSE timer[i]]
  /\ pc' = "exited"
  /\ exit' = "signal"
  /\ UNCHANGED <<step, summary, verdict, reaped, code, registered, timedOut>>

MainStep ==
  \/ Finish
  \/ Analyze
  \/ StartChild
  \/ StartChildFails
  \/ WatchChild
  \/ WaitChild
  \/ Cleanup
  \/ Judge

Terminated == pc = "exited" /\ UNCHANGED vars

Next ==
  \/ MainStep
  \/ TimerFails
  \/ ReadFails
  \/ SignalHandler
  \/ \E i \in Steps : TimerExpires(i) \/ Kill(i)
  \/ \E i \in Steps, c \in {0, 1} : ChildExits(i, c)
  \/ Terminated

\* A child that got SIGTERM ends; a child that did not may hang for ever.
TerminatedChildExits(i) ==
  child[i] = "terminated" /\ \E c \in {0, 1} : ChildExits(i, c)

Fairness ==
  /\ WF_vars(MainStep)
  /\ \A i \in Steps : /\ WF_vars(TimerExpires(i))
                      /\ WF_vars(Kill(i))
                      /\ WF_vars(TerminatedChildExits(i))

Spec == Init /\ [][Next]_vars

FairSpec == Spec /\ Fairness

(***************************************************************************)
(* Properties                                                              *)
(***************************************************************************)
\* The type invariant also relates the child variables: only a child that
\* has exited is reaped and has a return code.
TypeOK ==
  /\ pc \in {"dispatch", "spawned", "reading", "reaped", "verdict", "exited"}
  /\ step \in 1..(Len(Stages) + 1)
  /\ child \in [Steps -> ChildStates]
  /\ reaped \subseteq {i \in Steps : child[i] = "exited"}
  /\ \A i \in Steps : code[i] # -1 <=> child[i] = "exited"
  /\ code \in [Steps -> -1..1]
  /\ registered \subseteq Steps
  /\ timer \in [Steps -> TimerStates]
  /\ timedOut \in BOOLEAN
  /\ summary \in {"none", "old", "fresh"}
  /\ verdict \in [Steps -> {"none", "ok", "failed"}]
  /\ exit \in {"none", "ok", "errors", "signal", "raised"}
  /\ stray \subseteq Steps

\* A stage starts a child only if every prepare and bugs stage before it
\* succeeded, with exit code 0: no HTML report is made after a bug search
\* that failed or timed out.
FinalizeNeedsBugs ==
  \A i, k \in Steps :
    i < k /\ Stages[i] \in {"prepare", "bugs"} /\ child[k] # "none"
      => verdict[i] = "ok" /\ code[i] = 0

\* The exit status is 0 only if every requested stage ran and succeeded, and
\* 1 only if some stage failed; a stage with a child succeeded only if the
\* child exited with 0.
ExitStatusTold ==
  /\ \A i \in Steps :
       verdict[i] = "ok" /\ Stages[i] # "analyze" => code[i] = 0
  /\ exit = "ok" => \A i \in Steps : verdict[i] = "ok"
  /\ exit = "errors" => HadErrors

\* A child that outlives the process without SIGTERM was missed in one of two
\* ways: the signal came between Popen and _register_child, or its stage had
\* left it alone after an error in its output (ReadFails, TimerFails).  And a
\* process group that is reaped (whose id may be reused) is signalled only for
\* the child of bugs, which is never unregistered, or between wait() and the
\* finally block.
SignalHitsItsChild ==
  /\ pc = "exited" =>
       \A i \in Steps : child[i] = "running" =>
         \/ exit = "signal" /\ i = step /\ i \notin registered
         \/ exit = "raised" /\ i = step
         \/ verdict[i] = "failed" /\ i \notin reaped
  /\ \A i \in stray : Stages[i] = "bugs" \/ (i = step /\ verdict[i] = "none")

\* A stage never waits for its child for ever: the run ends even when every
\* child hangs until it is killed.
RunEnds == <>(pc = "exited")
=============================================================================
