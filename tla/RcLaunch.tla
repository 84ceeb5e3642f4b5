------------------------------- MODULE RcLaunch -------------------------------
(***************************************************************************)
(* edge-ocp-rc: launch.sh submits the listed jobs of one topology to Prow  *)
(* and tracks them in a run directory; status.sh reads the directory, once *)
(* or in a loop; --relaunch-failed starts from the directory of the latest *)
(* run.  A job name stands on one line of one of the three kinds of files. *)
(***************************************************************************)
EXTENDS Integers, Sequences, SequencesExt, FiniteSetsExt, Lists

CONSTANTS
  RunNames,        \* values of --run
  JobFiles,        \* what the job files may hold
  WaveSize,        \* --wave-size, 0 for none
  MaxLaunches,     \* bound on the calls of launch.sh
  MaxExecs,        \* bound on the executions in Prow
  Happens          \* which of "curl fails", "dry run", "no url" may

JobNames == UNION {ToSet(l.regular \o l.lvms \o l.upgrade) : l \in JobFiles}

RcAssumption ==
  /\ WaveSize \in Nat /\ MaxLaunches \in Nat /\ MaxExecs \in Nat
  /\ \A l \in JobFiles :
       /\ {l.regular, l.lvms, l.upgrade} \subseteq Seq(JobNames)
       /\ IsInjective(l.regular \o l.lvms \o l.upgrade)

VARIABLES
  files,     \* the job files
  made,      \* run directories, the last made first
  dirs,      \* and the last changed first
  launches,  \* calls of launch.sh so far
  launcher,  \* the running call: its arguments and its progress
  told,      \* what the last call said at its end
  execs,     \* executions in Prow, each with a tracking JSON in a directory
  watch      \* status.sh --watch

rcVars == <<files, made, dirs, launches, launcher, told, execs, watch>>

Idle == [pc |-> "idle"]
Results == {"SUCCESS", "FAILURE", "ABORTED"}

\* Order of the lines in --list, --relaunch-failed, the counting and the loop.
Combined == files.regular \o files.lvms \o files.upgrade

InitRc ==
  /\ files \in JobFiles
  /\ made = <<>> /\ dirs = <<>> /\ launches = 0 /\ launcher = Idle /\ told = ""
  /\ execs = <<>> /\ watch = "off"

(***************************************************************************)
(* launch.sh                                                               *)
(***************************************************************************)
Tracked(name) == {e \in DOMAIN execs : execs[e].run = name}
Failed(name)  == {e \in Tracked(name) : execs[e].url /\ execs[e].result \in {"FAILURE", "ABORTED"}}

\* finished.json of a failed execution may be out of reach.
Readable(E) == IF "curl fails" \in Happens THEN SUBSET E ELSE {E}

\* Mutant: the lines of the LVMS file are not counted.
NumbersWithoutLvms(E) ==
  {Min({i \in DOMAIN (files.regular \o files.upgrade) : (files.regular \o files.upgrade)[i] = execs[e].job}) :
     e \in {x \in E : execs[x].job \in ToSet(files.regular \o files.upgrade)}}

\* Line numbers of the jobs; one that is not listed any more is left out.
Numbers(E) ==
  {CHOOSE i \in DOMAIN Combined : Combined[i] = execs[e].job :
     e \in {x \in E : execs[x].job \in ToSet(Combined)}}

\* The lines of a call: upgrade files only with --initial.
Lines(call) == IF call.initial THEN DOMAIN Combined ELSE DOMAIN (files.regular \o files.lvms)

\* job_selected: the filter of --job, and the lane must fit the payload.
JobSelected(call, i) ==
  /\ call.all \/ i \in call.nums
  /\ Combined[i] \in ToSet(files.lvms) => call.fits

\* Mutant: the LVMS lane is launched but not counted.
CountWithoutLvms(call) ==
  Cardinality({i \in Lines(call) : JobSelected(call, i) /\ Combined[i] \notin ToSet(files.lvms)})

CountSelectedJobs(call) == Cardinality({i \in Lines(call) : JobSelected(call, i)})

MakeRunDir(name) ==
  IF name \in ToSet(dirs) THEN UNCHANGED <<made, dirs>>
  ELSE made' = <<name>> \o made /\ dirs' = <<name>> \o dirs

Ends(text) == told' = text /\ launcher' = Idle

\* From the run directory on: mkdir, config.env, the token, the counting.
Start(call, token) ==
  /\ MakeRunDir(call.run)
  /\ IF ~token /\ ~call.dry THEN Ends("error")
     ELSE /\ launcher' = [call EXCEPT !.total = CountSelectedJobs(call)]
          /\ told' = ""

Call(pc, name, dry, initial, fits, all, nums, previous) ==
  [pc |-> pc, run |-> name, dry |-> dry, initial |-> initial, fits |-> fits, all |-> all,
   nums |-> nums, previous |-> previous, id |-> launches + 1,
   total |-> 0, line |-> 0, count |-> 0, launched |-> 0]

\* A call may begin; its options are chosen by the actions below.
BeginCall ==
  /\ launcher.pc = "idle" /\ launches < MaxLaunches
  /\ launches' = launches + 1
  /\ UNCHANGED <<files, execs, watch>>

LaunchAll(name, dry, initial, fits, token) ==
  /\ dry => "dry run" \in Happens
  /\ BeginCall
  /\ Start(Call("loop", name, dry, initial, fits, TRUE, {}, ""), token)

\* The scan of the newest directory.  A selected LVMS lane that does not fit
\* ends the call before the new directory is made.
RelaunchFailed(name, initial, fits, token) ==
  /\ BeginCall
  /\ IF dirs = <<>> THEN Ends("error") /\ UNCHANGED <<made, dirs>>
     ELSE \E seen \in Readable(Failed(Head(dirs))) :
       IF Numbers(seen) = {} THEN Ends("nothing to re-launch") /\ UNCHANGED <<made, dirs>>
       ELSE IF ~fits /\ \E i \in Numbers(seen) : Combined[i] \in ToSet(files.lvms)
       THEN Ends("error") /\ UNCHANGED <<made, dirs>>
       ELSE Start(Call("loop", name, FALSE, initial, fits, FALSE, Numbers(seen), Head(dirs)), token)

AtLine(i) ==
  /\ launcher.pc = "loop"
  /\ i = launcher.line + 1 /\ i \in Lines(launcher)

SkipLine ==
  \E i \in DOMAIN Combined :
    /\ AtLine(i) /\ ~JobSelected(launcher, i)
    /\ launcher' = [launcher EXCEPT !.line = i]
    /\ UNCHANGED <<files, made, dirs, launches, told, execs, watch>>

\* A selected job that gangway-cli refuses, or a dry run: no pause.
NotLaunched ==
  \E i \in DOMAIN Combined :
    /\ AtLine(i) /\ JobSelected(launcher, i)
    /\ launcher' = [launcher EXCEPT !.line = i, !.count = @ + 1]
    /\ UNCHANGED <<files, made, dirs, launches, told, execs, watch>>

\* A full wave is followed by a pause unless it was the last job.
WaveComplete(count, launched) ==
  WaveSize > 0 /\ launched % WaveSize = 0 /\ count < launcher.total

LaunchJob(url) ==
  \E i \in DOMAIN Combined :
    /\ AtLine(i) /\ JobSelected(launcher, i)
    /\ ~launcher.dry /\ Len(execs) < MaxExecs
    /\ url \/ "no url" \in Happens
    /\ execs' = Append(execs, [job |-> Combined[i], run |-> launcher.run, call |-> launcher.id,
                               url |-> url, result |-> ""])
    /\ dirs' = <<launcher.run>> \o Keeping(dirs, ToSet(dirs) \ {launcher.run})
    /\ launcher' = [launcher EXCEPT !.line = i, !.count = @ + 1, !.launched = @ + 1,
                      !.pc = IF WaveComplete(launcher.count + 1, launcher.launched + 1)
                             THEN "wave" ELSE "loop"]
    /\ UNCHANGED <<files, made, launches, told, watch>>

Resume ==
  /\ launcher.pc = "wave"
  /\ launcher' = [launcher EXCEPT !.pc = "loop"]
  /\ UNCHANGED <<files, made, dirs, launches, told, execs, watch>>

\* The last lines: nothing matched the numbers, or only a lane that does not fit.
Done ==
  /\ launcher.pc = "loop" /\ launcher.line + 1 \notin Lines(launcher)
  /\ Ends(IF /\ launcher.count = 0
             /\ ~launcher.all \/ files.lvms # <<>>
          THEN "error" ELSE "done")
  /\ UNCHANGED <<files, made, dirs, launches, execs, watch>>

\* Interrupted by the user, in the long pauses above all.
Interrupted ==
  /\ launcher.pc # "idle"
  /\ Ends("interrupted")
  /\ UNCHANGED <<files, made, dirs, launches, execs, watch>>

\* launch.sh --refresh, between two calls.
Refresh(list) ==
  /\ launcher.pc = "idle" /\ list # files
  /\ files' = list
  /\ UNCHANGED <<made, dirs, launches, launcher, told, execs, watch>>

(***************************************************************************)
(* Prow and status.sh                                                      *)
(***************************************************************************)
Finish(e, result) ==
  /\ execs[e].result = ""
  /\ execs' = [execs EXCEPT ![e].result = result]
  /\ UNCHANGED <<files, made, dirs, launches, launcher, told, watch>>

\* Mutant: an aborted job is taken for a running one.
StatusNoAbort(e, readable) ==
  IF ~execs[e].url THEN "NO-URL"
  ELSE IF e \notin readable \/ execs[e].result \in {"", "ABORTED"} THEN "RUNNING"
  ELSE IF execs[e].result = "SUCCESS" THEN "PASS" ELSE "FAIL"

Status(e, readable) ==
  IF ~execs[e].url THEN "NO-URL"
  ELSE IF e \notin readable \/ execs[e].result = "" THEN "RUNNING"
  ELSE IF execs[e].result = "SUCCESS" THEN "PASS" ELSE "FAIL"

\* total - pass - fail
Pending(name, readable) == {e \in Tracked(name) : Status(e, readable) \notin {"PASS", "FAIL"}}

Watch ==
  /\ watch # "on" /\ made # <<>>
  /\ watch' = "on"
  /\ UNCHANGED <<files, made, dirs, launches, launcher, told, execs>>

\* One round of the loop, on the newest directory at that time; the scripts
\* do not mean the same directory by it.
Poll(readable) ==
  /\ watch = "on"
  /\ watch' = IF Pending(Head(made), readable) = {} THEN "complete" ELSE "on"
  /\ UNCHANGED <<files, made, dirs, launches, launcher, told, execs>>

PollAll == Poll(DOMAIN execs)

LauncherStep ==
  SkipLine \/ NotLaunched \/ (\E url \in BOOLEAN : LaunchJob(url)) \/ Resume \/ Done

RcStep ==
  \/ \E name \in RunNames, dry, initial, fits, token \in BOOLEAN : LaunchAll(name, dry, initial, fits, token)
  \/ \E name \in RunNames, initial, fits, token \in BOOLEAN : RelaunchFailed(name, initial, fits, token)
  \/ LauncherStep \/ Interrupted
  \/ \E list \in JobFiles : Refresh(list)
  \/ \E e \in DOMAIN execs, result \in Results : Finish(e, result)
  \/ Watch
  \/ \E readable \in Readable(DOMAIN execs) : Poll(readable)

RcSpec == InitRc /\ [][RcStep]_rcVars

\* Prow finishes what runs, and finished.json can be read in the end.
FairRcSpec ==
  /\ RcSpec
  /\ WF_rcVars(LauncherStep) /\ WF_rcVars(PollAll)
  /\ \A e \in 1..MaxExecs : WF_rcVars(e \in DOMAIN execs /\ \E result \in Results : Finish(e, result))

(***************************************************************************)
(* Properties                                                              *)
(***************************************************************************)
\* The types, and: the launcher submits no more jobs than it counted, and the
\* two orders of the run directories hold the same directories.
RcTypeOK ==
  /\ files \in JobFiles
  /\ ToSet(made) = ToSet(dirs) /\ IsInjective(made) /\ IsInjective(dirs)
  /\ launches \in 0..MaxLaunches
  /\ launcher.pc \in {"idle", "loop", "wave"}
  /\ launcher.pc # "idle" => /\ launcher.count \in 0..launcher.total
                             /\ launcher.launched \in 0..launcher.count
  /\ told \in {"", "error", "nothing to re-launch", "done", "interrupted"}
  /\ \A e \in DOMAIN execs :
       execs[e] \in [job : JobNames, run : ToSet(dirs), call : 1..launches, url : BOOLEAN,
                     result : Results \cup {""}]
  /\ watch \in {"off", "on", "complete"}

\* --relaunch-failed launches only jobs that failed or were aborted in the
\* directory it scanned, whatever the job files became since that run: the
\* numbers found by the scan name the same jobs to the loop.
RelaunchesFailures ==
  launcher.pc # "idle" /\ ~launcher.all =>
    \A e \in DOMAIN execs : execs[e].call = launcher.id =>
      \E f \in Failed(launcher.previous) :
        execs[f].job = execs[e].job /\ execs[f].call < launcher.id

\* "Poll every N seconds (default 120) until all jobs complete": the watch
\* ends, unless a tracking file has no URL.
WatchEnds ==
  watch = "on" ~> (watch # "on" \/ \E e \in DOMAIN execs : ~execs[e].url)

\* "Re-launch failed jobs from the latest run": when nothing is found to
\* launch again, no job of the last call that launched any has failed.
LatestFailuresFound ==
  [][told' = "nothing to re-launch" /\ launches' # launches =>
       \A e \in DOMAIN execs :
         execs[e].call = Max({execs[f].call : f \in DOMAIN execs}) => e \notin Failed(execs[e].run)]_rcVars
=============================================================================
