---------------------------- MODULE DoctorWorkdir ----------------------------
(***************************************************************************)
(* The files that successive doctor runs share in one work directory:      *)
(* what prepare, analyze, bugs and finalize write, what they leave behind, *)
(* and what a later run reads.  A source is a release, or the rebase pull  *)
(* requests of one; a run is a list of stages (--stages).  Every file      *)
(* carries the number of the run that wrote it.                            *)
(***************************************************************************)
EXTENDS Integers, Sequences, SequencesExt, FiniteSetsExt

CONSTANTS
  Releases,    \* the releases asked for, in order
  Rebase,      \* the source rebase-release-<release>
  Builds,      \* the builds that may fail, for each source
  StageLists,  \* the lists of stages a run may be started with
  MaxRuns      \* bound on the number of runs in the directory

WorkdirAssumption ==
  /\ Releases \in Seq(ToSet(Releases)) /\ Releases # <<>> /\ IsInjective(Releases)
  /\ Rebase \notin ToSet(Releases)
  /\ StageLists \subseteq Seq({"prepare", "analyze", "bugs", "finalize"})
  /\ << >> \notin StageLists
  /\ \A s \in ToSet(Releases) \cup {Rebase} : IsFiniteSet(Builds[s])
  /\ \A s, t \in ToSet(Releases) \cup {Rebase} : s # t => Builds[s] \cap Builds[t] = {}
  /\ MaxRuns \in Nat \ {0}

Sources == ToSet(Releases) \cup {Rebase}
Runs    == 1..MaxRuns

VARIABLES
  run,       \* number of the current run
  withPRs,   \* --pull-requests was given to it
  plan,      \* stages left, the current one first; <<>> when it is over
  phase,     \* where the current stage is
  todo,      \* sources the phase still has to treat, in order
  ended,     \* how the last run ended: "none", "finished" or the reason
  status,    \* what the status file of each source tells (see Statuses)
  errors,    \* sources with an error.txt
  jobs,      \* jobs files: report names <<index, build>> to analyze
  listed,    \* prepare-summary.json: the sources whose jobs analyze takes; {}
             \* without that file, which analyze fails for and the run goes on
  reports,   \* reports on disk: run that wrote each name, 0 if none, and
             \* the negated run when the report cannot be parsed
  cand,      \* bug-candidates-<source>, see Digest
  match,     \* bug-matches-<source>
  summary,   \* release-<release>-summary.json
  html,      \* the last HTML report
  unsearched \* for the property: the sources collected since a bug search
             \* last took them

diskVars    == <<status, errors, jobs, listed, reports, cand, match, summary, html, unsearched>>
runVars     == <<run, withPRs, plan, phase, todo, ended>>
workdirVars == <<runVars, diskVars>>

\* A "failed" collection leaves the same empty list as a source that does
\* not exist; it is told apart by its error.txt only.
Statuses == {"absent", "failed", "empty", "clean", "failing"}

Names(s) == (0..Cardinality(Builds[s]) - 1) \X Builds[s]

\* A file made of reports: the run that wrote it, the runs of the reports.
Digest(by, of) == [run |-> by, of |-> of]
NoFile         == Digest(0, {})
NoHtml         == [run |-> 0, summary |-> <<>>, match |-> <<>>, clean |-> {}]

InitWorkdir ==
  /\ run = 0 /\ withPRs = FALSE
  /\ plan = <<>> /\ phase = "enter" /\ todo = <<>> /\ ended = "none"
  /\ status = [s \in Sources |-> "absent"]
  /\ errors = {}
  /\ jobs = [s \in Sources |-> {}] /\ listed = {} /\ unsearched = {}
  /\ reports = [s \in Sources |-> [n \in Names(s) |-> 0]]
  /\ cand = [s \in Sources |-> NoFile]
  /\ match = [s \in Sources |-> NoFile]
  /\ summary = [r \in ToSet(Releases) |-> NoFile]
  /\ html = NoHtml

(***************************************************************************)
(* The stages of one run                                                   *)
(***************************************************************************)
StartRun ==
  /\ plan = <<>> /\ run < MaxRuns
  /\ run' = run + 1
  /\ plan' \in StageLists
  /\ withPRs' \in BOOLEAN
  /\ phase' = "enter" /\ todo' = <<>> /\ ended' = "none"
  /\ UNCHANGED diskVars

In(stage, p) == plan # <<>> /\ Head(plan) = stage /\ phase = p

GoTo(p, list) ==
  /\ phase' = p /\ todo' = list
  /\ UNCHANGED <<run, withPRs, plan, ended>>

LeaveStage(how) ==
  /\ plan' = Tail(plan) /\ phase' = "enter" /\ todo' = <<>>
  /\ ended' = IF Len(plan) = 1 THEN how ELSE ended
  /\ UNCHANGED <<run, withPRs>>

NextStage == LeaveStage("finished")

Abort(why) ==
  /\ plan' = <<>> /\ phase' = "enter" /\ todo' = <<>> /\ ended' = why
  /\ UNCHANGED <<run, withPRs>>

(***************************************************************************)
(* prepare: collect the jobs of each source, download the failed ones      *)
(***************************************************************************)
StartPrepare ==
  /\ In("prepare", "enter")
  /\ GoTo("collect", IF withPRs THEN Append(Releases, Rebase) ELSE Releases)
  /\ UNCHANGED diskVars

Record(s, st, names) ==
  /\ status' = [status EXCEPT ![s] = st]
  /\ jobs' = [jobs EXCEPT ![s] = names]
  /\ unsearched' = unsearched \cup {s}
  /\ GoTo("collect", Tail(todo))
  /\ UNCHANGED <<listed, reports, cand, match, summary, html>>

CollectFails ==
  /\ In("prepare", "collect") /\ todo # <<>>
  /\ Record(Head(todo), "failed", {})
  /\ errors' = errors \cup {Head(todo)}

\* Nothing listed, or every listed job passed.
CollectNoFailure ==
  /\ In("prepare", "collect") /\ todo # <<>>
  /\ \E st \in {"empty", "clean"} : Record(Head(todo), st, {})
  /\ UNCHANGED errors

\* Mutant: reports are numbered from one.
CollectFromOne ==
  /\ In("prepare", "collect") /\ todo # <<>>
  /\ \E list \in SetToAllKPermutations(Builds[Head(todo)]) :
       Record(Head(todo), "failing", {<<i, list[i]>> : i \in DOMAIN list})
  /\ UNCHANGED errors

\* Some jobs failed; list holds those whose artifacts were downloaded.
CollectFailures ==
  /\ In("prepare", "collect") /\ todo # <<>>
  /\ \E list \in SetToAllKPermutations(Builds[Head(todo)]) :
       Record(Head(todo), "failing", {<<i - 1, list[i]>> : i \in DOMAIN list})
  /\ UNCHANGED errors

Prepared ==
  /\ In("prepare", "collect") /\ todo = <<>>
  /\ listed' = {r \in ToSet(Releases) : status[r] # "failed"} \cup IF withPRs THEN {Rebase} ELSE {}
  /\ NextStage
  /\ UNCHANGED <<status, errors, jobs, reports, cand, match, summary, html, unsearched>>

PrepareFails ==
  /\ In("prepare", "collect")
  /\ Abort("prepare")
  /\ UNCHANGED diskVars

(***************************************************************************)
(* analyze: clear the reports about to be written, then run the sessions   *)
(***************************************************************************)
\* The summary may be an earlier run's.
Targets == {n \in UNION {Names(s) : s \in listed} : \E s \in listed : n \in jobs[s]}

\* Each session leaves its report, half a report, or none.
Analyze ==
  /\ In("analyze", "enter")
  /\ \E left \in [Targets -> {0, run, -run}] :
       reports' = [s \in Sources |-> [n \in Names(s) |->
                     IF n \in Targets THEN left[n] ELSE reports[s][n]]]
  /\ NextStage
  /\ UNCHANGED <<status, errors, jobs, listed, cand, match, summary, html, unsearched>>

(***************************************************************************)
(* bugs: candidates of every source, Jira, then the mappings               *)
(***************************************************************************)
\* Rebase sources are taken from prs-status.json, whichever run wrote it.
ActiveSources ==
  IF status[Rebase] \in {"clean", "failing"} THEN Append(Releases, Rebase) ELSE Releases

StartBugs ==
  /\ In("bugs", "enter")
  /\ GoTo("candidates", ActiveSources)
  /\ UNCHANGED diskVars

\* Mutant: a source nothing was downloaded for counts as healthy.
ConfirmedByJobsFile(s) == jobs[s] = {}

\* Healthy by its status file; only a release has its error.txt looked at.
ConfirmedNoFailures(s) == status[s] = "clean" /\ s \notin errors \ {Rebase}

Files(s)  == {n \in Names(s) : reports[s][n] # 0}
Parsed(s) == {reports[s][n] : n \in Names(s)} \cap Runs

\* Mutant: a source is published as soon as its candidates are there.
PreparePublishes ==
  /\ In("bugs", "candidates") /\ todo # <<>>
  /\ LET s == Head(todo) IN
       /\ Parsed(s) # {} \/ (Files(s) = {} /\ ConfirmedNoFailures(s))
       /\ cand' = [cand EXCEPT ![s] = Digest(run, Parsed(s))]
       /\ match' = [match EXCEPT ![s] = cand'[s]]
       /\ unsearched' = unsearched \ {s}
  /\ GoTo("candidates", Tail(todo))
  /\ UNCHANGED <<status, errors, jobs, listed, reports, summary, html>>

PrepareCandidates ==
  /\ In("bugs", "candidates") /\ todo # <<>>
  /\ LET s == Head(todo) IN
       /\ Parsed(s) # {} \/ (Files(s) = {} /\ ConfirmedNoFailures(s))
       /\ cand' = [cand EXCEPT ![s] = Digest(run, Parsed(s))]
       /\ unsearched' = unsearched \ {s}
  /\ GoTo("candidates", Tail(todo))
  /\ UNCHANGED <<status, errors, jobs, listed, reports, match, summary, html>>

NoReports ==
  /\ In("bugs", "candidates") /\ todo # <<>>
  /\ LET s == Head(todo) IN Parsed(s) = {} /\ (Files(s) # {} \/ ~ConfirmedNoFailures(s))
  /\ Abort("reports")
  /\ UNCHANGED diskVars

\* Every source is searched before anything is published.
SearchJira ==
  /\ In("bugs", "candidates") /\ todo = <<>>
  /\ GoTo("publish", ActiveSources)
  /\ UNCHANGED diskVars

JiraFails ==
  /\ In("bugs", "candidates") /\ todo = <<>>
  /\ Abort("jira")
  /\ UNCHANGED diskVars

Publish ==
  /\ In("bugs", "publish") /\ todo # <<>>
  /\ match' = [match EXCEPT ![Head(todo)] = cand[Head(todo)]]
  /\ GoTo("publish", Tail(todo))
  /\ UNCHANGED <<status, errors, jobs, listed, reports, cand, summary, html, unsearched>>

\* merge, categorize and report, which may reject the merged candidates.
Categorize ==
  /\ In("bugs", "publish") /\ todo = <<>>
  /\ NextStage \/ Abort("categorize")
  /\ UNCHANGED diskVars

\* The timer or a signal kills the child in any phase.
BugsKilled ==
  /\ plan # <<>> /\ Head(plan) = "bugs" /\ phase # "enter"
  /\ Abort("killed")
  /\ UNCHANGED diskVars

(***************************************************************************)
(* finalize: aggregate.py for each release, then create-report.py          *)
(***************************************************************************)
\* aggregate.py leaves the old summary when it finds no report that parses.
Aggregate ==
  summary' = [r \in ToSet(Releases) |->
    IF Parsed(r) # {} THEN Digest(run, Parsed(r)) ELSE summary[r]]

\* Releases shown with zero failures: no summary, no error, an empty list.
ShownClean == {r \in ToSet(Releases) :
  summary'[r] = NoFile /\ r \notin errors /\ status[r] # "absent" /\ jobs[r] = {}}

\* A summary of a release, or the file of pull requests, is needed.
AnyData == (\E r \in ToSet(Releases) : summary'[r] # NoFile) \/ status[Rebase] # "absent"

Finalize ==
  /\ In("finalize", "enter")
  /\ Aggregate
  /\ AnyData
  /\ html' = [run |-> run, summary |-> summary', match |-> match, clean |-> ShownClean]
  /\ NextStage
  /\ UNCHANGED <<status, errors, jobs, listed, reports, cand, match, unsearched>>

\* Not fatal: a run with more stages goes on.
FinalizeFails ==
  /\ In("finalize", "enter")
  /\ Aggregate
  /\ ~AnyData
  /\ LeaveStage("no data")
  /\ UNCHANGED <<status, errors, jobs, listed, reports, cand, match, html, unsearched>>

WorkdirStep ==
  \/ StartRun
  \/ StartPrepare \/ CollectFails \/ CollectNoFailure \/ CollectFailures
  \/ Prepared \/ PrepareFails
  \/ Analyze
  \/ StartBugs \/ PrepareCandidates \/ NoReports \/ SearchJira \/ JiraFails
  \/ Publish \/ Categorize \/ BugsKilled
  \/ Finalize \/ FinalizeFails

WorkdirSpec == InitWorkdir /\ [][WorkdirStep]_workdirVars

(***************************************************************************)
(* Properties                                                              *)
(***************************************************************************)
Digests == [run : 0..MaxRuns, of : SUBSET Runs]

\* The types of the files: jobs files and reports only name builds of their
\* own source, and every digest is of runs that were started.
WorkdirTypeOK ==
  /\ run \in 0..MaxRuns /\ withPRs \in BOOLEAN
  /\ plan \in Seq({"prepare", "analyze", "bugs", "finalize"})
  /\ phase \in {"enter", "collect", "candidates", "publish"}
  /\ todo \in Seq(Sources)
  /\ ended \in {"none", "finished", "prepare", "reports", "jira", "categorize",
               "killed", "no data"}
  /\ status \in [Sources -> Statuses]
  /\ errors \subseteq Sources /\ listed \subseteq Sources /\ unsearched \subseteq Sources
  /\ \A s \in Sources :
       /\ jobs[s] \subseteq Names(s)
       /\ reports[s] \in [Names(s) -> -MaxRuns..MaxRuns]
       /\ cand[s] \in Digests /\ match[s] \in Digests
  /\ summary \in [ToSet(Releases) -> Digests]
  /\ html.run \in 0..MaxRuns /\ html.clean \subseteq ToSet(Releases)

\* A run that stops for missing reports or for Jira has published no
\* mapping, whatever it had already prepared: main_pipeline aborts
\* "before publishing any mapping".
AbortPublishesNothing ==
  ended \in {"reports", "jira"} => \A s \in Sources : match[s].run < run

\* The HTML report shows a release with zero failures whose collection failed
\* or found failures, of which no artifact could be downloaded, only if no bug
\* search has taken that release since it was collected, in whatever order the
\* stages were asked for and over several runs in one directory: the search
\* stops a run before finalize could say so, and with it the default list.
NoFalseClean ==
  [][html' # html => \A r \in html'.clean : status[r] \in {"clean", "empty"} \/ r \in unsearched]_workdirVars

(***************************************************************************)
(* Statements of the code's comments that later runs can refute            *)
(***************************************************************************)
\* "A release with no failed jobs has a non-empty, failure-free status
\* file and no release-<source>-error.txt": no run stops for missing
\* reports when every source it treats is healthy.
HealthyRunNotStopped ==
  ended = "reports" => \E s \in ToSet(ActiveSources) : status[s] # "clean" \/ Files(s) # {}

\* "Healthy source ... Publish an empty candidate set so the pipeline
\* completes": the finalize stage of a run in which every release is
\* healthy does not fail for lack of data.
HealthyRunCompletes ==
  ended = "no data" => \E r \in ToSet(Releases) : status[r] # "clean"
=============================================================================
