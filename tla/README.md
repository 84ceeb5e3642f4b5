# Verification of edge-tooling

TLA+ models of the programs of this repository that keep state over several
steps, processes or runs, the TLC configurations that check them on small
instances, and TLAPS proofs of the properties that matter most for every
instance. Paths below are relative to the root of the repository.

    tlc -workers 2 -config MCDoctorPool_safety.cfg MCDoctorPool     # check a run
    tlapm DoctorPoolProofs.tla                                       # check the proofs

`PROJECT.json` is the machine-readable index: components, runs, a mutant for
every property (a plausible bug in one mapped definition that makes the
property fail), the map from definitions to source lines, findings, hazards
and theorems.

## 1. Inventory

`plugins/` abbreviates `src/plugins/`. The doctor pipeline is the largest
program: `plugins/shared/scripts/run-doctor.py` drives it for microshift-ci and
lvms-ci.

| Component | State it keeps | Operations | Interacts with | Modelled by |
|---|---|---|---|---|
| doctor-stages (`run-doctor.py`) | current stage, prepare summary, `had_errors`, registry of live children | run the stages in order; prepare, graphs, bugs, finalize are one child with a timer each | `doctor-helper.sh`, `search-bugs.py` as children; signals | `DoctorStages` |
| doctor-analyze (`run-doctor.py`) | executor queue, worker threads, claude processes, `_active_children`, report files | clear old reports, acquire predecessor reports, submit, collect, time out, save | claude sessions, GCS, the signal handler of the main thread | `DoctorPool`, `JobBatch` |
| doctor-workdir | the files of one work directory, which outlive a run | prepare, analyze, bugs, finalize read and write them | every script of the pipeline | `DoctorWorkdir` |
| bug-correlation (`parse.py`, `search-bugs.py`, `jira_search.py`) | candidate lists, queries left, evidence, merged list, results | group, cluster, ask Jira, merge by key, decide, validate | Jira, while bugs are opened and closed; reports | `BugCorrelation`, `BugSearch` |
| doctor-artifacts, rca-validation, doctor-report | downloads; attempts of a Stop hook; none | download, validate, render | GCS, claude sessions, work directory | - |
| microshift-ci (`fix-test-bugs.sh`) | one clone with its index and branches; fork and pull requests | check, clone, cleanup-stale-branches, branch, submit | an agent's session, GitHub | `FixTestBugs` |
| edge-ocp-rc (`launch.sh`, `status.sh`) | job files, run directories, tracking JSONs | launch in waves, relaunch failed, status, watch, refresh | Prow (gangway), GCS, Sippy | `RcLaunch` |
| release-request (`request_release-to-art.sh`) | host lock; tickets and links in Jira | find or create ART and QE tickets, link, notify | Jira, Slack, other runs | `ArtRequest` |
| release-ci-testing (`prow_testing.py`) | pull request, branches, comments, S3 objects | create-pr, trigger, complete, download, upload | GitHub, Prow, S3 | `ProwTesting` |
| release-evaluation (`precheck_xyz.py`) | the evaluation of one version | query by query, then recommend | catalog, git, Jira, GitLab | `ReleaseEvaluation` |
| release-checks (`validate_artifacts.py`, `advisory_promotion.py`, `errata_promotion.py`, `post_release.py`, `precheck_ecrc.py`, `precheck_nightly.py`) | none | one report of checks each | GitLab, Brew, catalogs, mirror, Errata Tool, portal, release controller | `AdvisoryChecks`, `ArtifactChecks`, `PublishedChecks`, `BuildPrechecks`, `ReleaseChecks` |
| pr-review (yolo-agent) | state in a variable and a `/tmp` file, iteration count, comments | sessions, Stop hook, gather, push, reply, label | GitHub, CI, reviewers | `YoloAgent` |
| next (`handoff.py`, `register.ts`) | the note of a directory, the state of each terminal | write, arm, read, clear, resume | sessions, hooks | `Handoff` |
| workspace (`consolidate-project.py`) | `CLAUDE.md` and `progress-archive.md` of a project | consolidate | the user and other skills editing | `ProjectNotes` |
| edge-scrum (`run-checks.py`) | none | features and stories to risk, load, cut line | Jira, while the team works | `ReleasePlanning` |
| gh-notifier | none | one daily run over pages, decisions, dashboard, message | GitHub, Slack | `PrNotifier` |
| payload-monitor | the timing cache between builds; the payloads of one run | seed, collect, prune, publish; list payloads, ask their details in parallel, sort, analyse | Sippy, GCS, other builds, release controller | `PayloadTiming`, `PayloadReport` |
| watchman (`lambda_function.py`) | events and watermark in DynamoDB | hourly sweep, weekly report | EC2, Slack | `Watchman` |
| openshift-tests (`run-suite.sh`, `run-test.sh`) | pid file of the captures | choose tests, start and stop captures, run, repeat | the test binary, followers, signals | `TestRunner` |
| lvms, edge-ic, two-node, skills, infrastructure, readiness-report, repository | none | agent skills, single helpers, deployments, a Go query, linters | | - |

What is hard to test here (`PROJECT.json` "hazards" has each one at its line,
with the properties aimed at it), and what makes each component correct:

* **doctor-analyze**: a signal in the main thread at any point of any worker,
  `sys.exit` unwinding through the executor's join, a timeout racing the end of
  a session, files that cannot be unlinked or written. No claude session
  outlives the process; every job gets one result that agrees with its report;
  reuse is honest; the stage ends.
* **doctor-stages**: a timer past its own cancelled check, a signal between
  `Popen` and `_register_child`, an old summary. Fatal stages are fatal; the
  exit status tells the truth; the handler hits the right children; it ends.
* **doctor-workdir**: every file is written by one run and may be read by a
  later one. An aborted run publishes nothing; no release looks clean that is not.
* **bug-correlation**: first-fit clustering with a relation that is not
  transitive, a greedy merge whose key sets shrink, missing dates. No failure
  is lost, counted twice, merged without a common bug or dismissed by mistake. A
  query cut at a page costs no bug its evidence while a narrower query is whole.
* **edge-ocp-rc**: directories made before anything is launched, numbers of one
  list used on another. Only failed jobs are launched again; the watch ends.
* **release-request**: kills anywhere, a lock of one machine, requests applied
  although the answer is lost. One ticket per release, linked before it is told.
* **release-ci-testing**: two views of a job, one of which lags; commands killed
  between two effects. What is tested again had failed, as far as the bucket and
  GitHub tell; S3 has finished results.
* **release-evaluation**, **release-checks**: queries that fail each in its own
  way. A landed CVE decides; a green report means a release fit to ship.
* **pr-review**: reviewers and CI act during a session, a session ends anywhere.
  "Ready" means answered and pushed; the loop ends.
* **next**: two terminals, one note. It fires once, but for the sessions that
  overlap. **workspace**: a run dies
  between two files. What is dropped is in the archive.
* **openshift-tests**: signals between launching a capture and writing its pid,
  and while the captures are stopped. Captures end with the runner; the tests run
  are those selected.
* **gh-notifier**: pages shift while they are read. **payload-monitor**: builds
  overlap and lose requests, answers come in any order or not at all; a measured
  duration stays, and a lost answer hides trouble but makes none. **watchman**: reports
  overlap, repeat and fail; none passes an event untold. **microshift-ci**:
  calls fail or end between stage and pull request; fixes do not mix.
* **edge-scrum**: shares and sums of small numbers that may be zero; work
  counted twice or not at all.

## 2. Modules

Each component is one module without TLC's values: constants with a named
assumption, `VARIABLES`, one action per operation. They are composed where the
code composes them (`DoctorPool` implements `JobBatch`; `ReleaseChecks` runs the
operators of the three check modules against one release). Programs that share
no state are checked in one run as the parts of a union (`MCLoops`, `MCReport`,
`MCRelease`): `part` says which of them moves, the others keep their initial
state, so that the state space is the sum of theirs and not the product. Such a
module EXTENDS its parts, so that TLC evaluates their assumptions and checks the
very properties the theorems name. A definition whose comment begins with
"Mutant" is a bugged variant that no specification uses; it shows that a property
can fail.

| Module | Models | Checked through |
|---|---|---|
| `DoctorPool` | the analyze stage: main thread, workers, sessions, signals | `MCDoctorPool` |
| `JobBatch` | what the analyze stage promises, without threads, files or signals | as `ImplementsBatch` of `DoctorPool` |
| `DoctorStages` | the loop over the stages, their children and timers, the signal handler | `MCDoctorStages` |
| `DoctorWorkdir` | the files of the work directory over several runs | `MCReport`, `MCDoctorWorkdir` |
| `BugCorrelation` | candidates, merge and decisions as pure operators in four pipeline steps | `MCReport`, `MCBugCorrelation` |
| `BugSearch` | the queries of the bug search, their pages and retries, and what counts as evidence | `MCReport` |
| `ReleasePlanning` | activity, load, pace, risk and cut line of a release while the team works | `MCReport` |
| `ProjectNotes` | the notes and the archive of a project | `MCReport`, `MCProjectNotes` |
| `PrNotifier` | one daily run against a server that moves | `MCReport` |
| `PayloadTiming` | the timing cache over builds that overlap | `MCReport` |
| `PayloadReport` | the payloads of each stream, fetched in parallel, and what follows from them | `MCReport` |
| `Watchman` | sweeps and reports over one table | `MCReport` |
| `RcLaunch` | `launch.sh`, Prow and `status.sh` over the run directories | `MCLoops`, `MCRcLaunch` |
| `YoloAgent` | sessions, Stop hook, thread by thread conversation, CI | `MCLoops` |
| `Handoff` | the note, the hooks and the terminals of one directory | `MCLoops` |
| `TestRunner` | choice of tests, captures and signals | `MCLoops` |
| `ProwTesting` | the commands of one operator, Prow, the bucket, S3 | `MCRelease` |
| `ReleaseEvaluation` | the evaluation of one z-stream version | `MCRelease` |
| `AdvisoryChecks`, `ArtifactChecks`, `PublishedChecks` | each check as an operator from what the services answer to a status | `ReleaseChecks` |
| `BuildPrechecks` | what the two prechecks say of a pre-release or a nightly stream | `ReleaseChecks` |
| `ReleaseChecks` | the six tools against a release that differs from a complete one | `MCRelease`, `MCReleaseChecks` |
| `FixTestBugs` | sessions of fix-test-bugs, the clone, the fork, pull requests | `MCRelease` |
| `ArtRequest` | overlapping runs of `request_release-to-art.sh` with Jira and Slack | `MCArtRequest` |
| `Lists` | filtered and sorted lists, stated by the place of each element, so that the provers can reason about them | with the modules that use it |
| `DoctorPoolProofs`, `DoctorStagesProofs`, `ArtRequestProofs` | theorems and proofs about the module of that name | tlapm |
| `LoopProofs` | the same about `RcLaunch`, `Handoff`, `YoloAgent`, `TestRunner` and their union `MCLoops` | tlapm |
| `RecordsProofs` | about `DoctorWorkdir`, `Watchman`, `PayloadTiming`, and with `ReportProofs` about the union `MCReport` | tlapm |
| `ReleaseProofs` | about `ProwTesting`, `ReleaseEvaluation`, `ReleaseChecks` with its check modules, `FixTestBugs` and their union `MCRelease` | tlapm |
| `ReportProofs` | about `ReleasePlanning`, `PayloadReport`, `ProjectNotes`, `BugSearch`, `PrNotifier`, `BugCorrelation` | tlapm |
| `FoldLemmas` | induction, sums, and what folds, filters, sorts and flattened lists compute | tlapm |

### The doctor pipeline

`DoctorStages` takes the analyze stage as one step; `DoctorPool` is the inside
of that step; `DoctorWorkdir` abstracts both to the files they leave, with
`BugCorrelation` the inside of its bugs stage.

**DoctorPool** has one variable per piece of state of the code: `mpc` the
position of the main thread, `uncleared`/`unacquired` the rest of its two
loops, `submitted`/`taken` the executor's FIFO queue, `wpc`/`wjob` the workers,
`child` the process group of each session, `registered` = `_active_children`,
`report` the kind of file at `jobs/<output_name>` (`stale` from an earlier run,
`predecessor` materialized, `truncated` half written, `fresh`), `outcome` the
futures, `collected` the results dict, `warned` the "Could not clear stale"
messages. Each loop turn, `submit`, `Popen`, `_register_child`, return of
`wait`, `_unregister_child` and save is an action of its own, because the
handler may run between any two. `SignalHandler` is the handler and what its
`SystemExit` does next: before the `with` block the process ends, inside it the
executor's `shutdown(wait=True)` joins the workers (which go on with the queued
futures), in that join it reaches the interpreter's exit join, and there it
ends the process. The two loops go over a set of paths, hence in any order.

**DoctorStages**: `pc` and `step` the main thread; `child`, `reaped`, `code`,
`registered` and `timer` per stage, because a late timer belongs to an earlier
stage; `stray` collects what the handler signals after it was reaped. `Return`
is the one place that decides fatal or not. `Cleanup` holds the difference
between `run_doctor_sh` (unregisters) and `bugs` (does not). `ReadFails` is the
exception of the log write or the decode while the pipe is read, `TimerFails`
that of a timer that cannot start: both leave the child alone, and end the
stage or, with the exit "raised", the run. A `firing` timer is
past `threading.Timer`'s own check of the cancelled flag.

**DoctorWorkdir**: every file carries the number of the run that wrote it, and a
report the run whose session wrote it, negated if it cannot be parsed. Report
names hold the index of the job in the jobs file and its build, as `analyze`
forms them, so that reports of earlier runs stay under other indices. `listed` is
`prepare-summary.json`, by which analyze knows the sources, an earlier run's if
this one did not prepare; a run may have any list of stages. A source
is a release or `rebase-release-<r>`. `Analyze` and `Categorize` are one step
each; both may fail in every way they can.

**BugCorrelation**: four deterministic steps; the nondeterminism is in
`InitCorrelation`: `failed`, the jobs, and `accepted` and `fixed`, the open and
closed bugs Jira answers for each signature. Texts
are compared by a relation `Similar` (symmetric, not transitive) in place of the
token ratio. `Step` models `normalize_step_name` on names that were joined by
", ". Sort orders with several keys are weights with a bounded range each.

**BugSearch** is the inside of those answers. A term is a word, a bare test ID
or an OCP ID. `asked` are the candidates, `unasked` the queries still to send,
in the code's order; `Answer` takes any one page of what matches at that
moment, because the code reads the first page only, and `hits` records each bug
with each term of its query. `standing` changes meanwhile and `moved` remembers
whose did. The inventory is read page by page, and Jira may say "last" late.

### Loops

**RcLaunch** keeps two orders of the run directories, because the scripts differ
in what they call the newest: `made` (`status.sh` takes the last changed
`runs/<name>`) and `dirs` (`launch.sh` takes the last changed
`runs/<name>/<topology>`, which changes with every tracking file). `Start` keeps
the order of the code: directory first, token check second. `Numbers` and
`AtLine` are the two concatenations that must agree.

**YoloAgent**: `state` is the session's copy, `env` what the Stop hook's process
was started with, `file` the saved one; `next` what is to be restarted with.
A thread is a sequence of comments, of which a page is visible; `gathered` is
what this cycle has read, `ahead` a commit that is not pushed. `Ci`, `Comment`
and `Resolve` may come between any two steps of `Cycle`.

**Handoff**: `note` and `consumed` are the two files, a terminal has a `phase`
and a `queued` command; `given` is the note a session was injected with and
`spent` those injected before. A call of `handoff.py` is as many steps as it
has effects on the files: the hook reads (`ReadNote`) and then retires whatever
is at the path by then (`Retire`), which may fail unnoticed; arm reads
(`ArmRead`) and writes back (`ArmWrite`). A session may end between them.

**TestRunner**: `plan` are the selections to run, `asking` what the binary was
told and `ran` what it ran, since `--run` takes a superset for a profile.
`lines` counts the lines of the pid file; a capture is launched (`forked`)
before its line is written (`recorded`). Ctrl-C kills the foreground command,
TERM waits for it. `stop_captures` forgets the file in one step and calls
`stop-all-captures.sh` in the next, and either signal may come between them and
in the trap of the end; `lost` and `torn` are the windows the code leaves.

### Reports and records

**ReleasePlanning** changes a feature or a story by a team that works, and
evaluates the report's operators in every state; ratios are compared cross
multiplied, so nothing is rounded. **ProjectNotes** has `WriteArchive` and
`WriteNotes` as two steps of a run that may die between; items have a number of their own,
so that two of the same text differ. **PrNotifier** keeps the order of the
server's list; `touched` and `closed` say what changed since the first page.
**PayloadTiming**: a cache is the set of runs it has and of those with a
duration; `seeded` is the build a cache came from. **PayloadReport**: `waiting`
are the requests of the thread pool, whose answers come in any order, empty or
in a form the code drops; `history` is what the release controller holds,
against which the outcome is compared. **Watchman**: a report asks
at `end`, which it takes before it reads anything; `missedBy` of an event are
the reports that had asked already for the time it is stamped with. `told` means
counted: the digest names the first 30 events of a region, up to 2800
characters, and gives the number of the others.

### Releases

**ProwTesting**: a command is a record with its step and what it has read; a
build has a result, is `listed` in the bucket or not yet, and is active for
GitHub at once. **ReleaseEvaluation** goes query by query; each failure ends the
evaluation or becomes an empty answer, as in the code. The **checks** are
operators of a version `v` and a world `w`; `ReleaseChecks` starts from a
complete release and changes a few fields. `validate_artifacts.py` and
`advisory_promotion.py` run with `--json` or without. `Promotable`, `Shippable` and the
like (`EcrcReady`, `NightlyFresh` for the prechecks) state what a release must
have without using the checks. **FixTestBugs**:
a group stands for its edits, the index, the tree, a commit and a branch are
sets of groups; a branch on the fork is what it holds beyond upstream/main,
nothing once it was merged. **ArtRequest**: control states are pairs of a phase
and its object. A request is put on `wire` and served, stored without an
answer, or lost, at any time, also after its run has ended. `Dies` runs the EXIT
trap, `Killed` does not. `Reconciled` states the one thing the script asks of
its operator ("Reconcile manually before retrying"): no run starts, and no
stale lock is removed, while a request of an ended run may still arrive.

## 3. Runs

| Run | Bounds | Distinct states | Shows |
|---|---|---|---|
| `pool_safety` | 3 jobs, 2 workers, 3 signals, unlinks and writes may fail | 361,000 | `NoOrphans`, `ReuseIsAcquired`, `HandlerMissesOnlyUnregistered`, `StageEnds`, and that the pool implements `JobBatch` |
| `stages_safety` | microshift's five stages, old summary on disk | 108,861 | `FinalizeNeedsBugs`, `ExitStatusTold`, `SignalHitsItsChild`, `RunEnds` |
| `loops` | rc: 2 calls with all options, waves of 1, 2 executions, 2 lists; yolo: one thread of 4 messages, limits 0 and 2; next: 2 terminals, 2 notes, 2 ticks; tests: 3 tests, 2 captures, 12 command lines, 2 listings | 1,001,330 | `RelaunchesFailures`; `LabelIsEarned`; `RepetitionEnds` (the watch and the agent's loop); `FiresOnce`; `CapturesStopped`, `RanWhatWasSelected` |
| `report` | workdir: one release with 2 builds, its rebase PR with 1, 2 runs, 4 lists of stages; bugs: two sources with up to 2 and 1 jobs of 7 kinds, and one that names no error, 4 x 4 answers of Jira; planning: 3 stories, 4 steps; notes: 4 items, 2 days; notifier: 5 pull requests, pages of 2; timing: 2 runs, 3 builds, 3 days; watchman: 1 instance, 2 regions, 3 reports, 3 ticks; monitor: 4 payloads of one version and 1 of another; queries: 2 bugs of 5 texts, pages of 1 | 1,782,010 | `AbortPublishesNothing`, `NoFalseClean`; `EachJobWhereItBelongs`, `NewFailureNotStale`; `NothingPromisedTwice`, `WorkDoneIsEvidence`; `DroppedIsArchived`; `UntouchedListed`; `MeasuredKept`; `PassedIsTold`; `BugsMeanTrouble`; `EvidenceNotLost` |
| `release` | prow: one job, 3 builds; evaluation: 2 CVEs, one bug, 5 trackers; checks: 6 versions, 2 changes; fix: 3 bugs, 2 pull requests, 3 sessions | 3,220,292 | `UploadsFinished`, `OnlyFailedTriggered`; `CvesDecide`; `GreenMeansFit`; `PullIsItsGroup` |
| `art_request` | 2 runs on 1 or 2 hosts | 953,808 | `OneTicketPerHost`, `LinkedBeforeTold` |
| `workdir_stale_error`, `workdir_green_run` | as in `report`, 2 runs and 1 | until found | violate `HealthyRunNotStopped`, `HealthyRunCompletes` |
| `correlation_schema` | as in `report` | until found | violates `ResultsMatchSchema` |
| `rc_relaunch` | 3 calls, 1 list | until found | violates `LatestFailuresFound` |
| `archive_loss` | as in `report` | until found | violates `NothingLost` |
| `checks_missing` | 1 change | until found | violates `EveryCheckReported` |

Every passing run also checks the type invariants of its modules. The passing
runs take from 15 seconds to three minutes with two workers.

### Exceptions stated in the properties

Where the code leaves a window, the property names it, and the hazard says what
happens in it; nothing else may go wrong.

* `NoOrphans` counts on fewer than three signals; `SignalHitsItsChild` names the
  child between `Popen` and registration, the child left alone after a failed
  read, decode or log write or a timer that cannot start, and the reaped child of
  `bugs`.
* `FiresOnce` names the hook that had read the note before it was injected or
  deleted, the note that an arm wrote back, and the one that could not be retired.
* `NoFalseClean` names the release that no bug search took since it was
  collected (`--stages prepare,finalize`, or `analyze,finalize` after a run that
  the bugs stage stopped).
* `ReuseIsAcquired` excludes stale files the diagnostics name, and the torn file
  of a copy that failed half way (`_atomic_write_text` writes in place).
* `OneTicketPerHost` is per host: the lock is a directory of one machine.
* `RepetitionEnds` excludes a watch of tracking files without a URL.
* `LabelIsEarned` speaks of threads of one page, and of pushes in the
  interactive loop: a session that the Stop hook restarted takes the clean tree
  after a failed push for nothing to push.
* `CapturesStopped` excludes a capture whose pid a Ctrl-C kept from the file, a
  stop that a Ctrl-C cut short, and one that any signal kept from beginning:
  after `stop_captures` forgot the file, or once the trap of the end has begun.
* `OnlyFailedTriggered` names what the queries did not tell: a build that the
  bucket does not show, or whose files did not load, while GitHub's checks failed
  or the build began after they answered.
* `CvesDecide` speaks of the CVEs that were read: an advisory that could not be
  read is left out silently, so a version may be skipped with one unread
  (`SkipKnowsAdvisories` states the opposite, and does not hold).
* `GreenMeansFit` goes by the exit of a run in text; with `--json` the exit of two
  tools is 0 whatever FAILed, and the property goes by the statuses. It excludes
  an image whose second answer of the mirror is missing.
* `UntouchedListed` excludes runs during which a pull request closed: the rest
  of the list moves up by one, possibly to a page that was read already.
* `EvidenceNotLost` excludes bugs that were opened or closed during the search,
  and speaks of terms whose own query was not cut.
* `BugsMeanTrouble` excludes payloads whose answer had another form (they are
  dropped, and their neighbours count as one after the other), and hides nothing
  only when all answers came.
* `PassedIsTold` excludes an event stamped before and written after a report
  asked (it is in no report), and what the first report cannot reach back to.
* `PullIsItsGroup` excludes what a submit staged and did not commit: it stays in
  the index, which `branch` restores the tree from.

### Why the bounds are enough

* Three jobs on two workers is the smallest pool with a queued job behind busy
  workers. Three signals reach every position the handler can leave the main
  thread in (join, exit join, end).
* The stage list has every kind of stage, both fatal ones, and a stage on
  either side of each. The proofs cover all other lists.
* Two doctor runs are one that leaves files and one that finds them. Two builds
  change their index between runs; one would not. The rebase source is the only
  kind of second source with rules of its own. Three failed jobs give both a
  chain of similar texts and a merge over two sources after a merge in one; the
  answers include a chain of keys, a common key, no key, and closed bugs with
  and without a day.
* Two calls of `launch.sh` are one that fails and one that launches again; the
  second list has a job inserted before the others, so that numbers shift. A
  wave of 1 makes a pause after each job. `rc_relaunch` needs three calls: one
  that launches, one that launches nothing, one that looks back.
* A thread of four messages has a question, an answer, a second question and its
  answer; a limit of two sessions has one restart. Two notes are one that is
  spent and one that is written over it. Two captures and two repetitions have
  every order of launch, line and signal.
* Three builds of a cache are a source, a build that starts from it, and one
  that overlaps; three reports are one that fails, one that overlaps it and one
  after; pages of two with five pull requests shift in the middle.
* Two bugs and pages of one are the smallest search in which a page is cut; five
  terms, one an OCP ID, are one more than the code keeps. Four payloads have one
  that is not terminal and a row of failures that a gap or a success interrupts.
* Two items over the threshold, on two days, are one that is archived and one
  that is kept. Two CVEs are one that needs a release and one that must not hide
  it. Two changes to a complete release are one that breaks a check and one that
  could silence it; three pull request changes of one clone need three sessions:
  one that opens, one that is ended, one that reuses the directory.
* Two runs on two hosts of `request_release-to-art.sh` cover sharing a host and
  not. Runs and hosts are interchangeable (`SYMMETRY`; the run has no liveness
  property). More runs are covered by the proof of `OneTicketPerHost`.

Deadlock is checked in `pool_safety` and `stages_safety`, which end in explicit
stuttering. The other configurations say `CHECK_DEADLOCK FALSE`, because there
the system may really stop: all runs are over, a session is closed, the table
of a closed week does not change any more.

### Fairness

* `DoctorPool`: weak fairness of the main thread and of each worker (the
  operating system schedules threads; this includes the session timeout, which
  `wait(timeout)` delivers), and of `SessionObeysSigterm`: a claude process that
  got SIGTERM ends. The last is an assumption about claude; the code waits
  without a limit after SIGTERM, and a session that ignored it would block the
  stage. Nothing makes a session end by itself, and no signal is assumed.
* `DoctorStages`: weak fairness of the main thread (its failures, `ReadFails` and
  `TimerFails`, are not fair) and of each timer, and
  a child that got SIGTERM exits. A child that did not may hang for ever.
* `RcLaunch`: weak fairness of the launcher, of Prow finishing each execution
  and of a round of the watch in which `finished.json` can be read.
* `YoloAgent`: weak fairness of `Cycle`: the session goes on or ends, the hook
  runs, the restart wakes up. Reviewers and CI are not fair.

The other modules have no liveness property: what must eventually happen there
depends on somebody calling again.

### Findings (the violation runs)

1. `workdir_stale_error`: `release-<r>-error.txt` of one failed collection is
   never removed. A later run in which every release is healthy stops in the
   bugs stage, against `search-bugs.py:514-516`.
2. `workdir_green_run`: a run without any failure and without
   `--pull-requests` fails in finalize ("no analysis files found"), against
   `search-bugs.py:1255-1257` and `create-report.py:2419-2426`.
3. `correlation_schema`: merged groups of different steps may carry one
   signature, which `_validate_results` rejects, against
   `search-bugs.py:1134-1136`.
4. `rc_relaunch`: `launch.sh:528` makes the run directory before the token
   check, so a call that launches nothing becomes "the latest run" and hides the
   failures of the one before, against `launch.sh:87`.
5. `checks_missing`: a shipment whose YAML cannot be read, or that has not
   exactly one, leaves checks out of the report (`lib/artifacts.py:584`), against
   the "all checks shown including skips" of `skills/check-artifacts/SKILL.md:136`.
6. `archive_loss`: a section consolidated twice on one day loses the items of
   the second time: the block is skipped as a duplicate and the items are
   removed all the same (`consolidate-project.py:305`), against
   `skills/consolidate-project/SKILL.md:16`.

Smaller disagreements seen while modelling, without a run: the rebase mappings
of an earlier run are found by a glob (`create-report.py:1611`) although
`search-bugs.py:1352` speaks of the sources of this run; the comma of joined
step names stays in the bucket key (`parse.py:112-118`); the release issue and a
merged candidate may have different types although `classify.py:4-5` calls
itself the single source; the watch of `status.sh` says "complete" during a wave
pause; the final count of `launch.sh` includes skipped jobs; `SKILL.md:201` of
fix-test-bugs says the script reverts all changes after a push error or an empty
diff, and `cmd_submit` does so only after the two directory checks; its title
carries the first key alone, so that `check` does not find a group by another;
the README of watchman says "the next one catches up", which the first report
cannot; `precheck_ecrc.py` says "OK" of a pre-release of another type than was
asked for, and knows only versions 4; a job that informs in the first version
where it fails and blocks in another is not suggested as a blocking one
(`PayloadReport` `FirstFailure`); an answer about a payload that never came is
not among the data errors of the report; with `--json`, which
`skills/check-artifacts/SKILL.md:54` passes on, `validate_artifacts.py:647-656`
and `advisory_promotion.py:782-790` exit with 0 although checks FAILed, and line
154 says "Exit code is non-zero if any check returns FAIL"; `cmd_trigger` says
"trigger failed CI jobs only" (`prow_testing.py:672`), and a job that passed is
tested again when its `latest-build.txt` does not load; `handoff.py:173` says of
a retired note "so it cannot fire twice" and `plugins/next/README.md:71` "Single
use", which two sessions that start together, an overtaken arm or a failed
retirement break.

## 4. Proofs

Checked by tlapm for every value of the constants, from the named assumption
of each module only (`PoolAssumption`: at least one job and one worker;
`StagesAssumption`: a list of known stages; `ArtAssumption`: `Nobody` is
neither a run nor a ticket; the assumptions of the other modules type their
constants, say which of them are finite, and that pipeline orders name nothing
twice). TLC evaluates the assumptions in every run.

| Module | Theorems | Inductive invariant and why it is needed |
|---|---|---|
| `DoctorPoolProofs` | `TypeCorrect`, `NoOrphansHolds`, `HandlerMisses` | `TypeInv` adds to `TypeOK` that main has a job left while it submits (`SubmitRoom`), which bounds the queue, and that exactly busy workers have a job. `SessionInv` says that workers have different jobs, that a busy worker's job was taken from the queue, that every live session belongs to a worker between `Popen` and `_unregister_child`, that a waiting worker's job is registered, and in which order signals lead to the exit. A join then finds all workers idle, hence no live session: `NoOrphans`. `HandlerMisses` follows because a live session that is not registered has its worker at "spawned". |
| | `ReuseHolds` | `ReuseIsAcquired` speaks of decided jobs, and a report may change until its job is decided. `DecisionInv` adds that the job of a worker and every job still queued are pending, what a stale or predecessor file on disk tells of the two loops of main (`StaleWarned`, `PredecessorAcquired`), and that fresh files and reuse belong to decided jobs only. |
| | `PoolImplementsBatch` | The initial states map to an initial state of `JobBatch`, and from `SessionInv` and `DecisionInv` each action maps to one step of it or to none: a signal to its abort, the end of the join to the end, a decision to a decision; `AliveOwned` and `WorkersApart` bound the live sessions by the workers. |
| `DoctorStagesProofs` | `StagesTypeCorrect`, `FinalizeNeedsBugsHolds`, `ExitStatusToldHolds` | `StageInv`: the current stage has no verdict while its child is handled, stages behind have a verdict and fatal ones a good one, stages ahead have no child; a good verdict means exit code 0; the exit status agrees with the verdicts. |
| | `SignalHitsItsChildHolds` | `SignalInv`: only the current stage has a live child (`LiveIsCurrent`); the child that main reads is registered and the one only just started is not (`RegisteredStarted`); behind the current stage only the child of bugs still is (`RegisteredIsCurrent`); nothing is hit but at the exit. A stage that failed without waiting for its child left it alone (`LeftAlone`). |
| `ArtRequestProofs` | `LockHeld`, `OneTicketPerHostHolds` | `OneTicketPerHost` is not inductive: whether a ticket may appear depends on the requests in flight and on what runs may still ask. `Inv` adds that a run past preflight knows its keys (`KeysKnown`), whose requests are on the wire (`OnTheWire`), that a host has at most one (`OneRequest`) and no other run under its lock meanwhile (`Alone`), and that nothing which may still be created clashes with a ticket there is (`NoneYet`). |
| | `LinkedBeforeToldHolds` | `LinksMade`: a run past the step of a link has that link between its two tickets. It holds because a run gets past a link only by reading it back, links are never removed, and a run's keys do not change once the link step began (`KeysKnown`). |
| `LoopProofs` | `HandoffTypeCorrect`, `FiresOnceHolds` | `NoteTold`: the note at the project's path was injected or deleted before only if an arm wrote it back or it could not be retired (`again`). `FoundTold`: what a hook holds it read before the note was spent, or when it was there again. |
| | `YoloTypeCorrect`, `LabelIsEarnedHolds` | An action property, whose step from "ready" to the label looks only at the state it starts in, so the proof is about what is true there. `ReadyAnswered`: since the gather that returned nothing the agent is the last to speak in each thread it read, because threads only grow. `UnpushedEnds`: a commit that was not pushed leaves only a session that is over or one the hook restarted; `HandedOn` and `OneSession` say which of the two may follow it. |
| | `RelaunchesFailuresHolds` | `NumbersFailed`: every number a call with `--relaunch-failed` still has to launch is that of a job which had failed or been aborted in the directory it scanned. It lasts because executions are only added and a finished one stays as it is (`FailedStays`), because the job files do not change under a call, and because only the last call runs (`LastCall`). |
| | `RcTypeCorrect` | `RcTypeOK` holds that no call launches more jobs than it counted, over two passes through the files that are written apart. `CountedSoFar`: at each place of the loop the counter is the number of selected lines before it, which stays below the number of all (`FoldLemmas`: a part of a sum). `DirsAgree`: the directories by time of creation and by time of change are the same, each once. |
| | `RunnerTypeCorrect`, `CapturesStoppedHolds`, `RanWhatWasSelectedHolds` | `Stoppable`: a capture that runs has its pid in the file, or about to be written, and the file is named or being worked off (`FileNamed`), unless a signal hit one of its windows. `BatchPlan`: the plan repeats the selection and the listing knows all of it when the names go by file. |
| `RecordsProofs` | `WatchmanTypeCorrect`, `PassedIsToldHolds` | The watermark jumps to the `end` of whichever report writes last, so the proof is about windows. `WindowHeld`: the events of a report's window that it does not hold, or has not told, were written after it asked. `BehindCovered`: what lies behind the watermark, or behind the start of a report that reads, is told or excepted. `FirstWeek` and `MarkAccepted` say where a start comes from, `InTime` bounds a report's life, `Flags` ties a report's flags to its step. |
| | `TimingTypeCorrect`, `MeasuredKeptHolds` | `MemoryKept`: from the seeding to the publication a build's memory holds what the cache it started from had. That cache does not change meanwhile, because only a build that is over has an artifact (`PublishedIsOver`) and a build starts from one that is over (`SeedOver`). `Dated`: a cached run had a time stamp when it was fetched, so that "recent" is about its start alone. |
| | `WorkdirTypeCorrect`, `AbortPublishesNothingHolds` | `WorkdirInv`: stage and phase fit the rest of the plan (`PlanFits`), a failed status has its error file (`FailedHasError`). `NothingPublished`: while bugs is ahead or at work, every mapping is of an earlier run. Hypothesis `NoStageTwice`: no stage list names a stage twice. |
| | `NoFalseCleanHolds` | `Searched`: a release is not searched since its collection, or accounted for (`AccountedFor`): failures without a download have a report that can be read. The search refuses any other (`CandidatesAccounted`), and an analysis leaves reports of other jobs as they are (`OthersReports`). For every list of stages. |
| `ReleaseProofs` | `ProwTypeCorrect`, `UploadsFinishedHolds`, `OnlyFailedTriggeredHolds` | `ReadIsTrue`: what a command read of a finished build stays true, because builds that ended do not change. `KeptEnded` holds for the copies, the tarball and the bucket in turn. `OnePull` ties the pull request to the command that makes or completes it. `RunningShown`: a build that runs since before GitHub's checks answered is PENDING to the command. |
| | `EvalTypeCorrect`, `CvesDecideHolds` | `CvesDecide` speaks of the end only. `LookedUp`: every CVE of the report holds what its ticket means, or "pending" when the lookup failed; this lasts because tickets and shipped CVEs do not change afterwards. `LateReport`: an evaluation that ended before the advisories has no report. `Computed`: with one, the answer is the computed one. |
| | `FixTypeCorrect`, `PullIsItsGroupHolds` | `CloneHolds`: what index, tree and branch hold at each step of a group, up to what a failed submit left. `Pushed`: between push and pull request the branch holds its group and is no other pull request's. `OwnBranch`: an open pull request has a branch of its own, which a push of another group cannot overwrite. |
| | `ChecksTypeCorrect`, `GreenMeansFitHolds` | `GreenMeansFit` speaks of a report and of the release it is about, which do not change apart: any difference that happens empties the report (`Happens`). `WorldInv` types what the services may answer. For each tool a lemma says that when none of its checks is FAIL (of a precheck: the label is OK) the release is fit for that step; it follows which checks may warn and which other check is FAIL in the same case. TLC checks two differences, the theorem any number, and any versions. |
| `LoopProofs`, `ReleaseProofs`, `RecordsProofs` | `TypesHold` (of each) | `ImplementsParts`: a behaviour of the union is one of the specification of each part, which stutters while another moves. The types follow from the theorems about the parts. |
| `ReportProofs` | `PlanningTypeCorrect`, `NothingPromisedTwiceHolds`, `WorkDoneIsEvidenceHolds` | Sums over features and stories of any number. `PaceOnce`: the shares of a member add up to no more than the member's load. `FitsTogether`: what is promised is the part of the list up to the last feature that fits and has work left, whose sum is the one that was compared with the capacity. |
| | `MonitorTypeCorrect`, `BugsMeanTroubleHolds` | `MonitorInv`: each payload of a stream is asked for, fetched, lost or dropped (`Accounted`), what was fetched says what the controller holds (`Genuine`), a stream that is done has its payloads in order again, in whatever order the answers came (`DoneInOrder`), and the analysis is that of what came back (`Concluded`). A row of failures among the fetched is then one in the history, but for the payloads the property excepts. |
| | `NotesTypeCorrect`, `DroppedIsArchivedHolds` | `NotesInv`: a run goes by the notes as they are, and each block it will drop is in the archive already, or one of its section and day is. Items have numbers below `made`, so that a new one is in no old block. |
| | `SearchTypeCorrect`, `EvidenceNotLostHolds` | `SearchInv`: each planned query is still to be asked or recorded (`QueriesRecorded`); recorded means that whatever matched it and did not move is in `hits`, or its page was full of others. The pages hold what matches at the time, and the bugs that compete for a place at the end are those of that time or moved. For the types: the inventory alone has further sheets, and the plan asks for it once (`Left`, a weight of what is still to be asked), so the number of sheets stays below its bound. |
| | `NotifierTypeCorrect`, `UntouchedListedHolds` | `NotifierInv`: as long as nothing closes, the pull requests that nobody updated only move back in the list, never in front of a page that was read; those on pages that were read are kept. For the types: an update moves a pull request to the front and leaves the listing without repetition (`StillOnce`), and a closed one is gone from it. |
| | `CorrelationTypeCorrect`, `EachJobWhereItBelongsHolds`, `NewFailureNotStaleHolds` | Counting a job is adding up a weight that is 1 for it and 0 for all others, so `CorrelationInv` speaks of every weight of jobs: the candidates of a source weigh what its failed jobs weigh (`SourcesPrepared`), the merged ones what all jobs weigh (`MergedAll`). A list weighs the same after a stable sort, a partition by step or a placement into clusters (`WeightMoved`, `WeightParts`, `WeightFlatten`). `Coherent`: a group is of one step, or the keys carried along with it are shared by all of it; a join keeps those keys only that both sides share. A fix of a merged candidate is one of a member of its group, which is what `NewFailureNotStale` asks. |
| `FoldLemmas` | lemmas only | See below. |

`FoldLemmas` replaces the induction theorems of the library, which take an
operator and cannot be instantiated here: `LeastNumber` is derived from the
well-foundedness of the naturals, and `Induction`, `SetInduction` and
`PrefixInduction` say of a *set* that it contains every number, subset or prefix.
From them follow the facts about sums over a finite set, `FoldLeft`,
`FlattenSeq` and the operators of `Lists`. `SelectSeq`, `SortSeq` and
`SetToSortSeq` remain opaque to the provers (they take an operator or choose a
sequence), which is why `Lists` defines a comprehension (`Keeping`) and
`sorted()` (`Arranged`) by the place of each element, and modules with theorems
use these.

Each proof has the same shape: the initial states satisfy the invariant, one
lemma or step per action preserves it, the invariant implies the property, and
a last step combines them with PTL. `NextInv` of `ArtRequestProofs` groups the
actions that leave Jira alone in one lemma (`QuietInv`). Theorems about a part
of a union are about that module's own specification, of which every behaviour
of the union is one: `ImplementsParts` proves it of `MCLoops`,
`MCRelease` and `MCReport`.
Statuses and labels of `BuildPrechecks` are chains of IF, because the provers
cannot use a CASE with OTHER as a value.

Only model-checked: the three liveness properties (`StageEnds`, `RunEnds`,
`RepetitionEnds`), which need ENABLED and fairness. Every invariant and every
other action property of the passing runs is a theorem.

One theorem has a hypothesis about the lists of stages, which the code does not
check: `AbortPublishesNothingHolds` is about lists that name no stage twice,
because `prepare,bugs,bugs` may abort in the second search when the first has
published. The others hold of any list, `analyze,finalize`, the example of the
usage text (`run-doctor.py:349`), included: that run after one which the bugs
stage stopped finalizes what it was stopped for, which is the exception
`NoFalseClean` names.

## 5. Not modelled, and why

`PROJECT.json` "components" gives the reason for each, and says of each partly
modelled one what is left out. In short: rendering and layout (doctor-report,
the reports of payload-monitor, edge-scrum and the watchman), read-only queries
(readiness-report, the other collectors of payload-monitor), text for agents
(skills, lvms, edge-ic, two-node), linters, sequences of external commands
(infrastructure), the downloads of doctor-artifacts and the validation of
rca-validation. Inside the modelled components: catalog and index images, graphs
and report wording of the doctor pipeline; tokenizing
and the text report of bug-correlation; failure classification, the Sippy query and selectors other
than "all" and numbers of edge-ocp-rc; `--dry-run`, argument and template
validation and payload text of release-request; the choice of a push remote and
the blocked patterns of pr-review; setup and resume of the workspace plugin;
`continue-session.sh` and the tool guard of microshift-ci.

## 6. Plan

Done: the modules above, the most important behaviour first (the pool and its
proofs, the stages, the work directory, correlation, launching, ART requests,
then the loops, the releases and the records).

The proofs of section 4, the properties with most windows first.

Next, two small modules: the parallel download with its cache check
(doctor-artifacts), where a download killed half way is taken for cached, and
the Stop hook of rca-validation with its bounded attempts.
