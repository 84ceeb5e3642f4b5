----------------------------- MODULE ProwTesting -----------------------------
(***************************************************************************)
(* prow_testing.py: the commands of one operator on the release testing    *)
(* pull request of a version.  A command is several calls of git, GitHub,  *)
(* the artifact bucket and S3, any of which may fail, and it may be killed *)
(* between two.  Prow runs the jobs meanwhile; GitHub's checks show a      *)
(* build at once, the bucket later.                                        *)
(***************************************************************************)
EXTENDS Integers, Sequences, FiniteSets

CONSTANTS
  CiJobs,     \* ci_jobs(minor)
  MaxBuilds   \* bound on the builds of a job

ProwAssumption == MaxBuilds \in Nat

VARIABLES
  cmd,       \* the command that runs: its name, its next step, what it has read;
             \* for the property, whether GitHub's checks failed it (unseen) and
             \* how many builds there were when it asked for them (checked)
  prs,       \* open pull requests with the title
  branches,  \* where the branch release-testing-<version> is: "local", "fork"
  builds,    \* the builds of each job, as Prow runs them
  asked,     \* jobs of a /test comment that Prow has not started yet
  copies,    \* the builds of each job in the download directory
  tarball,   \* what the tar file holds, and
  bucket,    \* what the one in S3 holds
  said       \* completion comments on the open pull request

ci   == <<builds, asked>>
kept == <<copies, tarball, bucket>>
prowVars == <<cmd, prs, branches, ci, kept, said>>

Idle == [name |-> "none", step |-> "none"]
Results == {"SUCCESS", "FAILURE", "ABORTED"}

(***************************************************************************)
(* lib/prow.py: what the queries return                                    *)
(***************************************************************************)
NewestBuild(b) == b[Len(b)]

\* get_latest_build: the newest build that is listed, and its finished.json;
\* "--" for a job without a directory.
Latest(b) ==
  LET listed == {i \in DOMAIN b : b[i].listed} IN
  IF listed = {} THEN [status |-> "--", build |-> 0]
  ELSE LET i == CHOOSE i \in listed : \A k \in listed : k <= i IN [status |-> b[i].result, build |-> i]

Unknown(status) == [status |-> status, build |-> 0]

\* The listing fails: no job has a directory.  The fetches of a job fail: ERROR,
\* or PENDING where finished.json does not load.
BucketStatuses ==
  {[j \in CiJobs |-> Unknown("--")]}
  \union {[j \in CiJobs |-> IF fetched[j] = "yes" THEN Latest(builds[j]) ELSE Unknown(fetched[j])] :
            fetched \in [CiJobs -> {"yes", "ERROR", "PENDING"}]}

\* get_pr_check_statuses, as far as a state is active.
Active == {j \in CiJobs : Len(builds[j]) > 0 /\ NewestBuild(builds[j]).active}

\* Mutant: the checks are not looked at.
BucketOnly(read, active) == read

\* fetch_all_job_statuses: GitHub's checks correct the bucket.
Statuses(read, active) == [j \in CiJobs |-> IF j \in active THEN [read[j] EXCEPT !.status = "PENDING"] ELSE read[j]]

(***************************************************************************)
(* A command                                                               *)
(***************************************************************************)
Step(name, step) == cmd.name = name /\ cmd.step = step
Goto(step) == cmd' = [cmd EXCEPT !.step = step]
End == cmd' = Idle

\* Mutants: create-pr does not look for a pull request; complete closes first.
MayBeginBlind(name) == name = "create-pr" \/ prs > 0
FirstStepCloses(name) ==
  CASE name = "create-pr" -> "checkout" [] name = "complete" -> "close" [] OTHER -> "jobs"

\* _require_pr, and the existence test of create-pr.  One pull request is
\* followed: there is no other after its completion.
MayBegin(name) == IF name = "create-pr" THEN prs = 0 /\ said = 0 ELSE prs = 1

FirstStep(name) ==
  CASE name = "create-pr" -> "checkout" [] name = "complete" -> "comment" [] OTHER -> "jobs"

Begin ==
  /\ cmd = Idle
  /\ \E name \in {"create-pr", "trigger", "download", "complete"} :
       /\ MayBegin(name)
       /\ cmd' = [name |-> name, step |-> FirstStep(name), read |-> << >>, unseen |-> FALSE, checked |-> << >>]
  /\ UNCHANGED <<prs, branches, ci, kept, said>>

\* A call fails, or the operator stops the command.
Give ==
  /\ cmd # Idle /\ End
  /\ UNCHANGED <<prs, branches, ci, kept, said>>

\* create-pr.  git checkout -b fails where the branch is left from before.
Checkout ==
  /\ Step("create-pr", "checkout") /\ "local" \notin branches
  /\ branches' = branches \union {"local"} /\ Goto("push")
  /\ UNCHANGED <<prs, ci, kept, said>>

PushBranch ==
  /\ Step("create-pr", "push")
  /\ branches' = branches \union {"fork"} /\ Goto("create")
  /\ UNCHANGED <<prs, ci, kept, said>>

\* gh pr create.  One pull request is followed.
CreatePr ==
  /\ Step("create-pr", "create")
  /\ prs' = prs + 1 /\ End
  /\ UNCHANGED <<branches, ci, kept, said>>

\* The two queries of trigger, status, scenarios and download.
ReadBucket ==
  /\ cmd.step = "jobs"
  /\ \E s \in BucketStatuses :
       cmd' = [cmd EXCEPT !.step = "checks", !.read = s]
  /\ UNCHANGED <<prs, branches, ci, kept, said>>

\* gh pr checks fails: no job is active.
ReadChecks ==
  /\ cmd.step = "checks"
  /\ \E fails \in BOOLEAN :
       cmd' = [cmd EXCEPT !.step = "act", !.unseen = fails, !.checked = [j \in CiJobs |-> Len(builds[j])],
                          !.read = Statuses(cmd.read, IF fails THEN {} ELSE Active)]
  /\ UNCHANGED <<prs, branches, ci, kept, said>>

\* trigger: the jobs not started and the failed ones.
ToTrigger == {j \in CiJobs : cmd.read[j].status \in {"--", "FAILURE", "ABORTED", "ERROR"}}

PostTest ==
  /\ Step("trigger", "act")
  /\ asked' = asked \union ToTrigger /\ End
  /\ UNCHANGED <<prs, branches, builds, kept, said>>

\* Mutant: what still runs is downloaded too.
ToDownloadAny == {j \in CiJobs : cmd.read[j].build > 0}

ToDownload == {j \in CiJobs : cmd.read[j].status \in {"SUCCESS", "FAILURE"} /\ cmd.read[j].build > 0}

\* download: each completed job is copied beside what is there, or fails.
Download ==
  /\ Step("download", "act")
  /\ \E ok \in SUBSET ToDownload :
       copies' = [j \in CiJobs |-> IF j \in ok THEN copies[j] \union {cmd.read[j].build} ELSE copies[j]]
  /\ End
  /\ UNCHANGED <<prs, branches, ci, tarball, bucket, said>>

\* upload, which asks GitHub nothing: the tar file is written anew.
Compress ==
  /\ cmd = Idle /\ \E j \in CiJobs : copies[j] # {}
  /\ tarball' = copies /\ cmd' = [name |-> "upload", step |-> "send"]
  /\ UNCHANGED <<prs, branches, ci, copies, bucket, said>>

Upload ==
  /\ Step("upload", "send")
  /\ bucket' = tarball /\ End
  /\ UNCHANGED <<prs, branches, ci, copies, tarball, said>>

\* complete: the comment; then the pull request is closed, and the fork's
\* branch deleted or not.  The branch in the clone stays.
CommentDone ==
  /\ Step("complete", "comment")
  /\ said' = IF said < 2 THEN said + 1 ELSE said
  /\ Goto("close")
  /\ UNCHANGED <<prs, branches, ci, kept>>

ClosePr ==
  /\ Step("complete", "close")
  /\ prs' = prs - 1 /\ End
  /\ branches' \in {branches, branches \ {"fork"}}
  /\ UNCHANGED <<ci, kept, said>>

(***************************************************************************)
(* The operator, Prow and its bucket                                       *)
(***************************************************************************)
DeleteBranch ==
  /\ cmd = Idle /\ "local" \in branches
  /\ branches' = branches \ {"local"}
  /\ UNCHANGED <<cmd, prs, ci, kept, said>>

\* Prow starts a build, and aborts the one that runs.
Aborted(result) == IF result = "PENDING" THEN "ABORTED" ELSE result

StartBuild(j) ==
  /\ j \in asked /\ Len(builds[j]) < MaxBuilds
  /\ asked' = asked \ {j}
  /\ builds' = [builds EXCEPT ![j] =
       Append([i \in DOMAIN @ |-> [result |-> Aborted(builds[j][i].result), active |-> FALSE,
                                    listed |-> builds[j][i].listed]],
              [result |-> "PENDING", active |-> TRUE, listed |-> FALSE])]
  /\ UNCHANGED <<cmd, prs, branches, kept, said>>

\* Its directory appears; it finishes in the bucket, and then for GitHub.
BuildProceeds(j) ==
  /\ Len(builds[j]) > 0
  /\ LET n == Len(builds[j]) IN
     \/ builds' = [builds EXCEPT ![j][n].listed = TRUE]
     \/ /\ NewestBuild(builds[j]).result = "PENDING"
        /\ \E r \in Results : builds' = [builds EXCEPT ![j][n] = [@ EXCEPT !.result = r, !.listed = TRUE]]
     \/ NewestBuild(builds[j]).result # "PENDING" /\ builds' = [builds EXCEPT ![j][n].active = FALSE]
  /\ UNCHANGED <<cmd, prs, branches, asked, kept, said>>

InitProw ==
  /\ cmd = Idle /\ prs = 0 /\ branches = {} /\ asked = {} /\ said = 0
  /\ builds = [j \in CiJobs |-> << >>]
  /\ copies = [j \in CiJobs |-> {}] /\ tarball = copies /\ bucket = copies

ProwStep ==
  \/ Begin \/ Give \/ Checkout \/ PushBranch \/ CreatePr \/ ReadBucket \/ ReadChecks \/ PostTest \/ Download
  \/ Compress \/ Upload \/ CommentDone \/ ClosePr \/ DeleteBranch
  \/ \E j \in CiJobs : StartBuild(j) \/ BuildProceeds(j)

ProwSpec == InitProw /\ [][ProwStep]_prowVars
(***************************************************************************)
(* Properties                                                              *)
(***************************************************************************)
\* The types; one pull request; a command past its first query has an answer
\* for every job.
ProwTypeOK ==
  /\ prs \in 0..1 /\ branches \subseteq {"local", "fork"} /\ asked \subseteq CiJobs /\ said \in 0..2
  /\ \A j \in CiJobs : copies[j] \union tarball[j] \union bucket[j] \subseteq DOMAIN builds[j]
  /\ cmd.step \in {"checks", "act"} => DOMAIN cmd.read = CiJobs

\* "Post /test comments to trigger failed CI jobs only": with queries that fail
\* and builds that start, finish and are listed between the queries and the
\* comment, a comment tests a job again whose newest build passed or still runs
\* only if the bucket did not tell of that build; and it aborts a running build
\* only if GitHub's checks failed too, or the build started after they answered.
OnlyFailedTriggered ==
  [][\A j \in asked' \ asked : builds[j] # << >> =>
       LET n == Len(builds[j]) IN
       /\ builds[j][n].result \in {"SUCCESS", "PENDING"} => cmd.read[j].build # n
       /\ builds[j][n].result = "PENDING" => cmd.unseen \/ n > cmd.checked[j]]_prowVars

\* The results in S3 are those of builds that ran to their end, whatever
\* failed or was killed between reading, copying, packing and sending.
UploadsFinished ==
  \A j \in CiJobs : \A i \in bucket[j] : builds[j][i].result \in {"SUCCESS", "FAILURE"}
=============================================================================
