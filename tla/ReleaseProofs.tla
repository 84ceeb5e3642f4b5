----------------------------- MODULE ReleaseProofs -----------------------------
(***************************************************************************)
(* Theorems about the tools around a release.  The commands on the         *)
(* release testing pull request, for any set of jobs and any number of     *)
(* builds: the types, that S3 holds the results of finished builds only    *)
(* (UploadsFinished), and that passed and running jobs are tested again in *)
(* the cases named only (OnlyFailedTriggered).  The evaluation of a        *)
(* version, for any CVEs and whatever their tickets look like: the types,  *)
(* and that the CVEs that were read decide (CvesDecide).  fix-test-bugs,   *)
(* for any bugs, grouping and number of sessions: the types, and that a    *)
(* pull request holds the edits of its group (PullIsItsGroup).  The checks *)
(* of a release, for any                                                   *)
(* version and any number of differences from a complete release: the      *)
(* types, and that a green run means fit (GreenMeansFit).                  *)
(***************************************************************************)
EXTENDS MCRelease, FiniteSetTheorems, WellFoundedInduction, TLAPS

BuildRecords == [result : Results \cup {"PENDING"}, active : BOOLEAN, listed : BOOLEAN]

Reads == [CiJobs -> [status : Results \cup {"PENDING", "--", "ERROR"}, build : Nat]]

Sending == [name |-> "upload", step |-> "send"]

\* The commands with their two queries; only what follows a query has read.
Commands ==
  [name : {"create-pr", "trigger", "download", "complete"},
   step : {"checkout", "push", "create", "comment", "close", "jobs", "checks", "act"},
   read : Reads \cup {<< >>}, unseen : BOOLEAN, checked : [CiJobs -> Nat] \cup {<< >>}]

Types ==
  /\ prs \in 0..1 /\ branches \subseteq {"local", "fork"} /\ asked \subseteq CiJobs /\ said \in 0..2
  /\ builds \in [CiJobs -> Seq(BuildRecords)]
  /\ cmd \in {Idle, Sending} \cup Commands
  /\ cmd.step \in {"checks", "act"} => cmd.read \in Reads
  /\ cmd.step = "act" => cmd.checked \in [CiJobs -> Nat]

\* One pull request is followed while a command makes or completes it.
OnePull ==
  /\ cmd.name = "create-pr" => prs = 0
  /\ cmd.name = "complete" => prs = 1

\* A build that ran to its end.
Ended(j, i) == i \in DOMAIN builds[j] /\ builds[j][i].result \in {"SUCCESS", "FAILURE"}

\* An answer of the bucket that names a build that is over is true of it,
Told(j, answer) ==
  answer.build > 0 /\ answer.status # "PENDING" =>
    /\ answer.build \in DOMAIN builds[j] /\ answer.status \in Results
    /\ builds[j][answer.build].result = answer.status

\* and stays true.
ReadIsTrue == cmd.step \in {"checks", "act"} => \A j \in CiJobs : Told(j, cmd.read[j])

\* What is copied, packed and sent is of builds that ended.
KeptEnded(held) == held \in [CiJobs -> SUBSET Nat] /\ \A j \in CiJobs : \A i \in held[j] : Ended(j, i)

ProwInv ==
  Types /\ OnePull /\ ReadIsTrue /\ KeptEnded(copies) /\ KeptEnded(tarball) /\ KeptEnded(bucket)

LEMMA ProwInit ==
  InitProw => ProwInv
  BY DEF InitProw, ProwInv, Types, OnePull, ReadIsTrue, KeptEnded, Idle

\* What has ended stays as it ended, whatever Prow does.
LEMMA EndedStays ==
  ASSUME builds' \in [CiJobs -> Seq(BuildRecords)],
         \A j \in CiJobs : \A i \in DOMAIN builds[j] :
           /\ i \in DOMAIN builds'[j]
           /\ builds[j][i].result # "PENDING" => builds'[j][i].result = builds[j][i].result,
         Types, ReadIsTrue, KeptEnded(copies), KeptEnded(tarball), KeptEnded(bucket),
         UNCHANGED <<cmd, kept>>
  PROVE  ReadIsTrue' /\ KeptEnded(copies)' /\ KeptEnded(tarball)' /\ KeptEnded(bucket)'
<1>1. \A j \in CiJobs : \A i : Ended(j, i) => Ended(j, i)'
  BY DEF Ended
<1>2. ReadIsTrue'
  <2> SUFFICES ASSUME cmd.step \in {"checks", "act"}, NEW j \in CiJobs PROVE Told(j, cmd.read[j])'
    BY DEF ReadIsTrue
  <2>1. Told(j, cmd.read[j])
    BY DEF ReadIsTrue
  <2> QED
    BY <2>1 DEF Told, Results
<1> QED
  BY <1>1, <1>2 DEF KeptEnded, kept

LEMMA StartBuildKeeps ==
  ASSUME ProwInv, NEW j \in CiJobs, StartBuild(j)
  PROVE  ProwInv'
<1> DEFINE old == builds[j]
           stopped == [i \in DOMAIN old |-> [result |-> Aborted(old[i].result), active |-> FALSE,
                                             listed |-> old[i].listed]]
           started == [result |-> "PENDING", active |-> TRUE, listed |-> FALSE]
<1>1. old \in Seq(BuildRecords) /\ builds \in [CiJobs -> Seq(BuildRecords)]
  BY DEF ProwInv, Types
<1>2. builds' = [builds EXCEPT ![j] = Append(stopped, started)]
  BY DEF StartBuild
<1>3. \A i \in DOMAIN old :
        /\ old[i] \in BuildRecords
        /\ Aborted(old[i].result) \in Results
        /\ old[i].result # "PENDING" => Aborted(old[i].result) = old[i].result
  <2> SUFFICES ASSUME NEW i \in DOMAIN old
               PROVE  /\ old[i] \in BuildRecords
                      /\ Aborted(old[i].result) \in Results
                      /\ old[i].result # "PENDING" => Aborted(old[i].result) = old[i].result
    OBVIOUS
  <2>1. old[i] \in BuildRecords
    <3> HIDE DEF old
    <3> QED
      BY <1>1
  <2> HIDE DEF old
  <2>2. old[i].result \in Results \cup {"PENDING"}
    BY <2>1 DEF BuildRecords
  <2> QED
    BY <2>1, <2>2 DEF Aborted, Results
<1>4. stopped \in Seq(BuildRecords) /\ DOMAIN stopped = DOMAIN old
  <2>1. \A i \in DOMAIN old : stopped[i] \in BuildRecords
    BY <1>3 DEF BuildRecords
  <2>2. DOMAIN old = 1..Len(old) /\ Len(old) \in Nat
    BY <1>1
  <2> HIDE DEF old
  <2> QED
    BY <2>1, <2>2
<1>5. started \in BuildRecords
  BY DEF BuildRecords
<1>6. /\ Append(stopped, started) \in Seq(BuildRecords)
      /\ \A i \in DOMAIN old : i \in DOMAIN Append(stopped, started) /\ Append(stopped, started)[i] = stopped[i]
  <2> HIDE DEF stopped, started, old
  <2> QED
    BY <1>4, <1>5
<1>7. builds' \in [CiJobs -> Seq(BuildRecords)]
  <2> HIDE DEF stopped, started
  <2> QED
    BY <1>1, <1>2, <1>6
<1>8. \A k \in CiJobs : \A i \in DOMAIN builds[k] :
        /\ i \in DOMAIN builds'[k]
        /\ builds[k][i].result # "PENDING" => builds'[k][i].result = builds[k][i].result
  <2> SUFFICES ASSUME NEW k \in CiJobs, NEW i \in DOMAIN builds[k]
               PROVE  /\ i \in DOMAIN builds'[k]
                      /\ builds[k][i].result # "PENDING" => builds'[k][i].result = builds[k][i].result
    OBVIOUS
  <2>1. CASE k # j
    <3> HIDE DEF stopped, started
    <3> QED
      BY <1>1, <1>2, <2>1
  <2>2. CASE k = j
    <3>1. stopped[i].result = Aborted(old[i].result)
      BY <2>2
    <3>2. builds'[k] = Append(stopped, started)
      <4> HIDE DEF stopped, started
      <4> QED
        BY <1>1, <1>2, <2>2
    <3> HIDE DEF stopped, started
    <3> QED
      BY <1>3, <1>6, <2>2, <3>1, <3>2
  <2> QED
    BY <2>1, <2>2
<1>9. UNCHANGED <<cmd, prs, branches, kept, said>> /\ asked' \subseteq asked
  BY DEF StartBuild
<1>10. Types' /\ OnePull'
  BY <1>7, <1>9 DEF ProwInv, Types, OnePull
<1> QED
  BY <1>7, <1>8, <1>9, <1>10, EndedStays DEF ProwInv

LEMMA ProceedKeeps ==
  ASSUME ProwInv, NEW j \in CiJobs, BuildProceeds(j)
  PROVE  ProwInv'
<1> DEFINE old == builds[j]
           n == Len(old)
<1>0. builds \in [CiJobs -> Seq(BuildRecords)] /\ old \in Seq(BuildRecords) /\ Len(old) > 0
  BY DEF ProwInv, Types, BuildProceeds
<1>1. n \in DOMAIN old /\ old[n] \in BuildRecords
  <2> HIDE DEF old
  <2> QED
    BY <1>0
<1> DEFINE Keeps(rec) == old[n].result # "PENDING" => rec.result = old[n].result
           Becomes(rec) == builds' = [builds EXCEPT ![j] = [old EXCEPT ![n] = rec]]
<1>2. \E rec \in BuildRecords : Keeps(rec) /\ Becomes(rec)
  <2>1. CASE builds' = [builds EXCEPT ![j][n].listed = TRUE]
    <3> DEFINE rec == [old[n] EXCEPT !.listed = TRUE]
    <3>1. rec \in BuildRecords /\ rec.result = old[n].result
      BY <1>1 DEF BuildRecords
    <3>2. Becomes(rec)
      BY <2>1
    <3> QED
      BY <3>1, <3>2
  <2>2. CASE builds' = [builds EXCEPT ![j][n].active = FALSE]
    <3> DEFINE rec == [old[n] EXCEPT !.active = FALSE]
    <3>1. rec \in BuildRecords /\ rec.result = old[n].result
      BY <1>1 DEF BuildRecords
    <3>2. Becomes(rec)
      BY <2>2
    <3> QED
      BY <3>1, <3>2
  <2>3. ASSUME NEW r \in Results, old[n].result = "PENDING",
               builds' = [builds EXCEPT ![j][n] = [@ EXCEPT !.result = r, !.listed = TRUE]]
        PROVE  \E rec \in BuildRecords : Keeps(rec) /\ Becomes(rec)
    <3> DEFINE rec == [old[n] EXCEPT !.result = r, !.listed = TRUE]
    <3>1. rec \in BuildRecords
      BY <1>1, <2>3 DEF BuildRecords
    <3>2. Becomes(rec)
      BY <2>3
    <3> QED
      BY <2>3, <3>1, <3>2
  <2> QED
    BY <2>1, <2>2, <2>3 DEF BuildProceeds, NewestBuild
<1>3. PICK rec \in BuildRecords : Keeps(rec) /\ Becomes(rec)
  BY <1>2
<1> HIDE DEF n
<1>4. [old EXCEPT ![n] = rec] \in Seq(BuildRecords) /\ DOMAIN [old EXCEPT ![n] = rec] = DOMAIN old
  <2> HIDE DEF old
  <2> QED
    BY <1>0, <1>1
<1>5. builds' \in [CiJobs -> Seq(BuildRecords)]
  BY <1>0, <1>3, <1>4
<1>6. \A k \in CiJobs : \A i \in DOMAIN builds[k] :
        /\ i \in DOMAIN builds'[k]
        /\ builds[k][i].result # "PENDING" => builds'[k][i].result = builds[k][i].result
  BY <1>0, <1>1, <1>3
<1>7. UNCHANGED <<cmd, prs, branches, asked, kept, said>>
  BY DEF BuildProceeds
<1>8. Types' /\ OnePull'
  BY <1>5, <1>7 DEF ProwInv, Types, OnePull
<1> QED
  BY <1>5, <1>6, <1>7, <1>8, EndedStays DEF ProwInv

(***************************************************************************)
(* The steps of a command                                                  *)
(***************************************************************************)
LEMMA CommandForms ==
  ASSUME Types
  PROVE  /\ cmd.name \in {"create-pr", "trigger", "download", "complete"} => cmd \in Commands
         /\ cmd.step \in {"jobs", "checks", "act"} => cmd \in Commands
         /\ Idle.name = "none" /\ Idle.step = "none"
         /\ Sending.name = "upload" /\ Sending.step = "send"
  BY DEF Types, Idle, Sending

LEMMA StepTyped ==
  ASSUME NEW c \in Commands,
         NEW step \in {"checkout", "push", "create", "comment", "close", "jobs", "checks", "act"}
  PROVE  LET next == [c EXCEPT !.step = step]
         IN  next \in Commands /\ next.step = step /\ next.name = c.name
  BY DEF Commands

\* A step after which the command has read nothing keeps what is kept.
LEMMA PlainStep ==
  ASSUME ProwInv, UNCHANGED <<builds, copies, tarball, bucket>>, asked' \subseteq CiJobs,
         prs' \in 0..1, branches' \subseteq {"local", "fork"}, said' \in 0..2,
         cmd' \in {Idle, Sending} \cup Commands, cmd'.step \notin {"checks", "act"}, OnePull'
  PROVE  ProwInv'
  BY DEF ProwInv, Types, ReadIsTrue, KeptEnded, Ended

LEMMA PlainActions ==
  ASSUME ProwInv,
         \/ Begin \/ Give \/ Checkout \/ PushBranch \/ CreatePr \/ PostTest
         \/ CommentDone \/ ClosePr \/ DeleteBranch
  PROVE  ProwInv'
<1> USE DEF ci, kept, Step, Goto, End
<1>0. /\ Types /\ prs \in 0..1 /\ branches \subseteq {"local", "fork"} /\ asked \subseteq CiJobs /\ said \in 0..2
      /\ OnePull /\ cmd \in {Idle, Sending} \cup Commands
  BY DEF ProwInv, Types
<1>1. CASE Begin
  <2>1. PICK name \in {"create-pr", "trigger", "download", "complete"} :
          MayBegin(name) /\ cmd' = [name |-> name, step |-> FirstStep(name), read |-> << >>, unseen |-> FALSE, checked |-> << >>]
    BY <1>1 DEF Begin
  <2>2. FirstStep(name) \in {"checkout", "comment", "jobs"}
    BY Zenon DEF FirstStep
  <2>3. cmd' \in Commands /\ cmd'.step \notin {"checks", "act"} /\ cmd'.name = name
    BY <2>1, <2>2 DEF Commands
  <2>4. OnePull'
    BY <2>1, <2>3, <1>1 DEF OnePull, MayBegin, Begin
  <2> QED
    BY <1>0, <1>1, <2>3, <2>4, PlainStep DEF Begin
<1>2. CASE Give
  <2>1. OnePull'
    BY <1>2, CommandForms, <1>0 DEF OnePull, Give
  <2> QED
    BY <1>0, <1>2, <2>1, CommandForms, PlainStep DEF Give
<1>3. CASE Checkout
  <2>1. cmd \in Commands /\ cmd' = [cmd EXCEPT !.step = "push"]
    BY <1>0, <1>3, CommandForms DEF Checkout
  <2>2. cmd' \in Commands /\ cmd'.step = "push" /\ cmd'.name = cmd.name
    BY <2>1, StepTyped
  <2>3. OnePull'
    BY <1>0, <1>3, <2>2 DEF OnePull, Checkout
  <2> QED
    BY <1>0, <1>3, <2>2, <2>3, PlainStep DEF Checkout
<1>4. CASE PushBranch
  <2>1. cmd \in Commands /\ cmd' = [cmd EXCEPT !.step = "create"]
    BY <1>0, <1>4, CommandForms DEF PushBranch
  <2>2. cmd' \in Commands /\ cmd'.step = "create" /\ cmd'.name = cmd.name
    BY <2>1, StepTyped
  <2>3. OnePull'
    BY <1>0, <1>4, <2>2 DEF OnePull, PushBranch
  <2> QED
    BY <1>0, <1>4, <2>2, <2>3, PlainStep DEF PushBranch
<1>5. CASE CreatePr
  <2>1. OnePull' /\ prs' \in 0..1
    BY <1>0, <1>5, CommandForms DEF OnePull, CreatePr
  <2> QED
    BY <1>0, <1>5, <2>1, CommandForms, PlainStep DEF CreatePr
<1>6. CASE PostTest
  <2>1. OnePull' /\ asked' \subseteq CiJobs
    BY <1>0, <1>6, CommandForms DEF OnePull, PostTest, ToTrigger
  <2> QED
    BY <1>0, <1>6, <2>1, CommandForms, PlainStep DEF PostTest
<1>7. CASE CommentDone
  <2>1. cmd \in Commands /\ cmd' = [cmd EXCEPT !.step = "close"]
    BY <1>0, <1>7, CommandForms DEF CommentDone
  <2>2. cmd' \in Commands /\ cmd'.step = "close" /\ cmd'.name = cmd.name
    BY <2>1, StepTyped
  <2>3. OnePull' /\ said' \in 0..2
    BY <1>0, <1>7, <2>2 DEF OnePull, CommentDone
  <2> QED
    BY <1>0, <1>7, <2>2, <2>3, PlainStep DEF CommentDone
<1>8. CASE ClosePr
  <2>1. OnePull' /\ prs' \in 0..1 /\ branches' \subseteq {"local", "fork"}
    BY <1>0, <1>8, CommandForms DEF OnePull, ClosePr
  <2> QED
    BY <1>0, <1>8, <2>1, CommandForms, PlainStep DEF ClosePr
<1>9. CASE DeleteBranch
  <2>1. OnePull' /\ branches' \subseteq {"local", "fork"}
    BY <1>0, <1>9 DEF OnePull, DeleteBranch
  <2> QED
    BY <1>0, <1>9, <2>1, CommandForms, PlainStep DEF DeleteBranch
<1> QED
  BY <1>1, <1>2, <1>3, <1>4, <1>5, <1>6, <1>7, <1>8, <1>9

\* A finite set of numbers has a greatest one: the fewest lie above it.
LEMMA GreatestExists ==
  ASSUME NEW S \in SUBSET Int, IsFiniteSet(S), S # {}
  PROVE  \E m \in S : \A k \in S : k <= m
<1> DEFINE Above(i) == {k \in S : k > i}
           T == {Above(i) : i \in S}
<1>0. \A i \in S : i \in Int
  OBVIOUS
<1>1. T \subseteq FiniteSubsetsOf(S) /\ T # {}
  <2>1. \A i \in S : Above(i) \in SUBSET S
    OBVIOUS
  <2> HIDE DEF Above
  <2>2. \A i \in S : IsFiniteSet(Above(i))
    BY <2>1, FS_Subset
  <2> QED
    BY <2>1, <2>2 DEF FiniteSubsetsOf
<1>2. PICK x \in T : \A y \in T : <<y, x>> \notin StrictSubsetOrdering(S)
  <2> HIDE DEF T
  <2> QED
    BY <1>1, WFMin, FS_StrictSubsetOrderingWellFounded
<1>3. PICK m \in S : x = Above(m)
  BY <1>2
<1>4. ASSUME NEW k \in S, k > m PROVE FALSE
  <2>1. Above(k) \subseteq Above(m) /\ k \in Above(m) /\ k \notin Above(k)
    <3>1. ASSUME NEW j \in S, j > k PROVE j > m
      BY <1>0, <1>3, <1>4, <3>1
    <3>2. ~(k > k)
      BY <1>0
    <3> QED
      BY <1>4, <3>1, <3>2, Zenon
  <2>2. <<Above(k), Above(m)>> \in StrictSubsetOrdering(S)
    BY <2>1 DEF StrictSubsetOrdering
  <2> QED
    BY <1>2, <1>3, <2>2
<1> QED
  BY <1>4

\* The answers of the bucket name builds of the job that are listed.
LEMMA LatestIsTrue ==
  ASSUME Types, NEW j \in CiJobs
  PROVE  /\ Latest(builds[j]) \in [status : Results \cup {"PENDING", "--", "ERROR"}, build : Nat]
         /\ Latest(builds[j]).build > 0 =>
              /\ Latest(builds[j]).build \in DOMAIN builds[j]
              /\ Latest(builds[j]).status = builds[j][Latest(builds[j]).build].result
<1> DEFINE b == builds[j]
           listed == {i \in DOMAIN b : b[i].listed}
           newest == CHOOSE i \in listed : \A k \in listed : k <= i
<1>1. b \in Seq(BuildRecords)
  BY DEF Types
<1>2. CASE listed = {}
  <2>1. Latest(b) = [status |-> "--", build |-> 0]
    BY <1>2 DEF Latest
  <2> QED
    BY <2>1
<1>3. CASE listed # {}
  <2>1. Latest(b) = [status |-> b[newest].result, build |-> newest]
    BY <1>3 DEF Latest
  <2>2. newest \in listed
    <3>1. \E i \in listed : \A k \in listed : k <= i
      <4> HIDE DEF b
      <4>1. listed \subseteq 1..Len(b) /\ Len(b) \in Nat
        BY <1>1
      <4>2. IsFiniteSet(listed) /\ listed \in SUBSET Int
        <5>1. IsFiniteSet(1..Len(b))
          BY <4>1, FS_Interval
        <5>2. \A i \in listed : i \in Int
          BY <4>1
        <5> HIDE DEF listed
        <5>3. listed \in SUBSET (1..Len(b))
          BY <4>1
        <5> QED
          BY <5>1, <5>2, <5>3, FS_Subset
      <4> HIDE DEF listed
      <4> QED
        BY <1>3, <4>2, GreatestExists
    <3> QED
      BY <3>1
  <2> HIDE DEF newest
  <2>3. newest \in DOMAIN b /\ newest \in Nat /\ b[newest] \in BuildRecords
    <3> HIDE DEF b
    <3> QED
      BY <1>1, <2>2
  <2> HIDE DEF b
  <2>4. b[newest].result \in Results \cup {"PENDING"}
    BY <2>3 DEF BuildRecords
  <2> QED
    BY <2>1, <2>3, <2>4 DEF b
<1> QED
  BY <1>2, <1>3

\* A step that leaves the command with answers that are true.
LEMMA ReadStep ==
  ASSUME ProwInv, UNCHANGED <<prs, branches, ci, kept, said>>,
         cmd' \in Commands, cmd'.name = cmd.name, cmd'.step \in {"checks", "act"}, cmd'.read \in Reads,
         cmd'.step = "act" => cmd'.checked \in [CiJobs -> Nat],
         \A j \in CiJobs : Told(j, cmd'.read[j])
  PROVE  ProwInv'
<1>1. Types' /\ OnePull'
  BY DEF ProwInv, Types, OnePull, ci, kept
<1>2. ReadIsTrue'
  BY DEF ReadIsTrue, Told, ci
<1>3. \A j, i : Ended(j, i)' <=> Ended(j, i)
  BY DEF Ended, ci
<1>4. KeptEnded(copies)' /\ KeptEnded(tarball)' /\ KeptEnded(bucket)'
  BY <1>3 DEF ProwInv, KeptEnded, kept
<1> QED
  BY <1>1, <1>2, <1>4 DEF ProwInv

LEMMA ReadBucketKeeps ==
  ASSUME ProwInv, ReadBucket
  PROVE  ProwInv'
<1>1. Types /\ cmd \in Commands
  BY CommandForms DEF ProwInv, ReadBucket
<1>2. PICK s \in BucketStatuses : cmd' = [cmd EXCEPT !.step = "checks", !.read = s]
  BY DEF ReadBucket
<1>3. /\ s = [j \in CiJobs |-> s[j]]
      /\ \A j \in CiJobs : s[j] = Latest(builds[j]) \/ \E e \in {"--", "ERROR", "PENDING"} : s[j] = Unknown(e)
  <2>1. CASE s = [j \in CiJobs |-> Unknown("--")]
    BY <2>1
  <2>2. ASSUME NEW fetched \in [CiJobs -> {"yes", "ERROR", "PENDING"}],
               s = [j \in CiJobs |-> IF fetched[j] = "yes" THEN Latest(builds[j]) ELSE Unknown(fetched[j])]
        PROVE  /\ s = [j \in CiJobs |-> s[j]]
               /\ \A j \in CiJobs : s[j] = Latest(builds[j]) \/ \E e \in {"--", "ERROR", "PENDING"} : s[j] = Unknown(e)
    BY <2>2
  <2> QED
    BY <2>1, <2>2 DEF BucketStatuses
<1>4. \A j \in CiJobs :
        s[j] \in [status : Results \cup {"PENDING", "--", "ERROR"}, build : Nat] /\ Told(j, s[j])
  <2> SUFFICES ASSUME NEW j \in CiJobs
               PROVE  s[j] \in [status : Results \cup {"PENDING", "--", "ERROR"}, build : Nat] /\ Told(j, s[j])
    OBVIOUS
  <2>1. CASE s[j] = Latest(builds[j])
    <3>1. s[j].build > 0 => s[j].status \in Results \cup {"PENDING"}
      <4>1. s[j].build > 0 => s[j].build \in DOMAIN builds[j] /\ s[j].status = builds[j][s[j].build].result
        BY <1>1, <2>1, LatestIsTrue
      <4>2. builds[j] \in Seq(BuildRecords)
        BY <1>1 DEF Types
      <4>3. \A i \in DOMAIN builds[j] : builds[j][i] \in BuildRecords
        BY <4>2
      <4> QED
        BY <4>1, <4>3 DEF BuildRecords
    <3> QED
      BY <1>1, <2>1, <3>1, LatestIsTrue DEF Told
  <2>2. ASSUME NEW e \in {"--", "ERROR", "PENDING"}, s[j] = Unknown(e)
        PROVE  s[j] \in [status : Results \cup {"PENDING", "--", "ERROR"}, build : Nat] /\ Told(j, s[j])
    BY <2>2 DEF Unknown, Told
  <2> QED
    BY <1>3, <2>1, <2>2
<1>5. s \in Reads
  BY <1>3, <1>4 DEF Reads
<1>6. cmd' \in Commands /\ cmd'.name = cmd.name /\ cmd'.step = "checks" /\ cmd'.read = s
  BY <1>1, <1>2, <1>5 DEF Commands
<1>7. UNCHANGED <<prs, branches, ci, kept, said>>
  BY DEF ReadBucket
<1> QED
  BY <1>1, <1>4, <1>5, <1>6, <1>7, ReadStep

\* The answers with which a command leaves its queries.
LEMMA ReadingChecks ==
  ASSUME ProwInv, ReadChecks
  PROVE  /\ cmd' \in Commands /\ cmd'.name = cmd.name /\ cmd'.step = "act"
         /\ cmd'.read \in Reads /\ cmd'.checked \in [CiJobs -> Nat]
         /\ \A j \in CiJobs :
              /\ Told(j, cmd'.read[j])
              /\ cmd'.checked[j] = Len(builds[j])
              /\ ~cmd'.unseen /\ j \in Active => cmd'.read[j].status = "PENDING"
<1>1. /\ Types /\ cmd \in Commands /\ cmd.read \in Reads
      /\ \A j \in CiJobs : Told(j, cmd.read[j])
  BY CommandForms DEF ProwInv, Types, ReadIsTrue, ReadChecks
<1>2. PICK fails \in BOOLEAN :
        cmd' = [cmd EXCEPT !.step = "act", !.unseen = fails, !.checked = [j \in CiJobs |-> Len(builds[j])],
                           !.read = Statuses(cmd.read, IF fails THEN {} ELSE Active)]
  BY DEF ReadChecks
<1> DEFINE active == IF fails THEN {} ELSE Active
           read == Statuses(cmd.read, active)
           checked == [j \in CiJobs |-> Len(builds[j])]
<1>3. \A j \in CiJobs :
        /\ cmd.read[j] \in [status : Results \cup {"PENDING", "--", "ERROR"}, build : Nat]
        /\ read[j] = cmd.read[j] \/ read[j] = [cmd.read[j] EXCEPT !.status = "PENDING"]
        /\ j \in active => read[j] = [cmd.read[j] EXCEPT !.status = "PENDING"]
  BY <1>1, Zenon DEF Statuses, Reads
<1>4. \A j \in CiJobs :
        /\ read[j] \in [status : Results \cup {"PENDING", "--", "ERROR"}, build : Nat]
        /\ Told(j, read[j])
        /\ j \in active => read[j].status = "PENDING"
  <2> HIDE DEF read, active
  <2> QED
    BY <1>1, <1>3 DEF Told
<1>5. read \in Reads
  BY <1>4 DEF Reads, Statuses
<1>6. checked \in [CiJobs -> Nat] /\ \A j \in CiJobs : checked[j] = Len(builds[j])
  <2>1. \A j \in CiJobs : Len(builds[j]) \in Nat
    BY <1>1 DEF Types
  <2> QED
    BY <2>1
<1>7. /\ cmd' \in Commands /\ cmd'.name = cmd.name /\ cmd'.step = "act"
      /\ cmd'.read = read /\ cmd'.checked = checked /\ cmd'.unseen = fails
  <2>1. cmd' = [cmd EXCEPT !.step = "act", !.unseen = fails, !.checked = checked, !.read = read]
    BY <1>2
  <2> HIDE DEF read, checked, active
  <2> QED
    BY <1>1, <1>5, <1>6, <2>1 DEF Commands
<1>8. ~fails => active = Active
  OBVIOUS
<1> HIDE DEF read, checked, active
<1> QED
  BY <1>4, <1>5, <1>6, <1>7, <1>8

LEMMA ReadChecksKeeps ==
  ASSUME ProwInv, ReadChecks
  PROVE  ProwInv'
<1>1. UNCHANGED <<prs, branches, ci, kept, said>>
  BY DEF ReadChecks
<1> QED
  BY <1>1, ReadingChecks, ReadStep

\* A step that copies, packs or sends what ended.
LEMMA KeepingStep ==
  ASSUME ProwInv, UNCHANGED <<prs, branches, ci, said>>, cmd' \in {Idle, Sending},
         KeptEnded(copies'), KeptEnded(tarball'), KeptEnded(bucket')
  PROVE  ProwInv'
<1>1. cmd'.step \notin {"checks", "act"} /\ cmd'.name \notin {"create-pr", "complete"}
  BY DEF Idle, Sending
<1>2. Types' /\ OnePull' /\ ReadIsTrue'
  BY <1>1 DEF ProwInv, Types, OnePull, ReadIsTrue, ci
<1>3. KeptEnded(copies)' /\ KeptEnded(tarball)' /\ KeptEnded(bucket)'
  BY DEF KeptEnded, Ended, ci
<1> QED
  BY <1>2, <1>3 DEF ProwInv

LEMMA KeepingActions ==
  ASSUME ProwInv, Download \/ Compress \/ Upload
  PROVE  ProwInv'
<1>1. CASE Download
  <2>1. cmd.step = "act" /\ cmd.read \in Reads
    BY <1>1 DEF Download, Step, ProwInv, Types
  <2>2. PICK ok \in SUBSET ToDownload :
          copies' = [j \in CiJobs |-> IF j \in ok THEN copies[j] \union {cmd.read[j].build} ELSE copies[j]]
    BY <1>1 DEF Download
  <2>3. \A j \in ok : cmd.read[j].build \in Nat /\ Ended(j, cmd.read[j].build)
    BY <2>1 DEF ToDownload, ProwInv, ReadIsTrue, Told, Ended, Reads
  <2>4. KeptEnded(copies')
    BY <2>2, <2>3 DEF ProwInv, KeptEnded
  <2> QED
    BY <1>1, <2>4, KeepingStep DEF Download, End, ProwInv
<1>2. CASE Compress
  BY <1>2, KeepingStep DEF Compress, ProwInv, Sending
<1>3. CASE Upload
  BY <1>3, KeepingStep DEF Upload, End, ProwInv
<1> QED
  BY <1>1, <1>2, <1>3

LEMMA ProwNext ==
  ProwInv /\ [ProwStep]_prowVars => ProwInv'
<1> SUFFICES ASSUME ProwInv, [ProwStep]_prowVars PROVE ProwInv'
  OBVIOUS
<1>1. CASE UNCHANGED prowVars
  BY <1>1 DEF prowVars, ci, kept, ProwInv, Types, OnePull, ReadIsTrue, Told, KeptEnded, Ended
<1> QED
  BY <1>1, PlainActions, ReadBucketKeeps, ReadChecksKeeps, KeepingActions,
     StartBuildKeeps, ProceedKeeps DEF ProwStep

LEMMA ProwInvariant ==
  ProwSpec => []ProwInv
  BY ProwInit, ProwNext, PTL DEF ProwSpec

\* A build that runs is active for GitHub; and one that runs since before a
\* command read GitHub's checks is PENDING to it, if they answered.
RunningShown ==
  /\ \A j \in CiJobs :
       builds[j] # << >> /\ NewestBuild(builds[j]).result = "PENDING" => NewestBuild(builds[j]).active
  /\ cmd.step = "act" => \A j \in CiJobs :
       /\ cmd.checked[j] <= Len(builds[j])
       /\ builds[j] # << >> /\ NewestBuild(builds[j]).result = "PENDING"
            /\ ~cmd.unseen /\ Len(builds[j]) <= cmd.checked[j] => cmd.read[j].status = "PENDING"

\* Prow's steps: a new newest build that is active, or the same one that does
\* not run again when it is over.
LEMMA ProwMoves ==
  ASSUME ProwInv, RunningShown, NEW k \in CiJobs, StartBuild(k) \/ BuildProceeds(k)
  PROVE  RunningShown'
<1>1. builds \in [CiJobs -> Seq(BuildRecords)] /\ (cmd.step = "act" => cmd.checked \in [CiJobs -> Nat])
  BY DEF ProwInv, Types
<1>2. cmd' = cmd
  BY DEF StartBuild, BuildProceeds
<1>3. ASSUME NEW j \in CiJobs
      PROVE  \/ builds'[j] = builds[j]
             \/ Len(builds'[j]) = Len(builds[j]) + 1 /\ NewestBuild(builds'[j]).active
             \/ /\ Len(builds'[j]) = Len(builds[j]) /\ builds[j] # << >>
                /\ NewestBuild(builds'[j]).result = "PENDING" =>
                     NewestBuild(builds[j]).result = "PENDING" /\ NewestBuild(builds'[j]).active = NewestBuild(builds[j]).active
  <2>1. CASE StartBuild(k)
    <3> DEFINE old == builds[k]
               stopped == [i \in DOMAIN old |-> [result |-> Aborted(old[i].result), active |-> FALSE,
                                                 listed |-> old[i].listed]]
               started == [result |-> "PENDING", active |-> TRUE, listed |-> FALSE]
    <3>1. builds' = [builds EXCEPT ![k] = Append(stopped, started)] /\ started.active
      BY <2>1 DEF StartBuild
    <3>2. stopped \in Seq(BuildRecords) /\ Len(stopped) = Len(old)
      <4>1. old \in Seq(BuildRecords)
        BY <1>1
      <4>2. \A i \in DOMAIN old : old[i] \in BuildRecords
        <5> HIDE DEF old
        <5> QED
          BY <4>1
      <4>3. \A i \in DOMAIN old : stopped[i] \in BuildRecords
        <5>1. \A x \in BuildRecords : Aborted(x.result) \in Results /\ x.listed \in BOOLEAN
          BY DEF BuildRecords, Aborted, Results
        <5>2. \A i \in DOMAIN old : Aborted(old[i].result) \in Results /\ old[i].listed \in BOOLEAN
          BY <4>2, <5>1
        <5> QED
          BY <5>2 DEF BuildRecords
      <4>4. DOMAIN stopped = 1..Len(old) /\ Len(old) \in Nat
        BY <4>1
      <4>5. stopped \in Seq(BuildRecords)
        <5> HIDE DEF old
        <5> QED
          BY <4>3, <4>4
      <4>6. DOMAIN stopped = DOMAIN old
        OBVIOUS
      <4> HIDE DEF stopped, old
      <4> QED
        BY <4>4, <4>5, <4>6
    <3>3. Len(Append(stopped, started)) = Len(old) + 1 /\ Append(stopped, started)[Len(old) + 1] = started
      <4> HIDE DEF stopped, started, old
      <4> QED
        BY <3>2
    <3> HIDE DEF stopped, started
    <3>4. CASE j = k
      <4>1. builds'[j] = Append(stopped, started)
        BY <1>1, <3>1, <3>4
      <4> QED
        BY <3>1, <3>3, <3>4, <4>1 DEF NewestBuild
    <3>5. CASE j # k
      BY <1>1, <3>1, <3>5
    <3> QED
      BY <3>4, <3>5
  <2>2. CASE BuildProceeds(k)
    <3>1. CASE j # k
      BY <1>1, <2>2, <3>1 DEF BuildProceeds
    <3>2. CASE j = k
      <4> DEFINE n == Len(builds[k])
      <4>1. n \in Nat /\ n > 0 /\ builds[k] \in Seq(BuildRecords) /\ builds[k][n] \in BuildRecords
        <5>1. builds[k] \in Seq(BuildRecords) /\ Len(builds[k]) > 0
          BY <1>1, <2>2 DEF BuildProceeds
        <5> QED
          BY <5>1
      <4>2. \E rec : builds'[k] = [builds[k] EXCEPT ![n] = rec]
                     /\ (rec.result = "PENDING" => builds[k][n].result = "PENDING" /\ rec.active = builds[k][n].active)
        <5>1. CASE builds' = [builds EXCEPT ![k][n].listed = TRUE]
          <6> DEFINE rec == [builds[k][n] EXCEPT !.listed = TRUE]
          <6>1. rec.result = builds[k][n].result /\ rec.active = builds[k][n].active
            BY <4>1 DEF BuildRecords
          <6>2. builds'[k] = [builds[k] EXCEPT ![n] = rec]
            BY <1>1, <5>1
          <6> QED
            BY <6>1, <6>2
        <5>2. CASE builds[k][n].result # "PENDING" /\ builds' = [builds EXCEPT ![k][n].active = FALSE]
          <6> DEFINE rec == [builds[k][n] EXCEPT !.active = FALSE]
          <6>1. rec.result # "PENDING"
            BY <4>1, <5>2 DEF BuildRecords
          <6>2. builds'[k] = [builds[k] EXCEPT ![n] = rec]
            BY <1>1, <5>2
          <6> QED
            BY <6>1, <6>2
        <5>3. ASSUME NEW r \in Results, builds' = [builds EXCEPT ![k][n] = [@ EXCEPT !.result = r, !.listed = TRUE]]
              PROVE  \E rec : builds'[k] = [builds[k] EXCEPT ![n] = rec] /\ rec.result # "PENDING"
          <6> DEFINE rec == [builds[k][n] EXCEPT !.result = r, !.listed = TRUE]
          <6>1. rec.result # "PENDING"
            BY <4>1 DEF BuildRecords, Results
          <6>2. builds'[k] = [builds[k] EXCEPT ![n] = rec]
            BY <1>1, <5>3
          <6> QED
            BY <6>1, <6>2
        <5> QED
          BY <2>2, <5>1, <5>2, <5>3 DEF BuildProceeds, NewestBuild
      <4>3. PICK rec : /\ builds'[k] = [builds[k] EXCEPT ![n] = rec]
                       /\ rec.result = "PENDING" => builds[k][n].result = "PENDING" /\ rec.active = builds[k][n].active
        BY <4>2
      <4>4. Len([builds[k] EXCEPT ![n] = rec]) = n /\ [builds[k] EXCEPT ![n] = rec][n] = rec
        BY <4>1
      <4> QED
        BY <3>2, <4>1, <4>3, <4>4 DEF NewestBuild
    <3> QED
      BY <3>1, <3>2
  <2> QED
    BY <2>1, <2>2
<1>4. ASSUME NEW j \in CiJobs
      PROVE  /\ Len(builds[j]) \in Nat /\ (builds[j] = << >> => Len(builds[j]) = 0)
             /\ cmd.step = "act" => cmd.checked[j] \in Nat
  BY <1>1
<1>5. \A j \in CiJobs :
        builds'[j] # << >> /\ NewestBuild(builds'[j]).result = "PENDING" => NewestBuild(builds'[j]).active
  BY <1>3 DEF RunningShown
<1>6. ASSUME cmd.step = "act", NEW j \in CiJobs
      PROVE  /\ cmd.checked[j] <= Len(builds'[j])
             /\ builds'[j] # << >> /\ NewestBuild(builds'[j]).result = "PENDING"
                  /\ ~cmd.unseen /\ Len(builds'[j]) <= cmd.checked[j] => cmd.read[j].status = "PENDING"
  <2>1. cmd.checked[j] \in Nat /\ Len(builds[j]) \in Nat /\ cmd.checked[j] <= Len(builds[j])
    BY <1>4, <1>6 DEF RunningShown
  <2>2. CASE Len(builds'[j]) = Len(builds[j]) + 1
    BY <2>1, <2>2
  <2>3. CASE builds'[j] = builds[j]
    BY <1>6, <2>3 DEF RunningShown
  <2>4. CASE /\ Len(builds'[j]) = Len(builds[j]) /\ builds[j] # << >>
             /\ NewestBuild(builds'[j]).result = "PENDING" => NewestBuild(builds[j]).result = "PENDING"
    BY <1>6, <2>4 DEF RunningShown
  <2> QED
    BY <1>3, <2>2, <2>3, <2>4
<1> QED
  BY <1>2, <1>5, <1>6 DEF RunningShown

LEMMA RunningShownNext ==
  ProwInv /\ RunningShown /\ [ProwStep]_prowVars => RunningShown'
<1> SUFFICES ASSUME ProwInv, RunningShown, [ProwStep]_prowVars PROVE RunningShown'
  OBVIOUS
<1>1. CASE \E k \in CiJobs : StartBuild(k) \/ BuildProceeds(k)
  BY <1>1, ProwMoves
<1>2. CASE ReadChecks
  <2>1. /\ cmd'.checked \in [CiJobs -> Nat]
        /\ \A j \in CiJobs :
             /\ cmd'.checked[j] = Len(builds[j])
             /\ ~cmd'.unseen /\ j \in Active => cmd'.read[j].status = "PENDING"
    BY <1>2, ReadingChecks
  <2>3. builds' = builds
    BY <1>2 DEF ReadChecks, ci
  <2>4. \A j \in CiJobs : builds[j] # << >> /\ NewestBuild(builds[j]).result = "PENDING" => j \in Active
    <3>1. \A j \in CiJobs : builds[j] # << >> => Len(builds[j]) > 0
      BY DEF ProwInv, Types
    <3> QED
      BY <3>1 DEF RunningShown, Active
  <2> QED
    <3>1. \A j \in CiJobs : cmd'.checked[j] <= Len(builds[j])
      BY <2>1
    <3> QED
      BY <2>1, <2>3, <2>4, <3>1 DEF RunningShown
<1>3. CASE UNCHANGED prowVars
  BY <1>3 DEF RunningShown, prowVars, ci
<1>4. CASE \/ Begin \/ Give \/ Checkout \/ PushBranch \/ CreatePr \/ ReadBucket \/ PostTest \/ Download
           \/ Compress \/ Upload \/ CommentDone \/ ClosePr \/ DeleteBranch
  <2>1. builds' = builds
    BY <1>4 DEF Begin, Give, Checkout, PushBranch, CreatePr, ReadBucket, PostTest, Download, Compress, Upload,
       CommentDone, ClosePr, DeleteBranch, ci
  <2>2. cmd' = cmd \/ cmd'.step # "act"
    <3>1. CASE Checkout \/ PushBranch \/ CommentDone \/ ReadBucket
      <4>1. cmd \in Commands
        BY <3>1, CommandForms DEF Checkout, PushBranch, CommentDone, ReadBucket, Step, ProwInv
      <4> QED
        BY <3>1, <4>1 DEF Checkout, PushBranch, CommentDone, ReadBucket, Goto, Commands
    <3>2. CASE Begin
      <4>1. PICK name : cmd'.step = FirstStep(name)
        BY <3>2 DEF Begin
      <4> QED
        BY <4>1, Zenon DEF FirstStep
    <3> QED
      BY <1>4, <3>1, <3>2 DEF Give, CreatePr, PostTest, Download, Compress, Upload, ClosePr, DeleteBranch, End, Idle
  <2> QED
    BY <2>1, <2>2 DEF RunningShown
<1> QED
  BY <1>1, <1>2, <1>3, <1>4 DEF ProwStep

(***************************************************************************)
(* Theorems                                                                *)
(***************************************************************************)

\* The types; one pull request; a command past its first query has an answer
\* for every job; and what is kept is of builds that exist.
THEOREM ProwTypeCorrect ==
  ProwSpec => []ProwTypeOK
<1>1. ProwInv => ProwTypeOK
  <2> SUFFICES ASSUME ProwInv PROVE ProwTypeOK
    OBVIOUS
  <2>1. \A j \in CiJobs : copies[j] \union tarball[j] \union bucket[j] \subseteq DOMAIN builds[j]
    BY DEF ProwInv, KeptEnded, Ended
  <2>2. cmd.step \in {"checks", "act"} => DOMAIN cmd.read = CiJobs
    BY DEF ProwInv, Types, Reads
  <2> QED
    BY <2>1, <2>2 DEF ProwInv, Types, ProwTypeOK
<1> QED
  BY <1>1, ProwInvariant, PTL

\* Whatever fails or is killed between reading, copying, packing and sending,
\* S3 holds results of builds that ran to their end only.
THEOREM UploadsFinishedHolds ==
  ProwSpec => []UploadsFinished
<1>1. ProwInv => UploadsFinished
  BY DEF ProwInv, KeptEnded, Ended, UploadsFinished
<1> QED
  BY <1>1, ProwInvariant, PTL

\* With queries that fail and builds that move between them and the comment, a
\* job that passed or runs is tested again only if the bucket did not tell of
\* its build, and a running one only if GitHub's checks did not either.
THEOREM OnlyFailedTriggeredHolds ==
  ProwSpec => OnlyFailedTriggered
<1>1. InitProw => RunningShown
  BY DEF InitProw, RunningShown, Idle
<1>2. ProwInv /\ RunningShown /\ [ProwStep]_prowVars
        => \A j \in asked' \ asked : builds[j] # << >> =>
             LET n == Len(builds[j]) IN
             /\ builds[j][n].result \in {"SUCCESS", "PENDING"} => cmd.read[j].build # n
             /\ builds[j][n].result = "PENDING" => cmd.unseen \/ n > cmd.checked[j]
  <2> SUFFICES ASSUME ProwInv, RunningShown, [ProwStep]_prowVars, NEW j \in asked' \ asked, builds[j] # << >>
               PROVE  LET n == Len(builds[j]) IN
                      /\ builds[j][n].result \in {"SUCCESS", "PENDING"} => cmd.read[j].build # n
                      /\ builds[j][n].result = "PENDING" => cmd.unseen \/ n > cmd.checked[j]
    OBVIOUS
  <2>1. PostTest
    BY DEF ProwStep, Begin, Give, Checkout, PushBranch, CreatePr, ReadBucket, ReadChecks, Download, Compress,
       Upload, CommentDone, ClosePr, DeleteBranch, StartBuild, BuildProceeds, prowVars, ci
  <2>2. j \in ToTrigger /\ j \in CiJobs /\ cmd.step = "act"
    BY <2>1 DEF PostTest, ToTrigger, Step
  <2>3. /\ cmd.read \in Reads /\ cmd.checked \in [CiJobs -> Nat] /\ builds[j] \in Seq(BuildRecords)
        /\ Told(j, cmd.read[j])
    BY <2>2 DEF ProwInv, Types, ReadIsTrue
  <2>4. cmd.read[j].status \in {"--", "FAILURE", "ABORTED", "ERROR"}
    BY <2>2 DEF ToTrigger
  <2>5. Len(builds[j]) \in Nat /\ Len(builds[j]) > 0
    BY <2>3
  <2>6. builds[j][Len(builds[j])].result \in {"SUCCESS", "PENDING"} => cmd.read[j].build # Len(builds[j])
    BY <2>4, <2>5, <2>3 DEF Told
  <2>7. builds[j][Len(builds[j])].result = "PENDING" => cmd.unseen \/ Len(builds[j]) > cmd.checked[j]
    BY <2>2, <2>3, <2>4, <2>5 DEF RunningShown, NewestBuild
  <2> QED
    BY <2>6, <2>7
<1> QED
  BY <1>1, <1>2, ProwInvariant, RunningShownNext, PTL DEF ProwSpec, OnlyFailedTriggered

(***************************************************************************)
(* precheck_xyz.py                                                         *)
(***************************************************************************)
Meanings        == {"no action", "must_release", "needs_review", "not actionable", "pending"}
Actions         == {"release_required", "release_not_required", "needs_review"}
Recommendations == {"none", "SKIP", "NEEDS REVIEW", "ALREADY RELEASED", "ASK ART", "BLOCKED"}

\* What became of each CVE of a report.
Findings == UNION {[D -> Meanings] : D \in SUBSET Cves}

Evaluations ==
  [recommendation : Recommendations, last_pub : BOOLEAN, ocp_status : {"", "available"},
   days_at_release : {-1, 89, 90}, commits : 0..1, shipped : SUBSET Cves, undeduped : BOOLEAN,
   bugs : SUBSET Actions, report : BOOLEAN, cves : Findings]

EvalTypes ==
  /\ eval \in Evaluations
  /\ jira \in [Tickets -> Trackers \union {NoTracker}]
  /\ (query = "done") = (eval.recommendation # "none")

\* A report comes from the last queries, so that an evaluation which ended
\* before has none.
LateReport == eval.report => query \in {"enrich", "recommend", "done"}

\* Each CVE of the report was looked up, or the lookup failed.
LookedUp ==
  eval.report /\ query \in {"recommend", "done"} =>
    \A c \in DOMAIN eval.cves : eval.cves[c] \in {"pending", Enriched(c, {})}

\* With a report, the answer is the one computed from what was found.
Computed == eval.report /\ query = "done" => eval.recommendation = Recommendation(eval)

EvalInv == EvalTypes /\ LateReport /\ LookedUp /\ Computed

LEMMA EvalInit ==
  StartEvaluation => EvalInv
<1> SUFFICES ASSUME StartEvaluation PROVE EvalInv
  OBVIOUS
<1>1. eval \in Evaluations
  <2>1. << >> \in [{} -> Meanings]
    OBVIOUS
  <2>2. << >> \in Findings
    BY <2>1 DEF Findings
  <2>3. NoEval \in Evaluations
    BY <2>2 DEF NoEval, Evaluations, Recommendations
  <2> QED
    BY <2>3 DEF StartEvaluation
<1> QED
  BY <1>1 DEF StartEvaluation, NoEval, EvalInv, EvalTypes, LateReport, LookedUp, Computed

\* The fields of a result do not change with its recommendation, nor what
\* follows from them.
LEMMA SameFindings ==
  ASSUME eval \in Evaluations, NEW r \in Recommendations
  PROVE  LET e == [eval EXCEPT !.recommendation = r] IN
         /\ e \in Evaluations /\ e.recommendation = r
         /\ e.report = eval.report /\ e.cves = eval.cves /\ e.shipped = eval.shipped
         /\ Recommendation(e) = Recommendation(eval)
<1> DEFINE e == [eval EXCEPT !.recommendation = r]
<1>1. /\ e \in Evaluations /\ e.recommendation = r
      /\ e.report = eval.report /\ e.cves = eval.cves /\ e.shipped = eval.shipped
      /\ e.bugs = eval.bugs /\ e.commits = eval.commits /\ e.days_at_release = eval.days_at_release
      /\ e.ocp_status = eval.ocp_status /\ e.undeduped = eval.undeduped
  BY DEF Evaluations
<1> HIDE DEF e
<1>2. Impact(e) = Impact(eval) /\ Release(e) = Release(eval) /\ DueByGap(e) = DueByGap(eval)
  BY <1>1 DEF Impact, Release, DueByGap
<1> QED
  BY <1>1, <1>2 DEF Recommendation, e

LEMMA RecommendationAnswers ==
  ASSUME NEW e
  PROVE  Recommendation(e) \in Recommendations \ {"none"}
  BY DEF Recommendation, Release, Recommendations

\* An answer without a report, or the one that is computed.
LEMMA AnswerKeeps ==
  ASSUME EvalInv, NEW r \in Recommendations \ {"none"}, Answer(r), jira' = jira, query # "done",
         eval.report => query = "recommend" /\ r = Recommendation(eval)
  PROVE  EvalInv'
<1>1. /\ eval' \in Evaluations /\ eval'.recommendation = r /\ eval'.report = eval.report
      /\ eval'.cves = eval.cves /\ eval'.shipped = eval.shipped
      /\ Recommendation(eval') = Recommendation(eval)
  BY SameFindings DEF EvalInv, EvalTypes, Answer
<1>2. query' = "done"
  BY DEF Answer
<1>3. \A c : Enriched(c, {})' = Enriched(c, {})
  BY <1>1 DEF Enriched
<1>4. LookedUp'
  BY <1>1, <1>2, <1>3 DEF EvalInv, LookedUp
<1> QED
  BY <1>1, <1>2, <1>4 DEF EvalInv, EvalTypes, LateReport, Computed

\* A query that only adds to a result without a report.
LEMMA NoReportYet ==
  ASSUME EvalInv, eval' \in Evaluations, jira' = jira, query # "done", query' # "done",
         eval'.recommendation = eval.recommendation, eval'.report => query' = "enrich"
  PROVE  EvalInv'
  BY DEF EvalInv, EvalTypes, LateReport, LookedUp, Computed

LEMMA EnrichKeeps ==
  ASSUME EvalInv, Enrich
  PROVE  EvalInv'
<1>1. PICK failed \in SUBSET DOMAIN eval.cves :
        eval' = [eval EXCEPT !.cves = [c \in DOMAIN eval.cves |-> Enriched(c, failed)]]
  BY DEF Enrich
<1> DEFINE found == [c \in DOMAIN eval.cves |-> Enriched(c, failed)]
<1>2. eval \in Evaluations /\ DOMAIN eval.cves \in SUBSET Cves
  <2>1. eval \in Evaluations /\ eval.cves \in Findings
    BY DEF EvalInv, EvalTypes, Evaluations
  <2> QED
    BY <2>1 DEF Findings
<1>3. \A c : Enriched(c, failed) \in Meanings /\ Enriched(c, failed) \in {"pending", Enriched(c, {})}
  BY DEF Enriched, Meaning, Meanings
<1>4. found \in Findings
  BY <1>2, <1>3 DEF Findings
<1>5. /\ eval' \in Evaluations /\ eval'.cves = found /\ eval'.shipped = eval.shipped
      /\ eval'.recommendation = eval.recommendation /\ eval'.report = eval.report
  BY <1>1, <1>2, <1>4 DEF Evaluations
<1>6. jira' = jira /\ query' = "recommend" /\ query = "enrich"
  BY DEF Enrich
<1>7. \A c : Enriched(c, {})' = Enriched(c, {})
  BY <1>5, <1>6 DEF Enriched
<1>8. LookedUp'
  BY <1>3, <1>5, <1>7 DEF LookedUp
<1> QED
  BY <1>5, <1>6, <1>8 DEF EvalInv, EvalTypes, LateReport, Computed

LEMMA EvalNext ==
  ASSUME EvalInv, [Evaluate]_evalVars
  PROVE  EvalInv'
<1> USE DEF Recommendations
<1>0. eval \in Evaluations
  BY DEF EvalInv, EvalTypes
<1>1. CASE Lifecycle
  BY <1>1, AnswerKeeps, <1>0, NoReportYet DEF Lifecycle, EvalInv, LateReport
<1>2. CASE CheckVpn
  BY <1>2, AnswerKeeps, <1>0, NoReportYet DEF CheckVpn, EvalInv, LateReport
<1>3. CASE AlreadyReleased
  BY <1>3, AnswerKeeps, <1>0, NoReportYet DEF AlreadyReleased, EvalInv, LateReport
<1>4. CASE Payload
  <2>1. eval' \in Evaluations /\ eval'.recommendation = eval.recommendation /\ eval'.report = eval.report
    BY <1>0, <1>4 DEF Payload, Evaluations
  <2> QED
    BY <1>4, <2>1, NoReportYet DEF Payload, EvalInv, LateReport
<1>5. CASE Commits
  <2>0. PICK pub \in BOOLEAN, n \in 0..1 : eval' = [eval EXCEPT !.last_pub = pub, !.commits = n]
    BY <1>5 DEF Commits
  <2>1. eval' \in Evaluations /\ eval'.recommendation = eval.recommendation /\ eval'.report = eval.report
    BY <1>0, <2>0 DEF Evaluations
  <2> QED
    BY <1>5, <2>1, NoReportYet DEF Commits, EvalInv, LateReport
<1>6. CASE ReleaseDate
  <2>0. PICK days \in {-1, 89, 90} : eval' = [eval EXCEPT !.days_at_release = days]
    BY <1>6 DEF ReleaseDate, DaysAtRelease
  <2>1. eval' \in Evaluations /\ eval'.recommendation = eval.recommendation /\ eval'.report = eval.report
    BY <1>0, <2>0 DEF Evaluations
  <2> QED
    BY <1>6, <2>1, NoReportYet DEF ReleaseDate, EvalInv, LateReport
<1>7. CASE Shipped
  <2>1. eval' \in Evaluations /\ eval'.recommendation = eval.recommendation /\ eval'.report = eval.report
    BY <1>0, <1>7 DEF Shipped, Evaluations
  <2> QED
    BY <1>7, <2>1, NoReportYet DEF Shipped, EvalInv, LateReport
<1>8. CASE ResolvedBugs
  <2>1. PICK found \in SUBSET Actions : eval' = [eval EXCEPT !.bugs = found]
    BY <1>8 DEF ResolvedBugs, CommitAction, ComponentAction, ByLabel, Actions
  <2>2. eval' \in Evaluations /\ eval'.recommendation = eval.recommendation /\ eval'.report = eval.report
    BY <1>0, <2>1 DEF Evaluations
  <2> QED
    BY <1>8, <2>2, NoReportYet DEF ResolvedBugs, EvalInv, LateReport
<1>9. CASE Advisories
  <2>1. CASE eval' = eval
    BY <1>9, <1>0, <2>1, NoReportYet DEF Advisories, EvalInv, LateReport
  <2>2. ASSUME NEW r \in Reports, eval' = [eval EXCEPT !.report = TRUE, !.cves = [c \in r.cves |-> "pending"]]
        PROVE  EvalInv'
    <3>1. r.cves \in SUBSET Cves
      BY DEF Reports
    <3>2. [c \in r.cves |-> "pending"] \in Findings
      BY <3>1 DEF Meanings, Findings
    <3>3. eval' \in Evaluations /\ eval'.recommendation = eval.recommendation
      BY <1>0, <2>2, <3>2 DEF Evaluations
    <3> QED
      BY <1>9, <3>3, NoReportYet DEF Advisories
  <2> QED
    BY <1>9, <2>1, <2>2 DEF Advisories
<1>10. CASE Enrich
  BY <1>10, EnrichKeeps
<1>11. CASE Recommend
  BY <1>11, AnswerKeeps, RecommendationAnswers DEF Recommend
<1>12. CASE Raised
  BY <1>12, AnswerKeeps DEF Raised, EvalInv, LateReport
<1>13. CASE UNCHANGED evalVars
  <2>1. \A c : Enriched(c, {})' = Enriched(c, {})
    BY <1>13 DEF evalVars, Enriched
  <2> QED
    BY <1>13, <2>1 DEF evalVars, EvalInv, EvalTypes, LateReport, LookedUp, Computed
<1> QED
  BY <1>1, <1>2, <1>3, <1>4, <1>5, <1>6, <1>7, <1>8, <1>9, <1>10, <1>11, <1>12, <1>13 DEF Evaluate

LEMMA EvalInvariant == EvalSpec => []EvalInv
  BY EvalInit, EvalNext, PTL DEF EvalSpec

\* What is known of a version keeps its type through every query.
THEOREM EvalTypeCorrect ==
  EvalSpec => []EvalTypeOK
<1>1. ASSUME EvalInv PROVE EvalTypeOK
  <2>1. eval.cves \in Findings
    BY <1>1 DEF EvalInv, EvalTypes, Evaluations
  <2>2. DOMAIN eval.cves \subseteq Cves
    BY <2>1 DEF Findings
  <2>3. eval.recommendation \in Recommendations /\ eval.shipped \in SUBSET Cves /\ eval.bugs \in SUBSET Actions
    BY <1>1 DEF EvalInv, EvalTypes, Evaluations
  <2> QED
    BY <1>1, <2>2, <2>3 DEF EvalInv, EvalTypes, Recommendations, Actions, EvalTypeOK
<1>2. EvalInv => EvalTypeOK
  BY <1>1
<1> QED
  BY <1>2, EvalInvariant, PTL

\* A fix that has landed must be released, however its ticket says so.
LEMMA LandedMust ==
  ASSUME NEW c, Landed(c)
  PROVE  Enriched(c, {}) = "must_release"
  BY DEF Landed, Enriched, Meaning, NeedsALook

\* A landed CVE that Jira told of asks for a release whatever else was found,
\* and a version is skipped only when Jira answered for every CVE: of any
\* number of CVEs, with tickets in any state.
THEOREM CvesDecideHolds ==
  EvalSpec => []CvesDecide
<1>1. ASSUME EvalInv, Recommended
      PROVE  CvesDecide
  <2>1. eval.report /\ eval.recommendation = Recommendation(eval)
    BY <1>1 DEF Recommended, EvalInv, Computed
  <2>2. \A c \in DOMAIN eval.cves : eval.cves[c] = "pending" \/ eval.cves[c] = Enriched(c, {})
    BY <1>1 DEF Recommended, EvalInv, LookedUp
  <2>3. ASSUME NEW c \in DOMAIN eval.cves, Landed(c), eval.cves[c] # "pending"
        PROVE  eval.recommendation = Release(eval)
    <3>1. eval.cves[c] = "must_release"
      BY <2>2, <2>3, LandedMust
    <3> QED
      BY <2>1, <3>1 DEF Recommendation, Impact
  <2>4. ASSUME eval.recommendation = "SKIP", NEW c \in DOMAIN eval.cves
        PROVE  /\ eval.cves[c] # "pending" /\ ~Landed(c)
               /\ \/ c \in eval.shipped \/ jira[c] = NoTracker \/ jira[c].labels # {}
                  \/ ~NeedsALook(jira[c]) \/ jira[c].resolution \in NonFixResolutions
    <3>1. Impact(eval) = "none"
      BY <2>1, <2>4 DEF Recommendation, Release
    <3>2. eval.cves[c] \notin {"must_release", "needs_review", "pending"}
      BY <2>1, <3>1 DEF Impact
    <3>3. ~Landed(c)
      BY <2>2, <3>2, LandedMust
    <3>4. Enriched(c, {}) # "needs_review"
      BY <2>2, <3>2
    <3> QED
      BY <3>2, <3>3, <3>4 DEF Enriched, Meaning, NeedsALook
  <2> QED
    BY <2>3, <2>4 DEF CvesDecide
<1>2. EvalInv => CvesDecide
  BY <1>1 DEF CvesDecide
<1> QED
  BY <1>2, EvalInvariant, PTL

(***************************************************************************)
(* FixTestBugs                                                             *)
(***************************************************************************)
Groups == (SUBSET Bugs) \ {{}}

PullRecords == [group : Groups, state : {"open", "merged", "closed"}]

InGroup == {"branch", "edit", "submit", "commit", "push", "create"}

FixTypes ==
  /\ todo \subseteq Groups /\ index \cup tree \subseteq SUBSET Bugs
  /\ at \in InGroup \cup {"idle", "check", "clone", "cleanup", "pick"}
  /\ at \in InGroup => group \in Groups
  /\ DOMAIN fork \subseteq Bugs /\ DOMAIN local \subseteq Bugs
  /\ pulls \in Seq(PullRecords)

\* Edits that may stand in a commit of the current group.
Its(set) == set \subseteq {group} \cup left

\* What the steps of a group have in the clone.
CloneHolds ==
  /\ at # "commit" => index \subseteq left
  /\ at = "commit" => index # {} /\ Its(index)
  /\ at = "edit" => tree = {}
  /\ at = "submit" => tree \subseteq {group}
  /\ at \in {"edit", "submit", "commit", "push"} => Primary(group) \in DOMAIN local
  /\ at \in {"edit", "submit", "commit"} => local[Primary(group)] = {}
  /\ at = "push" => local[Primary(group)] # {} /\ Its(local[Primary(group)])

\* An open pull request has a branch of its own.
OwnBranch ==
  /\ \A i \in Open : Primary(pulls[i].group) \in DOMAIN fork
  /\ \A i, j \in Open : Primary(pulls[i].group) = Primary(pulls[j].group) => i = j

\* Between the push and the pull request the branch is nobody else's.
Pushed ==
  at = "create" =>
    /\ Primary(group) \in DOMAIN fork
    /\ fork[Primary(group)] # {} /\ Its(fork[Primary(group)])
    /\ \A i \in Open : Primary(pulls[i].group) # Primary(group)

FixInv == FixTypes /\ CloneHolds /\ OwnBranch /\ Pushed /\ PullIsItsGroup

LEMMA FixInit ==
  ASSUME FixAssumption
  PROVE  InitFix => FixInv
<1> SUFFICES ASSUME InitFix PROVE FixInv
  OBVIOUS
<1>1. pulls \in Seq(PullRecords) /\ DOMAIN pulls = {} /\ DOMAIN fork = {} /\ DOMAIN local = {}
  BY DEF InitFix
<1> QED
  BY <1>1 DEF InitFix, FixInv, FixTypes, CloneHolds, OwnBranch, Pushed, PullIsItsGroup, Open, InGroup

\* The lowest key of a group is one of its keys.
LEMMA PrimaryInGroup ==
  ASSUME FixAssumption, NEW g \in Groups
  PROVE  Primary(g) \in g /\ Primary(g) \in Bugs
<1> DEFINE less == OpToRel(<, Nat)
<1>1. g \subseteq Nat /\ g # {} /\ g \subseteq Bugs
  BY DEF FixAssumption, Groups
<1>2. \E x \in g : \A y \in g : <<y, x>> \notin less
  <2> HIDE DEF less
  <2>1. IsWellFoundedOn(less, Nat)
    BY NatLessThanWellFounded DEF less
  <2> QED
    BY <1>1, <2>1, WFMin
<1>3. \E x \in g : \A y \in g : x <= y
  <2>1. PICK x \in g : \A y \in g : <<y, x>> \notin less
    BY <1>2
  <2>2. ASSUME NEW y \in g, ~(x <= y) PROVE FALSE
    <3>1. x \in Nat /\ y \in Nat /\ y < x
      BY <1>1, <2>2
    <3>2. <<y, x>> \in less
      BY <3>1 DEF OpToRel
    <3> QED
      BY <2>1, <3>2
  <2> QED
    BY <2>2
<1> QED
  BY <1>1, <1>3 DEF Primary, Min

\* A step that leaves the pull requests and their branches alone, and after
\* which no pull request is to be made, needs to say what the clone holds.
LEMMA CloneStep ==
  ASSUME FixInv, UNCHANGED hubVars, left \subseteq left', at' # "create",
         FixTypes', CloneHolds'
  PROVE  FixInv'
<1>1. Open' = Open
  BY DEF Open, hubVars
<1>2. OwnBranch'
  BY <1>1 DEF FixInv, OwnBranch, hubVars
<1>3. PullIsItsGroup'
  BY <1>1 DEF FixInv, PullIsItsGroup, hubVars
<1> QED
  BY <1>2, <1>3 DEF FixInv, Pushed

\* The steps between two groups.
LEMMA BetweenGroups ==
  ASSUME FixAssumption, FixInv,
         \/ NewDay \/ Pick \/ Dies
         \/ (\E groups \in Groupings : Load(groups))
         \/ (\E answering \in SUBSET Bugs : Check(answering))
         \/ (\E result \in {"none", "origin", "both"} : Clone(result))
  PROVE  FixInv'
<1> USE DEF FixInv, FixTypes, CloneHolds, InGroup, repoVars, Groups
<1>1. CASE NewDay
  <2>1. FixTypes' /\ CloneHolds'
    BY <1>1 DEF NewDay, hubVars
  <2> QED
    BY <1>1, <2>1, CloneStep DEF NewDay, hubVars
<1>2. CASE Pick
  <2>1. FixTypes' /\ CloneHolds'
    BY <1>2 DEF Pick, hubVars
  <2> QED
    BY <1>2, <2>1, CloneStep DEF Pick, hubVars
<1>3. CASE Dies
  <2>1. FixTypes' /\ CloneHolds'
    BY <1>3 DEF Dies, hubVars, Its
  <2> QED
    BY <1>3, <2>1, CloneStep DEF Dies, hubVars
<1>4. ASSUME NEW groups \in Groupings, Load(groups) PROVE FixInv'
  <2>1. FixTypes' /\ CloneHolds'
    BY <1>4 DEF Load, hubVars, FixAssumption
  <2> QED
    BY <1>4, <2>1, CloneStep DEF Load, hubVars
<1>5. ASSUME NEW answering \in SUBSET Bugs, Check(answering) PROVE FixInv'
  <2>1. FixTypes' /\ CloneHolds'
    BY <1>5 DEF Check, hubVars
  <2> QED
    BY <1>5, <2>1, CloneStep DEF Check, hubVars
<1>6. ASSUME NEW result \in {"none", "origin", "both"}, Clone(result) PROVE FixInv'
  <2>1. FixTypes' /\ CloneHolds'
    BY <1>6 DEF Clone, hubVars
  <2> QED
    BY <1>6, <2>1, CloneStep DEF Clone, hubVars
<1> QED
  BY <1>1, <1>2, <1>3, <1>4, <1>5, <1>6

\* The steps of a group in the clone.
LEMMA InTheClone ==
  ASSUME FixAssumption, FixInv, NEW ok \in BOOLEAN,
         Edit \/ Branch(ok) \/ Submit(ok) \/ Commit(ok)
  PROVE  FixInv'
<1> DEFINE p == Primary(group)
<1>1. group \in Groups /\ p \in Bugs
  BY PrimaryInGroup DEF FixInv, FixTypes, InGroup, Edit, Branch, Submit, Commit
<1>2. /\ FixTypes /\ CloneHolds
      /\ group \subseteq Bugs
  BY <1>1 DEF FixInv, Groups
<1>3. CASE Edit
  <2>1. FixTypes' /\ CloneHolds'
    BY <1>1, <1>2, <1>3 DEF Edit, hubVars, FixTypes, CloneHolds, InGroup, Its
  <2> QED
    BY <1>3, <2>1, CloneStep DEF Edit, hubVars
<1>4. CASE Branch(ok)
  <2>1. \/ /\ local' = With(local, p, {})
           /\ at' = "edit" /\ UNCHANGED <<todo, group>>
        \/ /\ local' \in {local, Restrict(local, DOMAIN local \ {p})}
           /\ todo' = todo \ {group} /\ at' = "pick"
    BY <1>4, Zenon DEF Branch, Proceed, NextGroup
  <2>2. tree' = {} /\ UNCHANGED <<index, hubVars, left>>
    BY <1>4 DEF Branch, Cleaned
  <2>3. CASE local' = With(local, p, {}) /\ at' = "edit" /\ UNCHANGED <<todo, group>>
    <3>1. DOMAIN local' = DOMAIN local \cup {p} /\ local'[p] = {}
      BY <2>3 DEF With
    <3>2. FixTypes' /\ CloneHolds'
      BY <1>1, <1>2, <1>4, <2>2, <2>3, <3>1 DEF Branch, hubVars, FixTypes, CloneHolds, InGroup
    <3> QED
      BY <2>2, <2>3, <3>2, CloneStep
  <2>4. CASE /\ local' \in {local, Restrict(local, DOMAIN local \ {p})}
             /\ todo' = todo \ {group} /\ at' = "pick"
    <3>1. DOMAIN local' \subseteq DOMAIN local
      BY <2>4 DEF Restrict
    <3>2. FixTypes' /\ CloneHolds'
      BY <1>1, <1>2, <1>4, <2>2, <2>4, <3>1 DEF Branch, hubVars, FixTypes, CloneHolds, InGroup
    <3> QED
      BY <2>2, <2>4, <3>2, CloneStep
  <2> QED
    BY <2>1, <2>3, <2>4
<1>5. CASE Submit(ok)
  <2>1. \/ todo' = todo \ {group} /\ at' = "pick" /\ group' = {} /\ UNCHANGED <<index, tree>>
        \/ todo' = todo \ {group} /\ at' = "pick" /\ group' = {} /\ index' = {} /\ tree' = {}
        \/ /\ at' = "commit" /\ UNCHANGED <<todo, group>>
           /\ index' = index \cup tree /\ tree' = {} /\ index \cup tree # {}
    BY <1>5, Zenon DEF Submit, Proceed, NextGroup
  <2>2. at = "submit" /\ UNCHANGED <<local, hubVars, left>>
    BY <1>5 DEF Submit
  <2>3. FixTypes' /\ CloneHolds'
    BY <1>1, <1>2, <2>1, <2>2 DEF hubVars, FixTypes, CloneHolds, InGroup, Its
  <2> QED
    BY <2>1, <2>2, <2>3, CloneStep
<1>6. CASE Commit(ok)
  <2>1. \/ /\ local' = [local EXCEPT ![p] = @ \cup index] /\ index' = {}
           /\ at' = "push" /\ UNCHANGED <<todo, group, left>>
        \/ /\ todo' = todo \ {group} /\ at' = "pick" /\ group' = {}
           /\ left' = left \cup index /\ UNCHANGED <<local, index>>
    BY <1>6, Zenon DEF Commit, Proceed, NextGroup
  <2>2. at = "commit" /\ UNCHANGED <<tree, hubVars>>
    BY <1>6 DEF Commit
  <2>3. FixTypes' /\ CloneHolds'
    BY <1>1, <1>2, <2>1, <2>2 DEF hubVars, FixTypes, CloneHolds, InGroup, Its
  <2> QED
    BY <2>1, <2>2, <2>3, CloneStep
<1> QED
  BY <1>3, <1>4, <1>5, <1>6

\* The steps at GitHub leave the clone alone.
LEMMA CloneKept ==
  ASSUME CloneHolds, UNCHANGED <<repoVars, left>>,
         \/ UNCHANGED <<at, group>>
         \/ at # "commit" /\ at' \notin {"edit", "submit", "commit", "push"}
  PROVE  CloneHolds'
  BY DEF CloneHolds, Its, repoVars

\* Every open pull request keeps its branch with the edits it held, and
\* nobody else has it.
LEMMA BranchesKept ==
  ASSUME FixInv, left \subseteq left', Open' \subseteq Open,
         \A i \in Open' : pulls'[i].group = pulls[i].group,
         \A i \in Open' :
           LET p == Primary(pulls[i].group) IN p \in DOMAIN fork' /\ fork'[p] = fork[p]
  PROVE  OwnBranch' /\ PullIsItsGroup'
<1>1. OwnBranch'
  BY DEF FixInv, OwnBranch
<1>2. PullIsItsGroup'
  BY DEF FixInv, PullIsItsGroup
<1> QED
  BY <1>1, <1>2

LEMMA ConcludeKeeps ==
  ASSUME FixAssumption, FixInv, NEW i \in Open, NEW state \in {"merged", "closed"}, Conclude(i, state)
  PROVE  FixInv'
<1> DEFINE p == Primary(pulls[i].group)
<1>1. /\ pulls \in Seq(PullRecords) /\ i \in DOMAIN pulls /\ pulls[i] \in PullRecords
  BY DEF FixInv, FixTypes, Open
<1>2. /\ pulls' = [pulls EXCEPT ![i] = [pulls[i] EXCEPT !.state = state]]
      /\ UNCHANGED <<at, todo, group, count, repoVars, left>>
  BY DEF Conclude
<1>3. [pulls[i] EXCEPT !.state = state] \in PullRecords
      /\ [pulls[i] EXCEPT !.state = state].state # "open"
  BY <1>1 DEF PullRecords
<1> DEFINE done == [pulls[i] EXCEPT !.state = state]
<1>a. pulls' = [pulls EXCEPT ![i] = done] /\ done \in PullRecords /\ done.state # "open"
  BY <1>2, <1>3
<1> HIDE DEF done
<1>4. /\ pulls' \in Seq(PullRecords) /\ DOMAIN pulls' = DOMAIN pulls
      /\ \A k \in DOMAIN pulls \ {i} : pulls'[k] = pulls[k]
      /\ pulls'[i].state # "open"
  BY <1>1, <1>a
<1>5. Open' = Open \ {i}
  BY <1>4 DEF Open
<1>6. /\ DOMAIN fork' = DOMAIN fork
      /\ \A q \in DOMAIN fork : q # p => fork'[q] = fork[q]
  BY DEF Conclude
<1>7. \A k \in Open' : /\ pulls'[k].group = pulls[k].group
                       /\ Primary(pulls[k].group) # p /\ Primary(pulls[k].group) \in DOMAIN fork
  BY <1>4, <1>5 DEF FixInv, OwnBranch, Open
<1>8. OwnBranch' /\ PullIsItsGroup'
  BY <1>2, <1>5, <1>6, <1>7, BranchesKept
<1>9. FixTypes'
  BY <1>2, <1>4, <1>6 DEF FixInv, FixTypes, repoVars
<1>10. CloneHolds'
  BY <1>2, CloneKept DEF FixInv
<1>11. Pushed'
  BY <1>2, <1>5, <1>6, <1>7 DEF FixInv, Pushed, Its
<1> QED
  BY <1>8, <1>9, <1>10, <1>11 DEF FixInv

\* A branch goes only with the pull requests on it.
LEMMA CleanupKeeps ==
  ASSUME FixAssumption, FixInv, NEW listed \in BOOLEAN, NEW refused \in SUBSET DOMAIN fork,
         CleanupStaleBranches(listed, refused)
  PROVE  FixInv'
<1> DEFINE shown == {Primary(pulls[i].group) : i \in Newest(Open, Page)}
           gone  == IF listed /\ remotes = "both" THEN DOMAIN fork \ (shown \cup refused) ELSE {}
           Stale(i) == i \in Open /\ Primary(pulls[i].group) \in gone
           closed(i) == [pulls[i] EXCEPT !.state = "closed"]
<1>1. /\ at = "cleanup" /\ at' = "pick"
      /\ fork' = Restrict(fork, DOMAIN fork \ gone)
      /\ pulls' = [i \in DOMAIN pulls |-> IF Stale(i) THEN closed(i) ELSE pulls[i]]
      /\ UNCHANGED <<todo, group, count, repoVars, left>>
  BY DEF CleanupStaleBranches
<1>2. /\ pulls \in Seq(PullRecords)
      /\ \A i \in DOMAIN pulls : pulls[i] \in PullRecords
  BY DEF FixInv, FixTypes
<1>3. \A i \in DOMAIN pulls : /\ closed(i) \in PullRecords /\ closed(i).state = "closed"
  BY <1>2 DEF PullRecords
<1> HIDE DEF gone, closed
<1>4. DOMAIN pulls' = DOMAIN pulls
  BY <1>1
<1>a. \A i \in DOMAIN pulls :
        \/ Stale(i) /\ pulls'[i] \in PullRecords /\ pulls'[i].state = "closed"
        \/ ~Stale(i) /\ pulls'[i] = pulls[i]
  <2> HIDE DEF Stale
  <2> QED
    BY <1>1, <1>3
<1>5. pulls' \in Seq(PullRecords)
  <2>1. pulls' = [i \in 1..Len(pulls) |-> pulls'[i]] /\ Len(pulls) \in Nat /\ DOMAIN pulls = 1..Len(pulls)
    BY <1>1, <1>2, <1>4
  <2>2. \A i \in 1..Len(pulls) : pulls'[i] \in PullRecords
    BY <1>2, <1>a, <2>1, Zenon
  <2> QED
    BY <2>1, <2>2
<1>6. DOMAIN fork' = DOMAIN fork \ gone /\ \A q \in DOMAIN fork' : fork'[q] = fork[q]
  BY <1>1 DEF Restrict
<1>7. \A i \in Open' : i \in Open /\ ~Stale(i) /\ pulls'[i] = pulls[i]
  <2> SUFFICES ASSUME NEW i \in DOMAIN pulls, pulls'[i].state = "open"
               PROVE  pulls[i].state = "open" /\ ~Stale(i) /\ pulls'[i] = pulls[i]
    BY <1>4 DEF Open
  <2> HIDE DEF Stale
  <2> QED
    BY <1>a
<1>8. \A i \in Open' :
        /\ pulls'[i].group = pulls[i].group
        /\ Primary(pulls[i].group) \in DOMAIN fork'
  BY <1>6, <1>7 DEF FixInv, OwnBranch, Stale
<1>9. OwnBranch' /\ PullIsItsGroup'
  BY <1>1, <1>6, <1>7, <1>8, BranchesKept
<1>10. FixTypes'
  BY <1>1, <1>5, <1>6 DEF FixInv, FixTypes, repoVars, InGroup
<1>11. CloneHolds' /\ Pushed'
  BY <1>1, CloneKept DEF FixInv, Pushed
<1> QED
  BY <1>9, <1>10, <1>11 DEF FixInv

\* The fork accepts a branch that no open pull request has.
LEMMA PushKeeps ==
  ASSUME FixAssumption, FixInv, NEW ok \in BOOLEAN, Push(ok)
  PROVE  FixInv'
<1> DEFINE p == Primary(group)
<1>0. /\ at = "push" /\ group \in Groups /\ p \in Bugs /\ p \in DOMAIN local
      /\ local[p] # {} /\ Its(local[p])
  BY PrimaryInGroup DEF FixInv, FixTypes, InGroup, CloneHolds, Push
<1>1. \/ /\ Accepts(p) /\ fork' = With(fork, p, local[p])
         /\ at' = "create" /\ UNCHANGED <<todo, group>>
      \/ /\ fork' = fork
         /\ todo' = todo \ {group} /\ at' = "pick"
  BY Zenon DEF Push, Proceed, NextGroup
<1>2. UNCHANGED <<count, repoVars, pulls, left>>
  BY DEF Push
<1>3. CASE fork' = fork /\ todo' = todo \ {group} /\ at' = "pick"
  <2>1. FixTypes'
    BY <1>0, <1>2, <1>3 DEF FixInv, FixTypes, repoVars, InGroup
  <2>2. CloneHolds' /\ Pushed'
    BY <1>0, <1>2, <1>3, CloneKept DEF FixInv, Pushed
  <2>3. OwnBranch' /\ PullIsItsGroup'
    BY <1>2, <1>3 DEF FixInv, OwnBranch, PullIsItsGroup, Open
  <2> QED
    BY <2>1, <2>2, <2>3 DEF FixInv
<1>4. CASE /\ Accepts(p) /\ fork' = With(fork, p, local[p])
           /\ at' = "create" /\ UNCHANGED <<todo, group>>
  <2>1. DOMAIN fork' = DOMAIN fork \cup {p} /\ fork'[p] = local[p]
        /\ \A q \in DOMAIN fork \ {p} : fork'[q] = fork[q]
    BY <1>4 DEF With
  <2>2. \A i \in Open : Primary(pulls[i].group) # p /\ Primary(pulls[i].group) \in DOMAIN fork
    BY <1>4 DEF Accepts, FixInv, PullIsItsGroup, OwnBranch
  <2>3. Open' = Open
    BY <1>2 DEF Open
  <2>4. OwnBranch' /\ PullIsItsGroup'
    BY <1>2, <2>1, <2>2, <2>3, BranchesKept
  <2>5. FixTypes'
    BY <1>0, <1>2, <1>4, <2>1 DEF FixInv, FixTypes, repoVars, InGroup
  <2>6. CloneHolds'
    BY <1>0, <1>2, <1>4, CloneKept DEF FixInv
  <2>7. Pushed'
    BY <1>0, <1>2, <1>4, <2>1, <2>2, <2>3 DEF Pushed, Its
  <2> QED
    BY <2>4, <2>5, <2>6, <2>7 DEF FixInv
<1> QED
  BY <1>1, <1>3, <1>4

LEMMA CreatePullKeeps ==
  ASSUME FixAssumption, FixInv, NEW ok \in BOOLEAN, CreatePull(ok)
  PROVE  FixInv'
<1> DEFINE new == [group |-> group, state |-> "open"]
<1>1. /\ at = "create" /\ at' = "pick" /\ todo' = todo \ {group}
      /\ UNCHANGED <<count, repoVars, fork, left>>
  BY DEF CreatePull, NextGroup
<1>2. pulls' = pulls \/ pulls' = Append(pulls, new)
  BY DEF CreatePull
<1>3. pulls \in Seq(PullRecords) /\ new \in PullRecords
  BY <1>1 DEF FixInv, FixTypes, InGroup, PullRecords
<1>4. CloneHolds' /\ Pushed'
  BY <1>1, CloneKept DEF FixInv, Pushed
<1>5. FixTypes'
  <2>1. pulls' \in Seq(PullRecords)
    <3> HIDE DEF new
    <3> QED
      BY <1>2, <1>3
  <2> QED
    BY <1>1, <2>1 DEF FixInv, FixTypes, repoVars, InGroup
<1>6. CASE pulls' = pulls
  BY <1>1, <1>4, <1>5, <1>6 DEF FixInv, OwnBranch, PullIsItsGroup, Open
<1>7. CASE pulls' = Append(pulls, new)
  <2> DEFINE n == Len(pulls) + 1
  <2>1. /\ DOMAIN pulls' = DOMAIN pulls \cup {n} /\ n \notin DOMAIN pulls
        /\ pulls'[n] = new /\ \A i \in DOMAIN pulls : pulls'[i] = pulls[i]
    <3> HIDE DEF new
    <3> QED
      BY <1>3, <1>7
  <2> HIDE DEF n
  <2>2. Open' = Open \cup {n} /\ n \notin Open /\ pulls'[n].group = group
    BY <2>1 DEF Open
  <2>3. \A i \in Open : pulls'[i] = pulls[i]
    BY <2>1 DEF Open
  <2>4. /\ Primary(group) \in DOMAIN fork
        /\ fork[Primary(group)] # {} /\ Its(fork[Primary(group)])
        /\ \A i \in Open : Primary(pulls[i].group) # Primary(group)
    BY <1>1 DEF FixInv, Pushed
  <2>5. OwnBranch'
    BY <1>1, <2>2, <2>3, <2>4 DEF FixInv, OwnBranch
  <2>6. PullIsItsGroup'
    BY <1>1, <2>2, <2>3, <2>4 DEF FixInv, PullIsItsGroup, Its
  <2> QED
    BY <1>4, <1>5, <2>5, <2>6 DEF FixInv
<1> QED
  BY <1>2, <1>6, <1>7

LEMMA FixNext ==
  ASSUME FixAssumption
  PROVE  FixInv /\ [FixStep]_fixVars => FixInv'
<1> SUFFICES ASSUME FixInv, [FixStep]_fixVars PROVE FixInv'
  OBVIOUS
<1>1. CASE UNCHANGED fixVars
  <2>1. Open' = Open
    BY <1>1 DEF Open, fixVars
  <2> QED
    BY <1>1, <2>1 DEF fixVars, FixInv, FixTypes, CloneHolds, OwnBranch, Pushed, PullIsItsGroup, Its
<1> QED
  BY <1>1, BetweenGroups, InTheClone, ConcludeKeeps, CleanupKeeps, PushKeeps, CreatePullKeeps DEF FixStep

LEMMA FixInvariant ==
  ASSUME FixAssumption
  PROVE  FixSpec => []FixInv
  BY FixInit, FixNext, PTL DEF FixSpec

(***************************************************************************)
(* Theorems                                                                *)
(***************************************************************************)

\* The types; a commit is never made of nothing.
THEOREM FixTypeCorrect ==
  ASSUME FixAssumption
  PROVE  FixSpec => []FixTypeOK
<1>1. FixInv => FixTypeOK
  BY DEF FixInv, FixTypes, CloneHolds, FixTypeOK, InGroup, Groups
<1> QED
  BY <1>1, FixInvariant, PTL

\* "Each group gets its own branch, so fixes are independently reviewable",
\* whatever failed, was merged, closed or cleaned up before.
THEOREM PullIsItsGroupHolds ==
  ASSUME FixAssumption
  PROVE  FixSpec => []PullIsItsGroup
<1>1. FixInv => PullIsItsGroup
  BY DEF FixInv
<1> QED
  BY <1>1, FixInvariant, PTL

(***************************************************************************)
(* The checks of a release                                                 *)
(***************************************************************************)
\* What the checks of a green run do not tell of an answer themselves.
Addresses    == [Envs -> {"valid", "none", "malformed"}]
ImageRecords == [Images -> [key : {"own", "plain", "absent"}, sha : Images \cup {NoSha}, repo : BOOLEAN]]

AnswerSets ==
  [errata |-> Addresses, image |-> ImageRecords, et |-> {"found", "no ticket", "missing"},
   nvrs |-> {"all", "none", "some"}, ages |-> {{1, 25}, {}, {-3}, {24}, {25, 49}}]

WorldInv ==
  /\ DOMAIN world = DOMAIN Complete
  /\ \A f \in DOMAIN AnswerSets : world[f] \in AnswerSets[f]

ChecksInv ==
  /\ version \in Versions /\ changes \in 0..MaxChanges
  /\ WorldInv /\ GreenMeansFit
  /\ report # << >> => report[1].exit \in {0, 1}

LEMMA AnswersTyped ==
  ASSUME NEW f \in DOMAIN Answers, NEW a \in Answers[f], f \in DOMAIN AnswerSets
  PROVE  a \in AnswerSets[f]
<1>1. f \in {"et", "nvrs", "ages"}
  BY DEF Answers, AnswerSets
<1>2. CASE f = "et"    BY <1>2 DEF Answers, AnswerSets
<1>3. CASE f = "nvrs"  BY <1>3 DEF Answers, AnswerSets
<1>4. CASE f = "ages"  BY <1>4 DEF Answers, AnswerSets
<1> QED  BY <1>1, <1>2, <1>3, <1>4

LEMMA WorldInit ==
  ASSUME NEW v, world = CompleteFor(v)
  PROVE  WorldInv
<1>1. /\ Complete.errata = [e \in Envs |-> "valid"]
      /\ Complete.image \in ImageRecords
      /\ Complete.et = "found" /\ Complete.nvrs = "all" /\ Complete.ages = {1, 25}
  BY DEF Complete, ImageRecords
<1>2. DOMAIN world = DOMAIN Complete
  BY DEF CompleteFor
<1>3. /\ world.errata = Complete.errata
      /\ world.image = [x \in Images |-> IF x \in Variants(v) THEN Complete.image[x] ELSE NoImage]
      /\ world.et = Complete.et /\ world.nvrs = Complete.nvrs /\ world.ages = Complete.ages
  BY DEF CompleteFor, Complete
<1>4. ASSUME NEW f \in DOMAIN AnswerSets PROVE world[f] \in AnswerSets[f]
  <2>1. f \in {"errata", "image", "et", "nvrs", "ages"}
    BY DEF AnswerSets
  <2>2. world.errata \in AnswerSets.errata /\ world.image \in AnswerSets.image
    BY <1>1, <1>3 DEF AnswerSets, Addresses, ImageRecords, NoImage
  <2>3. world.et \in AnswerSets.et /\ world.nvrs \in AnswerSets.nvrs /\ world.ages \in AnswerSets.ages
    BY <1>1, <1>3 DEF AnswerSets
  <2> QED  BY <2>1, <2>2, <2>3
<1> QED  BY <1>2, <1>4 DEF WorldInv

LEMMA WorldNext ==
  ASSUME WorldInv, Differ \/ Flip \/ DifferPage \/ DifferImage
  PROVE  WorldInv'
<1> USE DEF WorldInv
<1>1. CASE Differ
  BY <1>1, AnswersTyped DEF Differ, Happens
<1>2. CASE Flip
  <2>1. PICK f \in Flags : world' = [world EXCEPT ![f] = ~@]
    BY <1>2 DEF Flip, Happens
  <2>2. f \notin DOMAIN AnswerSets
    BY DEF Flags, AnswerSets
  <2> QED  BY <2>1, <2>2
<1>3. CASE DifferPage
  <2>1. ASSUME NEW e \in Envs, NEW u \in {"none", "malformed"}, world' = [world EXCEPT !.errata[e] = u]
        PROVE  WorldInv'
    <3>1. world.errata \in Addresses
      BY DEF AnswerSets
    <3>2. DOMAIN world' = DOMAIN world /\ world'.errata \in Addresses
      BY <2>1, <3>1 DEF Complete, Addresses
    <3>3. ASSUME NEW f \in DOMAIN AnswerSets, f # "errata" PROVE world'[f] = world[f]
      BY <2>1, <3>3 DEF AnswerSets, Complete
    <3>4. AnswerSets.errata = Addresses
      BY DEF AnswerSets
    <3> QED  BY <3>2, <3>3, <3>4
  <2>2. ASSUME NEW e \in Envs, NEW p, world' = [world EXCEPT !.page[e] = p]
        PROVE  WorldInv'
    <3>1. PICK f \in {"page"} : \E a : world' = [world EXCEPT ![f] = a]
      BY <2>2
    <3>2. f \notin DOMAIN AnswerSets
      BY DEF AnswerSets
    <3> QED  BY <3>1, <3>2
  <2> QED  BY <1>3, <2>1, <2>2 DEF DifferPage, Happens
<1>4. CASE DifferImage
  <2>1. ASSUME NEW x \in Variants(version), NEW image \in OtherImage(x), world' = [world EXCEPT !.image[x] = image]
        PROVE  WorldInv'
    <3>1. world.image \in ImageRecords
      BY DEF AnswerSets
    <3>2. x \in Images /\ <<"amd64", x[2]>> \in Images
      BY DEF Variants, Rhels, Images, Arches
    <3>3. image \in [key : {"own", "plain", "absent"}, sha : Images \cup {NoSha}, repo : BOOLEAN]
      <4>1. PICK y \in Images : y = <<"amd64", x[2]>>
        BY <3>2
      <4>2. \E k \in {"own", "plain", "absent"}, sha \in {x, y, NoSha}, repo \in BOOLEAN :
              image = [key |-> k, sha |-> sha, repo |-> repo]
        BY <4>1 DEF OtherImage, NoImage
      <4> QED  BY <3>2, <4>2
    <3>4. DOMAIN world' = DOMAIN world /\ world'.image \in ImageRecords
      BY <2>1, <3>1, <3>3 DEF Complete, ImageRecords
    <3>5. ASSUME NEW f \in DOMAIN AnswerSets, f # "image" PROVE world'[f] = world[f]
      BY <2>1, <3>5 DEF AnswerSets, Complete
    <3>6. AnswerSets.image = ImageRecords
      BY DEF AnswerSets
    <3> QED  BY <3>4, <3>5, <3>6
  <2>2. ASSUME NEW f \in {"mirror", "again", "catalog"}, NEW a, world' = [world EXCEPT ![f] = a]
        PROVE  WorldInv'
    <3>1. f \notin DOMAIN AnswerSets
      BY DEF AnswerSets
    <3> QED  BY <2>2, <3>1
  <2>3. \/ \E x \in Variants(version) : \E image \in OtherImage(x) : world' = [world EXCEPT !.image[x] = image]
        \/ \E f \in {"mirror", "again", "catalog"} : \E a : world' = [world EXCEPT ![f] = a]
    BY <1>4 DEF DifferImage, Happens
  <2> QED  BY <2>1, <2>2, <2>3
<1> QED  BY <1>1, <1>2, <1>3, <1>4

\* What no check of a green run that fails means, one tool after the other.
LEMMA AdvisoryGreen ==
  ASSUME WorldInv, NEW v \in Versions, ChecksAssumption, NEW envs \in {{"stage"}, {"prod"}, Envs},
         v.type # "nightly", v.bootc, ~Failed(AdvisoryResults(v, world, envs))
  PROVE  Promotable(v, world, envs)
<1> DEFINE results == AdvisoryResults(v, world, envs)
<1>1. results = GlobalResults(v, world, envs) \union UNION {VariantResults(v, world, envs, x) : x \in Variants(v)}
  BY DEF AdvisoryResults
<1>2. \A r \in results : r.status # "FAIL"
  BY DEF Failed
<1> HIDE DEF results
<1>3. \A x \in Variants(v) : \A c, s : Result(c, s) \in VariantResults(v, world, envs, x) => s # "FAIL"
  BY <1>1, <1>2 DEF Result
<1>4. \A c, s : Result(c, s) \in GlobalResults(v, world, envs) => s # "FAIL"
  BY <1>1, <1>2 DEF Result
<1>5. ASSUME NEW x \in Variants(v)
      PROVE  /\ HasImage(world, x) /\ world.image[x].repo /\ world.image[x].sha # NoSha
             /\ \A env \in envs : ~(env = "prod" /\ PreRelease(v)) =>
                  world.catalog[<<x, env>>].valid /\ world.catalog[<<x, env>>].grade # "C"
  <2>1. ImagePresent(world, x) # "FAIL" /\ Repository(world, x) # "FAIL" /\ ImageSha(world, x) # "FAIL"
    BY <1>3 DEF VariantResults
  <2>2. ASSUME NEW env \in envs
        PROVE  CatalogPresent(v, env, world.catalog[<<x, env>>]) # "FAIL" /\ ChiFreshness(world.catalog[<<x, env>>]) # "FAIL"
    <3>1. PICK c : c = world.catalog[<<x, env>>]
      OBVIOUS
    <3>2. /\ Result(<<"catalog_present", x, env>>, CatalogPresent(v, env, c)) \in VariantResults(v, world, envs, x)
          /\ Result(<<"chi", x, env>>, ChiFreshness(c)) \in VariantResults(v, world, envs, x)
      BY <3>1 DEF VariantResults
    <3> QED  BY <1>3, <3>1, <3>2
  <2> QED  BY <2>1, <2>2 DEF ImagePresent, Repository, ImageSha, CatalogPresent, ChiFreshness, Verdict, Passes, Unless
<1>6. /\ AdvisoryType(v, world) # "FAIL" /\ ShipmentFile(world) # "FAIL" /\ MrApproved(world) # "FAIL"
      /\ \A el \in Rhels(v) : ShaDistinct(world, el) # "FAIL"
      /\ "stage" \in envs => StageErrata(world) # "FAIL"
  BY <1>4 DEF GlobalResults
<1>7. \A x \in Variants(v) : x = <<x[1], x[2]>> /\ x[1] \in Arches /\ x[2] \in Rhels(v)
  BY DEF Variants
<1>8. <<"amd64", 9>> \in Variants(v)
  BY DEF Variants, Arches, Rhels
<1>9. Advisory(world)
  BY <1>5, <1>8 DEF HasImage
<1>10. world.mr = "found" /\ world.yamls = 1 /\ world.readable /\ world.stageInternal /\ world.advisory
  BY <1>9 DEF Advisory, StageInternal, Content, MrFound
<1>11. world.path /\ world.specType \in ExpectedTypes(v) /\ world.approved # "no"
  BY <1>6, <1>9, <1>10 DEF AdvisoryType, ShipmentFile, MrApproved, MrFound, Verdict, Passes
<1>12. ASSUME NEW x \in Variants(v), NEW y \in Variants(v), x # y, x[2] = y[2]
       PROVE  world.image[x].sha # world.image[y].sha
  <2>1. PICK el \in Rhels(v) : el = x[2]
    BY <1>7
  <2>2. {x, y} = {<<"amd64", el>>, <<"arm64", el>>}
    BY <1>7, <1>12, <2>1 DEF Arches
  <2>3. \A arch \in Arches : <<arch, el>> \in Variants(v)
    BY DEF Variants
  <2>4. world.image[<<"amd64", el>>].sha # world.image[<<"arm64", el>>].sha
    BY <1>5, <1>6, <2>3 DEF ShaDistinct, Verdict, Passes
  <2> QED  BY <2>2, <2>4
<1>13. ASSUME "stage" \in envs PROVE world.errata["stage"] = "valid" /\ world.page["stage"] # "lacks"
  <2>1. world.errata["stage"] \in {"valid", "none", "malformed"}
    BY DEF WorldInv, AnswerSets, Addresses, Envs
  <2>2. ErrataUrl(world, "stage") = world.errata["stage"]
    BY <1>9 DEF Advisory, StageInternal, ErrataUrl
  <2>3. StageErrata(world) # "FAIL"
    BY <1>6, <1>13
  <2>4. HasImages(world)
    <3>1. <<"amd64", 9>> \in DOMAIN world.image
      BY DEF WorldInv, AnswerSets, ImageRecords, Images, Arches
    <3> QED  BY <1>5, <1>8, <1>9, <3>1 DEF HasImage, HasImages
  <2> QED  BY <1>10, <2>1, <2>2, <2>3, <2>4 DEF StageErrata, ErrataImages, MrFound, Verdict, Passes
<1> QED  BY <1>5, <1>10, <1>11, <1>12, <1>13 DEF Promotable, HasImage

LEMMA ArtifactsGreen ==
  ASSUME WorldInv, NEW v \in Versions, ChecksAssumption, PreRelease(v), ~Failed(ArtifactResults(v, world))
  PROVE  Mirrored(v, world)
<1>1. \A r \in ArtifactResults(v, world) : r.status # "FAIL"
  BY DEF Failed
<1>2. \A c, s : Result(c, s) \in RpmResults(v, world) \union BootcResults(v, world) => s # "FAIL"
  BY <1>1 DEF Result, ArtifactResults
<1>3. v.type \in {"EC", "RC"}
  BY DEF PreRelease
<1>4. RpmMirror(v, world, v.type) # "FAIL"
  <2>1. Result(<<"rpm_mirror_ec">>, RpmMirror(v, world, "EC")) \in RpmResults(v, world)
    BY DEF RpmResults
  <2>2. Result(<<"rpm_mirror_rc">>, RpmMirror(v, world, "RC")) \in RpmResults(v, world)
    BY DEF RpmResults
  <2> QED  BY <1>2, <1>3, <2>1, <2>2
<1>5. world.rpmMirror
  BY <1>4 DEF RpmMirror, Unless, Passes
<1>6. ASSUME v.bootc, NEW x \in MirrorImages(v)
      PROVE  /\ world.mirror[x] # NoSha
             /\ (world.again[x] /\ world.mr = "found" /\ world.yamls = 1 /\ world.readable /\ world.stageInternal
                   /\ world.advisory
                   /\ \E y \in DOMAIN world.image : world.image[y].key \in {"own", "plain"} /\ world.image[y].sha # NoSha)
                => \E y \in DOMAIN world.image :
                     /\ world.image[y].sha = world.mirror[x]
                     /\ y = x \/ (y[1] = x[1] /\ ~(world.image[x].key = "own" /\ world.image[x].sha # NoSha))
  <2>1. /\ Result(<<"bootc_mirror_ec">>, BootcMirror(v, world, "EC")) \in BootcResults(v, world)
        /\ Result(<<"bootc_mirror_rc">>, BootcMirror(v, world, "RC")) \in BootcResults(v, world)
        /\ Result(<<"bootc_image_sha_match">>, ShaMatch(v, world)) \in BootcResults(v, world)
    BY <1>3, <1>6 DEF BootcResults
  <2>2. BootcMirror(v, world, v.type) # "FAIL" /\ ShaMatch(v, world) # "FAIL"
    BY <1>2, <1>3, <2>1
  <2>3. OnMirror(world, x)
    BY <1>6, <2>2 DEF BootcMirror, Unless, Passes
  <2>4. ASSUME world.again[x], world.mr = "found", world.yamls = 1, world.readable, world.stageInternal, world.advisory,
               NEW z \in DOMAIN world.image, world.image[z].key \in {"own", "plain"}, world.image[z].sha # NoSha
        PROVE  \E y \in DOMAIN world.image :
                 /\ world.image[y].sha = world.mirror[x]
                 /\ y = x \/ (y[1] = x[1] /\ ~(world.image[x].key = "own" /\ world.image[x].sha # NoSha))
    <3>1. HasShas(world)
      BY <2>4 DEF HasShas, HasSha, Advisory, StageInternal, Content, MrFound
    <3>2. x \in {y \in MirrorImages(v) : OnMirror(world, y) /\ world.again[y]}
      BY <1>6, <2>3, <2>4
    <3>3. world.mirror[x] = AdvisorySha(world, x)
      BY <2>2, <3>1, <3>2 DEF ShaMatch, Unless, Verdict, Passes, PreRelease
    <3>4. /\ x \in DOMAIN world.image /\ <<x[1], 9>> \in DOMAIN world.image /\ <<x[1], 10>> \in DOMAIN world.image
          /\ <<x[1], 9>>[1] = x[1] /\ <<x[1], 10>>[1] = x[1]
      BY DEF WorldInv, AnswerSets, ImageRecords, Images, MirrorImages, MirrorRhels
    <3>5. AdvisorySha(world, x) # NoSha
      BY <2>3, <3>3 DEF OnMirror
    <3> QED  BY <3>3, <3>4, <3>5 DEF AdvisorySha, HasSha
  <2> QED  BY <2>3, <2>4 DEF OnMirror
<1> QED  BY <1>5, <1>6 DEF Mirrored

LEMMA ErrataGreen ==
  ASSUME WorldInv, NEW v, ExitOf(ErrataResults(v, world)) = 0
  PROVE  Shippable(v, world)
<1>1. \A r \in ErrataResults(v, world) : r.status # "FAIL"
  BY DEF ExitOf, Failed
<1>2. world.et \in {"found", "no ticket", "missing"} /\ world.nvrs \in {"all", "none", "some"}
  BY DEF WorldInv, AnswerSets
<1>3. world.et # "no ticket" /\ world.et # "missing"
  <2>1. world.et \in {"no ticket", "missing"} => Result(<<"et_advisory_exists">>, "FAIL") \in ErrataResults(v, world)
    BY DEF ErrataResults, Result
  <2> QED  BY <1>1, <2>1 DEF Result
<1>4. /\ Result(<<"et_advisory_type">>, EtType(v, world)) \in ErrataResults(v, world)
      /\ Result(<<"et_qa_owner">>, EtQaOwner(world)) \in ErrataResults(v, world)
      /\ Result(<<"et_bugs_verified">>, EtBugs(world)) \in ErrataResults(v, world)
      /\ Result(<<"et_rpms_present">>, EtRpms(world)) \in ErrataResults(v, world)
      /\ Result(<<"et_status_rel_prep">>, EtRelPrep(world)) \in ErrataResults(v, world)
  BY <1>3 DEF ErrataResults
<1>5. /\ EtType(v, world) # "FAIL" /\ EtQaOwner(world) # "FAIL" /\ EtBugs(world) # "FAIL"
      /\ EtRpms(world) # "FAIL" /\ EtRelPrep(world) # "FAIL"
  BY <1>1, <1>4 DEF Result
<1> QED  BY <1>2, <1>3, <1>5 DEF Shippable, EtType, EtQaOwner, EtBugs, EtRpms, EtRelPrep, Verdict, Passes

LEMMA PostGreen ==
  ASSUME WorldInv, NEW v, PostExit(v, world) = 0
  PROVE  Available(v, world)
<1>1. \A c, s : Result(c, s) \in PostResults(v, world) => s # "FAIL"
  BY DEF PostExit, ExitOf, Failed, Result
<1>2. /\ RpmsFound(world) # "FAIL" /\ RpmsShipped(world) # "FAIL" /\ CustomerPortal(world) # "FAIL"
      /\ RpmsDownloads(world) # "FAIL" /\ DocsPublished(world) # "FAIL"
  BY <1>1 DEF PostResults
<1>3. \A el \in Rhels(v) : BootcPublished(v, world, el) # "FAIL"
  BY <1>1 DEF PostResults
<1>4. ASSUME v.bootc PROVE BootcErrata(world, "prod") /\ BootcImages(world, "prod") # "FAIL"
  <2>1. /\ Result(<<"pr_advisory_bootc_found", "prod">>, Passes(BootcErrata(world, "prod"))) \in PostResults(v, world)
        /\ Result(<<"pr_advisory_bootc_images", "prod">>, BootcImages(world, "prod")) \in PostResults(v, world)
    BY <1>4 DEF PostResults
  <2> QED  BY <1>1, <2>1 DEF Passes
<1>5. ASSUME v.bootc
      PROVE  /\ world.mr = "found" /\ world.errata["prod"] = "valid" /\ (HasImages(world) => world.page["prod"] # "lacks")
             /\ \A x \in Variants(v) : world.catalog[<<x, "prod">>].valid
  <2>1. Content(world) /\ world.errata["prod"] = "valid"
    BY <1>4, <1>5 DEF BootcErrata, ErrataUrl
  <2>2. HasImages(world) => world.page["prod"] # "lacks"
    BY <1>4, <1>5 DEF BootcImages, Verdict, Passes
  <2>3. ASSUME NEW x \in Variants(v) PROVE world.catalog[<<x, "prod">>].valid
    <3>1. PICK arch \in Arches, el \in Rhels(v) : x = <<arch, el>>
      BY DEF Variants
    <3> QED  BY <1>3, <1>5, <3>1 DEF BootcPublished, Unless, Passes
  <2> QED  BY <2>1, <2>2, <2>3 DEF Content, MrFound
<1>6. world.hydra # "missing" /\ world.docs \notin {"error", "not mentioned"}
  BY <1>2 DEF RpmsFound, DocsPublished, Verdict, Passes
<1>7. ASSUME world.hydra = "found"
      PROVE  /\ world.portal \notin {"error", "empty"} /\ (world.spec = "known" => world.portal # "lacks")
             /\ world.brew # "no vpn" /\ world.et = "found" => world.status \notin {"NEW_FILES", "QE", "REL_PREP"}
  BY <1>2, <1>7 DEF Public, EtAdvisory, CustomerPortal, RpmsDownloads, RpmsShipped, Verdict, Passes
<1> QED  BY <1>5, <1>6, <1>7 DEF Available

LEMMA PrechecksGreen ==
  ASSUME WorldInv, NEW v, NEW named \in BOOLEAN
  PROVE  /\ EcrcLabel(v, world, ActualType(v), named) = "OK" => EcrcReady(world)
         /\ NightlyExit(world, named) = 0 /\ NightlyLabel(world, named) = "OK" => NightlyFresh(world)
<1>1. ASSUME EcrcLabel(v, world, ActualType(v), named) = "OK" PROVE EcrcReady(world)
  <2>1. EcrcStatus(world, named) = "READY"
    BY <1>1 DEF EcrcLabel
  <2>2. world.payload = "Accepted" /\ OnPage(world)
    BY <2>1 DEF EcrcStatus
  <2> QED  BY <2>2 DEF OnPage, EcrcReady
<1>2. ASSUME NightlyExit(world, named) = 0, NightlyLabel(world, named) = "OK" PROVE NightlyFresh(world)
  <2>1. Checked(world, named) /\ ~NoNightly(world) /\ world.ages # {} /\ InTime(world)
    BY <1>2 DEF NightlyLabel
  <2>2. world.lifecycle # "unknown" /\ world.lifecycle # "ended"
    <3>1. world.lifecycle # "unknown"
      <4>1. ASSUME world.lifecycle = "unknown" PROVE NightlyExit(world, named) = 1
        BY <4>1, Zenon DEF NightlyExit
      <4> QED  BY <1>2, <4>1
    <3>2. world.lifecycle # "ended"
      BY <2>1 DEF Checked
    <3> QED  BY <3>1, <3>2
  <2>3. world.ages \in {{1, 25}, {-3}, {24}, {25, 49}}
    BY <2>1 DEF WorldInv, AnswerSets
  <2>4. \E age \in world.ages : \A other \in world.ages : age <= other
    BY <2>3
  <2>5. Gap(world) \in world.ages
    BY <2>4 DEF Gap, Min
  <2> QED  BY <2>1, <2>2, <2>5 DEF NightlyFresh, InTime
<1> QED  BY <1>1, <1>2

LEMMA ChecksInit ==
  ASSUME ChecksAssumption, InitChecks
  PROVE  ChecksInv
<1>1. WorldInv
  BY WorldInit DEF InitChecks
<1>2. GreenMeansFit
  BY DEF InitChecks, GreenMeansFit, Green, Says
<1> QED  BY <1>1, <1>2 DEF ChecksInv, InitChecks, ChecksAssumption

\* A report that is what a run of its tool found of the release.
Reported(tool, checks, failed, exit, json) ==
  LET good == exit = 0 /\ (json => ~failed)
  IN
  /\ exit \in {0, 1} /\ report' = <<[tool |-> tool, checks |-> checks, failed |-> failed, exit |-> exit, json |-> json]>>
  /\ UNCHANGED <<version, world, changes>>
  /\ \A envs \in {{"stage"}, {"prod"}, Envs} :
       tool = <<"advisory_promotion", envs>> /\ good /\ version.type # "nightly" => Promotable(version, world, envs)
  /\ tool = <<"validate_artifacts">> /\ good /\ PreRelease(version) => Mirrored(version, world)
  /\ tool = <<"errata_promotion">> /\ good => Shippable(version, world)
  /\ tool = <<"post_release">> /\ good => Available(version, world)
  /\ tool = <<"precheck_ecrc", ActualType(version)>> /\ "OK" \in checks => EcrcReady(world)
  /\ tool = <<"precheck_nightly">> /\ good /\ "OK" \in checks => NightlyFresh(world)

LEMMA ReportKeeps ==
  ASSUME ChecksInv, NEW tool, NEW checks, NEW failed, NEW exit, NEW json, Reported(tool, checks, failed, exit, json)
  PROVE  ChecksInv'
<1>1. /\ report' # << >> /\ report'[1].tool = tool /\ report'[1].checks = checks
      /\ report'[1].failed = failed /\ report'[1].exit = exit /\ report'[1].json = json
  BY DEF Reported
<1>2. UNCHANGED <<version, world, changes>>
  BY DEF Reported
<1>3. WorldInv'
  BY <1>2 DEF ChecksInv, WorldInv
<1>4. GreenMeansFit'
  BY <1>1, <1>2 DEF GreenMeansFit, Green, Says, Reported
<1> QED  BY <1>1, <1>2, <1>3, <1>4 DEF ChecksInv, Reported

LEMMA ChecksNext ==
  ASSUME ChecksAssumption, ChecksInv, [ChecksStep]_checksVars
  PROVE  ChecksInv'
<1>0. WorldInv /\ version \in Versions
  BY DEF ChecksInv
<1>1. CASE Differ \/ Flip \/ DifferPage \/ DifferImage
  <2>1. changes < MaxChanges /\ changes' = changes + 1 /\ report = << >> /\ UNCHANGED <<version, report>>
    BY <1>1 DEF Differ, Flip, DifferPage, DifferImage, Happens
  <2>2. WorldInv'
    BY <1>0, <1>1, WorldNext
  <2>3. GreenMeansFit'
    BY <2>1 DEF GreenMeansFit, Green, Says
  <2>4. changes' \in 0..MaxChanges
    BY <2>1 DEF ChecksInv, ChecksAssumption
  <2> QED  BY <2>1, <2>2, <2>3, <2>4 DEF ChecksInv
<1>2. ASSUME NEW envs \in {{"stage"}, {"prod"}, Envs}, NEW json \in BOOLEAN, CheckAdvisory(envs, json) PROVE ChecksInv'
  <2>1. PICK checks, failed, exit :
          /\ failed = Failed(AdvisoryResults(version, world, envs))
          /\ exit \in {0, 1} /\ exit = AdvisoryExit(version, world, envs, json)
          /\ report' = <<[tool |-> <<"advisory_promotion", envs>>, checks |-> checks, failed |-> failed,
                          exit |-> exit, json |-> json]>>
          /\ UNCHANGED <<version, world, changes>>
    BY <1>2 DEF CheckAdvisory, Run, Ends, AdvisoryExit, ExitOf
  <2>2. exit = 0 /\ (json => ~failed) => version.bootc /\ ~Failed(AdvisoryResults(version, world, envs))
    BY <2>1 DEF AdvisoryExit, ExitOf
  <2>3. exit = 0 /\ (json => ~failed) /\ version.type # "nightly" => Promotable(version, world, envs)
    BY <1>0, <2>2, AdvisoryGreen
  <2>4. Reported(<<"advisory_promotion", envs>>, checks, failed, exit, json)
    BY <2>1, <2>3 DEF Reported
  <2> QED  BY <1>0, <2>4, ReportKeeps
<1>3. ASSUME NEW json \in BOOLEAN, CheckArtifacts(json) PROVE ChecksInv'
  <2>1. PICK checks, failed, exit :
          /\ failed = Failed(ArtifactResults(version, world))
          /\ exit \in {0, 1} /\ exit = ArtifactExit(version, world, json)
          /\ report' = <<[tool |-> <<"validate_artifacts">>, checks |-> checks, failed |-> failed,
                          exit |-> exit, json |-> json]>>
          /\ UNCHANGED <<version, world, changes>>
    BY <1>3 DEF CheckArtifacts, Run, Ends, ArtifactExit, ExitOf
  <2>2. exit = 0 /\ (json => ~failed) => ~Failed(ArtifactResults(version, world))
    BY <2>1 DEF ArtifactExit, ExitOf
  <2>3. exit = 0 /\ (json => ~failed) /\ PreRelease(version) => Mirrored(version, world)
    BY <1>0, <2>2, ArtifactsGreen
  <2>4. Reported(<<"validate_artifacts">>, checks, failed, exit, json)
    BY <2>1, <2>3 DEF Reported
  <2> QED  BY <1>0, <2>4, ReportKeeps
<1>4. CASE CheckErrata
  <2>1. PICK checks, failed, exit :
          /\ exit \in {0, 1} /\ exit = ExitOf(ErrataResults(version, world))
          /\ report' = <<[tool |-> <<"errata_promotion">>, checks |-> checks, failed |-> failed,
                          exit |-> exit, json |-> FALSE]>>
          /\ UNCHANGED <<version, world, changes>>
    BY <1>4 DEF CheckErrata, Run, Ends, ExitOf
  <2>2. exit = 0 => Shippable(version, world)
    BY <1>0, <2>1, ErrataGreen
  <2>3. Reported(<<"errata_promotion">>, checks, failed, exit, FALSE)
    BY <2>1, <2>2 DEF Reported
  <2> QED  BY <1>0, <2>3, ReportKeeps
<1>5. CASE CheckPublished
  <2>1. PICK checks, failed, exit :
          /\ exit \in {0, 1} /\ exit = PostExit(version, world)
          /\ report' = <<[tool |-> <<"post_release">>, checks |-> checks, failed |-> failed,
                          exit |-> exit, json |-> FALSE]>>
          /\ UNCHANGED <<version, world, changes>>
    BY <1>5 DEF CheckPublished, Run, Ends, PostExit, ExitOf
  <2>2. exit = 0 => Available(version, world)
    BY <1>0, <2>1, PostGreen
  <2>3. Reported(<<"post_release">>, checks, failed, exit, FALSE)
    BY <2>1, <2>2 DEF Reported
  <2> QED  BY <1>0, <2>3, ReportKeeps
<1>6. ASSUME NEW wanted \in {"EC", "RC"}, NEW named \in BOOLEAN, CheckEcrc(wanted, named) PROVE ChecksInv'
  <2>1. PICK label, exit :
          /\ exit \in {0, 1} /\ label = EcrcLabel(version, world, wanted, named)
          /\ report' = <<[tool |-> <<"precheck_ecrc", wanted>>, checks |-> {label}, failed |-> FALSE,
                          exit |-> exit, json |-> FALSE]>>
          /\ UNCHANGED <<version, world, changes>>
    BY <1>6 DEF CheckEcrc, Precheck, Ends, EcrcExit
  <2>2. wanted = ActualType(version) /\ label = "OK" => EcrcReady(world)
    BY <1>0, <2>1, PrechecksGreen
  <2>3. Reported(<<"precheck_ecrc", wanted>>, {label}, FALSE, exit, FALSE)
    BY <2>1, <2>2 DEF Reported
  <2> QED  BY <1>0, <2>3, ReportKeeps
<1>7. ASSUME NEW named \in BOOLEAN, CheckNightly(named) PROVE ChecksInv'
  <2>1. PICK label, exit :
          /\ exit \in {0, 1} /\ label = NightlyLabel(world, named) /\ exit = NightlyExit(world, named)
          /\ report' = <<[tool |-> <<"precheck_nightly">>, checks |-> {label}, failed |-> FALSE,
                          exit |-> exit, json |-> FALSE]>>
          /\ UNCHANGED <<version, world, changes>>
    BY <1>7 DEF CheckNightly, Precheck, Ends, NightlyExit
  <2>2. exit = 0 /\ label = "OK" => NightlyFresh(world)
    BY <1>0, <2>1, PrechecksGreen
  <2>3. Reported(<<"precheck_nightly">>, {label}, FALSE, exit, FALSE)
    BY <2>1, <2>2 DEF Reported
  <2> QED  BY <1>0, <2>3, ReportKeeps
<1>8. CASE UNCHANGED checksVars
  BY <1>8 DEF checksVars, ChecksInv, WorldInv, GreenMeansFit, Green, Says
<1> QED  BY <1>1, <1>2, <1>3, <1>4, <1>5, <1>6, <1>7, <1>8 DEF ChecksStep

LEMMA ChecksInvariant == ASSUME ChecksAssumption PROVE ChecksSpec => []ChecksInv
<1> QED  BY ChecksInit, ChecksNext, PTL DEF ChecksSpec

\* Types of the checks: a tool exits with 0 or 1.
THEOREM ChecksTypeCorrect == ASSUME ChecksAssumption PROVE ChecksSpec => []ChecksTypeOK
<1>1. ChecksInv => ChecksTypeOK
  BY DEF ChecksInv, ChecksTypeOK
<1> QED  BY <1>1, ChecksInvariant, PTL

\* A green run means that the release is fit for the step it was run before,
\* of any version and in whatever it differs from a complete release: what
\* the checks could not see they only warn of (ExitOf of each tool).
THEOREM GreenMeansFitHolds == ASSUME ChecksAssumption PROVE ChecksSpec => []GreenMeansFit
<1>1. ChecksInv => GreenMeansFit
  BY DEF ChecksInv
<1> QED  BY <1>1, ChecksInvariant, PTL

(***************************************************************************)
(* The union                                                               *)
(***************************************************************************)
\* The union behaves like each of its parts: what is proved of a part holds of
\* the specification that TLC runs.
THEOREM ImplementsParts == Spec => ProwSpec /\ EvalSpec /\ ChecksSpec /\ FixSpec
<1>1. Init => InitProw /\ StartEvaluation /\ InitChecks /\ InitFix
  BY DEF Init
<1>2. [Next]_vars => [ProwStep]_prowVars /\ [Evaluate]_evalVars /\ [ChecksStep]_checksVars /\ [FixStep]_fixVars
  BY DEF Next, vars
<1> QED  BY <1>1, <1>2, PTL DEF Spec, ProwSpec, EvalSpec, ChecksSpec, FixSpec

\* Types of all four tools, each while it moves and while it does not.
THEOREM TypesHold == Spec => []TypesOK
<1>1. ProwTypeOK /\ EvalTypeOK /\ ChecksTypeOK /\ FixTypeOK => TypesOK
  BY DEF TypesOK
<1>2. ChecksSpec => []ChecksTypeOK
  BY ReleaseAssumption, ChecksTypeCorrect
<1>3. FixSpec => []FixTypeOK
  BY ReleaseAssumption, FixTypeCorrect
<1> QED  BY <1>1, <1>2, <1>3, ImplementsParts, ProwTypeCorrect, EvalTypeCorrect, PTL
==============================================================================
