---------------------------- MODULE BugCorrelation ----------------------------
(***************************************************************************)
(* search-bugs.py --pipeline: the analyzed jobs of each source become      *)
(* candidates, the candidates of all sources are merged by text and by     *)
(* Jira key, and each merged candidate gets one decision.                  *)
(* A job or candidate names its CI step by a step ref and a test variant   *)
(* in front of it.  Texts are only compared, by SIMILARITY_THRESHOLD.      *)
(***************************************************************************)
EXTENDS Lists, SequencesExt, FiniteSetsExt

CONSTANTS
  SourceOrder,  \* the sources in pipeline order
  Signatures,   \* error signatures, numbered; 0 is the empty one
  Inputs,       \* what the jobs of the sources may be, a set of functions
  Similar,      \* pairs of texts as alike as the threshold asks
  OpenBugs,     \* what Jira may answer: accepted open keys by signature
  ClosedBugs    \* and the days closed bugs were updated, 0 when not known

BugSources == ToSet(SourceOrder)
Severities == 1..5
Layers     == {"test", "build", "infrastructure"}

FailedJobs == [sig : Signatures, text : Nat, ref : Nat, variants : SUBSET Nat, severity : Severities,
               name : Nat, flag : BOOLEAN, layer : Layers, finished : Nat]

CorrelationAssumption ==
  /\ SourceOrder \in Seq(BugSources) /\ IsInjective(SourceOrder)
  /\ Signatures \subseteq Nat
  /\ Inputs \subseteq [BugSources -> Seq(FailedJobs)]
  /\ OpenBugs \cup ClosedBugs \subseteq [Signatures -> SUBSET Nat]
  /\ \A answer \in OpenBugs \cup ClosedBugs, s \in Signatures : IsFiniteSet(answer[s])
  /\ \A p \in Similar : <<p[2], p[1]>> \in Similar

VARIABLES
  pipeline,    \* next step of the pipeline
  failed,      \* entries of the reports of each source, in file name order
  accepted,    \* accepted open bugs of each signature
  fixed,       \* accepted closed bugs of each signature
  candidates,  \* bug-candidates of each source
  merged,      \* bug-candidates-merged
  results      \* bug-results

correlationVars == <<pipeline, failed, accepted, fixed, candidates, merged, results>>

(***************************************************************************)
(* parse.py: grouping                                                      *)
(***************************************************************************)
\* normalize_step_name: from the ref to the next blank.  Several names are
\* joined by ", ", so the comma stays with the first of them.
Step(item) == <<item.ref, Cardinality(item.variants) > 1>>

StepsInOrder(items) ==
  FoldLeft(LAMBDA seen, item : IF Step(item) \in ToSet(seen) THEN seen ELSE Append(seen, Step(item)),
           <<>>, items)

\* An item joins the first cluster with a similar member.
Place(groups, item) ==
  LET fits == {g \in DOMAIN groups : \E i \in DOMAIN groups[g] :
                 <<item.text, groups[g][i].text>> \in Similar}
  IN IF fits = {} THEN Append(groups, <<item>>)
     ELSE [groups EXCEPT ![Min(fits)] = Append(@, item)]

ClusterBySimilarity(items) == FoldLeft(Place, <<>>, items)

GroupBySignature(items) ==
  FlattenSeq([s \in DOMAIN StepsInOrder(items) |->
    ClusterBySimilarity(Keeping(items, {item \in Range(items) : Step(item) = StepsInOrder(items)[s]}))])

(***************************************************************************)
(* Candidates of a source                                                  *)
(***************************************************************************)
\* The first item of a group with the greatest weight (Python's max).
Representative(group, Weight(_)) ==
  group[Min({i \in DOMAIN group : \A j \in DOMAIN group : Weight(group[i]) >= Weight(group[j])})]

\* Mutant: the severities add up.
SumSeverity(group) == FoldLeft(LAMBDA sum, item : sum + item.severity, 0, group)

MaxSeverity(group) == Max({group[i].severity : i \in DOMAIN group})

\* Severity first, then the job name, a number below 10.
JobWeight(job) == 10 * job.severity + job.name

\* The flag of any job, else the layer of the representative.
FailureType(group) ==
  IF \E i \in DOMAIN group : group[i].flag THEN "infrastructure"
  ELSE Representative(group, JobWeight).layer

Candidate(source, group) ==
  LET rep == Representative(group, JobWeight) IN
  [source |-> source, sig |-> rep.sig, text |-> rep.text, ref |-> rep.ref,
   variants |-> UNION {group[i].variants : i \in DOMAIN group},
   severity |-> MaxSeverity(group), type |-> FailureType(group), jobs |-> group]

\* Severity, then the number of jobs, both below 10, then the signature.
CandidateWeight(c) == 1000 * c.severity + 100 * Len(c.jobs) + c.sig

\* Most severe first, then most jobs, then by signature.
Precedes(a, b) ==
  1000 * a.severity + 100 * Len(a.jobs) - a.sig > 1000 * b.severity + 100 * Len(b.jobs) - b.sig

BuildCandidates(source) ==
  LET groups == GroupBySignature(failed[source])
      built  == [g \in DOMAIN groups |-> Candidate(source, groups[g])]
  IN Arranged(built, Precedes)

(***************************************************************************)
(* Merging                                                                 *)
(***************************************************************************)
\* Mutant: one member with the key is enough.
AnyMemberKeys(group) == UNION {accepted[group[i].sig] : i \in DOMAIN group}

SharedKeys(group) == {k \in UNION {accepted[group[i].sig] : i \in DOMAIN group} :
                        \A i \in DOMAIN group : k \in accepted[group[i].sig]}

\* A group joins the first one that still shares a key with all of it.
JoinByJira(acc, group) ==
  LET fits == {g \in DOMAIN acc : acc[g].keys \cap SharedKeys(group) # {}}
  IN IF fits = {} THEN Append(acc, [group |-> group, keys |-> SharedKeys(group)])
     ELSE [acc EXCEPT ![Min(fits)] = [group |-> @.group \o group, keys |-> @.keys \cap SharedKeys(group)]]

MergeGroupsByJira(groups) ==
  LET joined == FoldLeft(JoinByJira, <<>>, groups) IN [g \in DOMAIN joined |-> joined[g].group]

AllCandidates == FlattenSeq([i \in DOMAIN SourceOrder |-> candidates[SourceOrder[i]]])

\* The fields of a merged candidate; its type is the representative's.
MergedCandidate(group) ==
  LET rep == Representative(group, CandidateWeight) IN
  [sig |-> rep.sig, type |-> rep.type, severity |-> MaxSeverity(group), members |-> group,
   jobs |-> FlattenSeq([i \in DOMAIN group |-> group[i].jobs]),
   duplicates |-> UNION {accepted[group[i].sig] : i \in DOMAIN group},
   regressions |-> UNION {fixed[group[i].sig] : i \in DOMAIN group}]

MergeCandidates ==
  LET groups == MergeGroupsByJira(GroupBySignature(AllCandidates))
  IN Arranged([g \in DOMAIN groups |-> MergedCandidate(groups[g])], Precedes)

(***************************************************************************)
(* Decisions                                                               *)
(***************************************************************************)
\* Mutant: the last fix of any candidate counts.
AnyFixCounts(c) ==
  LET days == UNION {merged[i].regressions : i \in DOMAIN merged} IN
  \/ Max(days) = 0
  \/ \E i \in DOMAIN c.jobs : c.jobs[i].finished = 0 \/ c.jobs[i].finished > Max(days)

\* Some failure may be newer than the last fix, or that cannot be told.
MayPostdateFix(c) ==
  \/ Max(c.regressions) = 0
  \/ \E i \in DOMAIN c.jobs : c.jobs[i].finished = 0 \/ c.jobs[i].finished > Max(c.regressions)

Decision(action, key, category) == [action |-> action, key |-> key, category |-> category]

CategorizeCandidate(c) ==
  IF c.type = "infrastructure" THEN Decision("skip", 0, "infrastructure")
  ELSE IF c.duplicates # {} THEN Decision("linked", Min(c.duplicates), "")
  ELSE IF c.regressions # {} /\ ~MayPostdateFix(c) THEN Decision("skip", 0, "stale_regression")
  ELSE Decision("suggest", 0, "")

(***************************************************************************)
(* The pipeline                                                            *)
(***************************************************************************)
InitCorrelation ==
  /\ pipeline = "prepare"
  /\ failed \in Inputs /\ accepted \in OpenBugs /\ fixed \in ClosedBugs
  /\ candidates = [s \in BugSources |-> <<>>]
  /\ merged = <<>> /\ results = <<>>

Prepare ==
  /\ pipeline = "prepare"
  /\ candidates' = [s \in BugSources |-> BuildCandidates(s)]
  /\ pipeline' = "merge"
  /\ UNCHANGED <<failed, accepted, fixed, merged, results>>

Merge ==
  /\ pipeline = "merge"
  /\ merged' = MergeCandidates
  /\ pipeline' = "categorize"
  /\ UNCHANGED <<failed, accepted, fixed, candidates, results>>

CategorizeMerged ==
  /\ pipeline = "categorize"
  /\ results' = [i \in DOMAIN merged |-> [sig |-> merged[i].sig, decision |-> CategorizeCandidate(merged[i])]]
  /\ pipeline' = "validate"
  /\ UNCHANGED <<failed, accepted, fixed, candidates, merged>>

\* _validate_results: each signature once and none empty; what else it asks
\* holds of every Decision.
Validate ==
  /\ pipeline = "validate"
  /\ pipeline' = IF \E i, j \in DOMAIN results :
                      results[i].sig = 0 \/ (i # j /\ results[i].sig = results[j].sig)
                 THEN "rejected" ELSE "accepted"
  /\ UNCHANGED <<failed, accepted, fixed, candidates, merged, results>>

CorrelationStep == Prepare \/ Merge \/ CategorizeMerged \/ Validate

CorrelationSpec == InitCorrelation /\ [][CorrelationStep]_correlationVars

(***************************************************************************)
(* Properties                                                              *)
(***************************************************************************)
\* The types: severities stay within 1..5 through both merges, no candidate
\* is empty, and decisions are those the results file knows.
CorrelationTypeOK ==
  /\ pipeline \in {"prepare", "merge", "categorize", "validate", "accepted", "rejected"}
  /\ \A s \in BugSources :
       /\ \A i \in DOMAIN failed[s] : failed[s][i] \in FailedJobs
       /\ \A i \in DOMAIN candidates[s] :
            candidates[s][i].source = s /\ candidates[s][i].type \in Layers
  /\ \A i \in DOMAIN merged : merged[i].severity \in Severities /\ merged[i].jobs # <<>>
  /\ \A i \in DOMAIN results :
       results[i].decision \in [action : {"suggest", "linked", "skip"}, key : Nat,
                               category : {"", "infrastructure", "stale_regression"}]

Count(seq, item) == Cardinality({i \in DOMAIN seq : seq[i] = item})
AllJobs          == FlattenSeq([i \in DOMAIN SourceOrder |-> failed[SourceOrder[i]]])
MergedJobs       == FlattenSeq([i \in DOMAIN merged |-> merged[i].jobs])

\* Grouping, clustering and merging neither lose a failed job nor count one
\* twice, across both passes and all sources; and failures of different steps
\* share a merged candidate only if one accepted open Jira key covers each of
\* them, whatever chains of keys connect them (closed bugs never merge).
EachJobWhereItBelongs ==
  /\ pipeline \in {"categorize", "validate"} =>
       \A job \in ToSet(AllJobs) \cup ToSet(MergedJobs) : Count(AllJobs, job) = Count(MergedJobs, job)
  /\ \A i \in DOMAIN merged :
       LET members == ToSet(merged[i].members) IN
       \/ \A a, b \in members : Step(a) = Step(b)
       \/ \E k \in merged[i].duplicates : \A m \in members : k \in accepted[m.sig]

\* A failure is dismissed as older than a fix only if it has a finish date and
\* a bug closed for one of the signatures it was merged with was updated on
\* that day or later; the bugs of other candidates do not count.
NewFailureNotStale ==
  \A i \in DOMAIN results : results[i].decision.category = "stale_regression" =>
    \A job \in ToSet(merged[i].jobs) :
      job.finished # 0 /\ \E m \in ToSet(merged[i].members) : \E day \in fixed[m.sig] : job.finished <= day

\* "The output matches the schema enforced by _validate_results (exactly
\* one result per candidate, keyed by error_signature)".
ResultsMatchSchema == pipeline # "rejected"
=============================================================================
