---------------------------- MODULE PayloadReport ----------------------------
(***************************************************************************)
(* payload-monitor: the payloads of each nightly stream are listed, the    *)
(* details of each are asked in parallel, and from what came back follow   *)
(* the unstable jobs and the bugs that are suggested.  Answers come in any *)
(* order, and some do not come.                                            *)
(***************************************************************************)
EXTENDS Integers, Sequences, SequencesExt, FiniteSets, FiniteSetsExt

CONSTANTS
  StreamOrder,  \* the configured versions
  EdgeJobs,     \* names of edge jobs
  Histories,    \* what the streams may hold: stream -> payloads, newest first
  PerStream,    \* payloads to look at
  Escalation,   \* failures in a row that make a job unstable
  Persistent    \* failures that make it worth a bug

Streams == ToSet(StreamOrder)
Absent  == [type |-> "none", result |-> "none"]
JobRuns    == [type : {"blocking", "informing"}, result : {"S", "F", "P"}] \cup {Absent}

MonitorAssumption ==
  /\ StreamOrder \in Seq(Streams) /\ IsInjective(StreamOrder) /\ {PerStream, Escalation, Persistent} \subseteq Nat \ {0}
  /\ Histories \subseteq [Streams -> Seq([terminal : BOOLEAN, jobs : [EdgeJobs -> JobRuns]])]

VARIABLES
  history,   \* what the release controller holds
  waiting,   \* stream -> payloads whose details are not here yet
  fetched,   \* stream -> payloads that came back, with their jobs
  step,      \* stream -> "tags", "details" or "done"
  lost, odd, \* stream -> payloads without details; payloads dropped
  risks,     \* unstable jobs: <<stream, job>>
  bugs,      \* suggested bugs: job -> versions
  analysed

monitorVars == <<history, waiting, fetched, step, lost, odd, risks, bugs, analysed>>

(***************************************************************************)
(* Collection                                                              *)
(***************************************************************************)
\* fetch_tags: the newest accepted or rejected payloads.
Listed(s) ==
  LET terminal == {i \in DOMAIN history[s] : history[s][i].terminal}
  IN  {i \in terminal : Cardinality({k \in terminal : k <= i}) <= PerStream}

InitMonitor ==
  /\ history \in Histories
  /\ waiting = [s \in Streams |-> {}] /\ fetched = [s \in Streams |-> << >>]
  /\ step = [s \in Streams |-> "tags"]
  /\ lost = [s \in Streams |-> {}] /\ odd = [s \in Streams |-> {}]
  /\ risks = {} /\ bugs = << >> /\ analysed = FALSE

\* A list that cannot be had is an empty one.
FetchTags(s, answered) ==
  /\ step[s] = "tags"
  /\ IF answered /\ Listed(s) # {}
     THEN waiting' = [waiting EXCEPT ![s] = Listed(s)] /\ step' = [step EXCEPT ![s] = "details"]
     ELSE step' = [step EXCEPT ![s] = "done"] /\ UNCHANGED waiting
  /\ lost' = [lost EXCEPT ![s] = IF answered THEN {} ELSE Listed(s)]
  /\ UNCHANGED <<history, fetched, odd, risks, bugs, analysed>>

\* Details that cannot be had leave a payload without jobs; an answer of
\* another form drops the payload.
FetchPayload(s, i, answer) ==
  /\ i \in waiting[s] /\ waiting' = [waiting EXCEPT ![s] = @ \ {i}]
  /\ fetched' = [fetched EXCEPT ![s] =
       IF answer = "odd" THEN @
       ELSE Append(@, [at |-> i, jobs |-> IF answer = "full" THEN history[s][i].jobs
                                          ELSE [j \in EdgeJobs |-> Absent]])]
  /\ lost' = (IF answer = "none" THEN [lost EXCEPT ![s] = @ \cup {i}] ELSE lost)
  /\ odd' = (IF answer = "odd" THEN [odd EXCEPT ![s] = @ \cup {i}] ELSE odd)
  /\ UNCHANGED <<history, step, risks, bugs, analysed>>

\* Mutant: payloads stay in the order of their answers.
Unsorted(payloads) == payloads

\* "Restore chronological order".
Chronological(payloads) ==
  CHOOSE sorted \in [DOMAIN payloads -> ToSet(payloads)] : IsSorted(sorted, LAMBDA p, q : p.at < q.at)

StreamDone(s) ==
  /\ step[s] = "details" /\ waiting[s] = {}
  /\ fetched' = [fetched EXCEPT ![s] = Chronological(@)]
  /\ step' = [step EXCEPT ![s] = "done"]
  /\ UNCHANGED <<history, waiting, lost, odd, risks, bugs, analysed>>

(***************************************************************************)
(* Analysis                                                                *)
(***************************************************************************)
Fails(run) == run.result = "F"

Failing(s, j) == {k \in DOMAIN fetched[s] : Fails(fetched[s][k].jobs[j])}

\* Failures of a name in all streams.
FailureCount(j) == SumFunctionOnSet([s \in Streams |-> Cardinality(Failing(s, j))], Streams)

\* The newest payloads in which the job failed, one after the other; a
\* payload without it ends the row.
Streak(payloads, j) ==
  Cardinality({n \in DOMAIN payloads : \A k \in 1..n : Fails(payloads[k].jobs[j])})

EscalationRisks ==
  {r \in Streams \X EdgeJobs :
     /\ \E k \in DOMAIN fetched[r[1]] : fetched[r[1]][k].jobs[r[2]].type = "informing"
     /\ Streak(fetched[r[1]], r[2]) >= Escalation}

Versions(j) == {s \in Streams : Failing(s, j) # {}}

\* The run that stands for a job: its newest failure in the first version.
FirstFailure(j) ==
  LET s == StreamOrder[Min({n \in DOMAIN StreamOrder : Failing(StreamOrder[n], j) # {}})]
  IN  fetched[s][Min(Failing(s, j))].jobs[j]

\* "only for failures worth filing: blocking failures, jobs that have failed
\* persistently, or jobs flagged as escalation risks".
WorthFiling(j, unstable) ==
  /\ Versions(j) # {}
  /\ \/ FirstFailure(j).type = "blocking"
     \/ FailureCount(j) >= Persistent
     \/ \E s \in Streams : <<s, j>> \in unstable

AnalyzePayloads ==
  /\ ~analysed /\ analysed' = TRUE /\ \A s \in Streams : step[s] = "done"
  /\ risks' = EscalationRisks
  /\ bugs' = [j \in {job \in EdgeJobs : WorthFiling(job, risks')} |-> Versions(j)]
  /\ UNCHANGED <<history, waiting, fetched, step, lost, odd>>

MonitorStep ==
  \/ \E s \in Streams, answered \in BOOLEAN : FetchTags(s, answered)
  \/ \E s \in Streams : \E i \in waiting[s], answer \in {"full", "none", "odd"} : FetchPayload(s, i, answer)
  \/ \E s \in Streams : StreamDone(s)
  \/ AnalyzePayloads

MonitorSpec == InitMonitor /\ [][MonitorStep]_monitorVars

(***************************************************************************)
(* Properties                                                              *)
(***************************************************************************)
MonitorTypeOK ==
  /\ step \in [Streams -> {"tags", "details", "done"}]
  /\ \A s \in Streams : waiting[s] \cup lost[s] \cup odd[s] \subseteq Listed(s)
  /\ risks \subseteq Streams \X EdgeJobs
  /\ DOMAIN bugs \subseteq EdgeJobs

\* What was so, whether the monitor heard of it or not.
ReallyFailed(s, j) == {i \in Listed(s) : Fails(history[s][i].jobs[j])}
ReallyBlocked(j)   == \E s \in Streams : \E i \in ReallyFailed(s, j) : history[s][i].jobs[j].type = "blocking"
ReallyCounted(j)   == SumFunctionOnSet([s \in Streams |-> Cardinality(ReallyFailed(s, j))], Streams)
Newest(s, n)       == {i \in Listed(s) : Cardinality({k \in Listed(s) : k <= i}) <= n}
ReallyUnstable(s, j) ==
  Cardinality(Newest(s, Escalation)) = Escalation /\ Newest(s, Escalation) \subseteq ReallyFailed(s, j)
Informs(s, j) == \E i \in Listed(s) : history[s][i].jobs[j].type = "informing"
Dropped       == \E s \in Streams : odd[s] # {}
Complete      == \A s \in Streams : lost[s] \cup odd[s] = {}

\* In whatever order the answers come and whichever are lost, an unstable job
\* failed in the newest payloads one after the other, and a bug is suggested
\* only for a job that blocked, failed persistently or is unstable, in versions
\* where it failed: a lost answer can hide trouble, not make it.  When all
\* answers came none is hidden.  (A payload whose answer has another form is
\* dropped, and its neighbours then count as one after the other.)
BugsMeanTrouble ==
  analysed =>
    /\ \A r \in risks : odd[r[1]] = {} => ReallyUnstable(r[1], r[2])
    /\ \A j \in DOMAIN bugs :
         /\ bugs[j] \subseteq {s \in Streams : ReallyFailed(s, j) # {}}
         /\ Dropped \/ ReallyBlocked(j) \/ ReallyCounted(j) >= Persistent \/ \E s \in Streams : ReallyUnstable(s, j)
    /\ Complete =>
         \A j \in EdgeJobs :
           \/ j \in DOMAIN bugs /\ bugs[j] = {s \in Streams : ReallyFailed(s, j) # {}}
           \/ /\ ReallyCounted(j) < Persistent
              /\ \A s \in Streams : Informs(s, j) => ~ReallyUnstable(s, j)
              /\ ReallyBlocked(j) => \E s \in Streams : \E i \in ReallyFailed(s, j) :
                                       history[s][i].jobs[j].type = "informing"
=============================================================================
