----------------------------- MODULE PayloadTiming -----------------------------
(***************************************************************************)
(* The timing collector of payload-monitor: each build of a Prow job seeds *)
(* its cache of CI runs from the artifacts of an earlier build, adds what  *)
(* Sippy lists, prunes and publishes its own.  Builds overlap, die and are *)
(* repeated; Sippy and GCS fail for any single request.  A cache is a set  *)
(* of runs, and those of them whose duration is known: a run whose summary *)
(* cannot be read is cached with a duration of zero.                       *)
(***************************************************************************)
EXTENDS Integers, FiniteSets, FiniteSetsExt

CONSTANTS
  CiRuns, CiJobs, JobOf,  \* CI runs; Sippy lists them by job
  Started,                \* [CiRuns -> day], 0 for a run without a time stamp
  LastBuild,              \* builds of the monitor are 1..LastBuild
  MaxCandidates,          \* how many earlier builds are tried (3 in the code)
  Days,                   \* the retention window
  LastDay                 \* bound of TLC

TimingAssumption ==
  /\ JobOf \in [CiRuns -> CiJobs] /\ Started \in [CiRuns -> Nat]
  /\ LastBuild \in Nat /\ MaxCandidates \in Nat \ {0} /\ Days \in Nat \ {0} /\ LastDay \in Nat \ {0}

MonitorBuilds == 1..LastBuild

VARIABLES
  today,
  at,         \* build -> its step
  seeded,     \* build -> the build whose artifact it started from, 0 for none
  collected,  \* build -> the day it collected
  memory,     \* build -> its report
  artifact    \* build -> what GCS has of it: nothing, torn, or one cache

timingVars == <<today, at, seeded, collected, memory, artifact>>

Cold == [has |-> {}, timed |-> {}]
Caches == {c \in [has : SUBSET CiRuns, timed : SUBSET CiRuns] : c.timed \subseteq c.has}
Nothing == [torn |-> FALSE, cache |-> {}]

InitTiming ==
  /\ today = 1 /\ at = [b \in MonitorBuilds |-> "absent"]
  /\ seeded = [b \in MonitorBuilds |-> 0] /\ collected = [b \in MonitorBuilds |-> 0]
  /\ memory = [b \in MonitorBuilds |-> Cold] /\ artifact = [b \in MonitorBuilds |-> Nothing]

\* Prow makes the directory of a build when it starts.
Start(b) ==
  /\ at[b] = "absent" /\ \A c \in MonitorBuilds : c < b => at[c] # "absent"
  /\ at' = [at EXCEPT ![b] = "started"]
  /\ UNCHANGED <<today, seeded, collected, memory, artifact>>

\* _find_previous_build_ids: the highest numbers but its own.
Previous(b) ==
  LET others == {c \in MonitorBuilds \ {b} : at[c] # "absent"} IN
  {c \in others : Cardinality({d \in others : d > c}) < MaxCandidates}

\* The first candidate that has the artifact is taken; when that one is not
\* valid, no other is tried.
Seed(b, unreachable) ==
  /\ at[b] = "started" /\ at' = [at EXCEPT ![b] = "seeded"]
  /\ LET found == {c \in Previous(b) \ unreachable : artifact[c] # Nothing} IN
     IF found = {} \/ artifact[Max(found)].torn
     THEN UNCHANGED <<seeded, memory>>
     ELSE /\ seeded' = [seeded EXCEPT ![b] = Max(found)]
          /\ memory' = [memory EXCEPT ![b] = CHOOSE c \in artifact[Max(found)].cache : TRUE]
  /\ UNCHANGED <<today, collected, artifact>>

\* An age that cannot be judged passes the first test and fails the second.
WithinRetention(r) == Started[r] = 0 \/ today - Started[r] <= Days
IsRecent(r) == Started[r] # 0 /\ today - Started[r] <= Days

\* Mutant: a run that is cached already is fetched again.
FetchAll(known, answering) ==
  {r \in CiRuns : JobOf[r] \in answering /\ Started[r] <= today /\ WithinRetention(r)}

NewRuns(known, answering) ==
  {r \in CiRuns : JobOf[r] \in answering /\ Started[r] <= today /\ WithinRetention(r) /\ r \notin known}

\* collect: jobs whose listing answers, runs whose summary answers.
Collect(b, answering, summarised) ==
  /\ at[b] = "seeded" /\ at' = [at EXCEPT ![b] = "saved"]
  /\ collected' = [collected EXCEPT ![b] = today]
  /\ LET new    == NewRuns(memory[b].has, answering)
         has    == {r \in memory[b].has \cup new : IsRecent(r)}
         timed  == (memory[b].timed \ new) \cup (new \cap summarised) IN
     memory' = [memory EXCEPT ![b] = [has |-> has, timed |-> timed \cap has]]
  /\ UNCHANGED <<today, seeded, artifact>>

\* The artifacts of the build are uploaded, whole or cut off by its end.
SaveCache(b, torn) ==
  /\ at[b] = "saved" /\ at' = [at EXCEPT ![b] = "over"]
  /\ artifact' = [artifact EXCEPT ![b] = [torn |-> torn, cache |-> IF torn THEN {} ELSE {memory[b]}]]
  /\ UNCHANGED <<today, seeded, collected, memory>>

Die(b) ==
  /\ at[b] \in {"started", "seeded", "saved"} /\ at' = [at EXCEPT ![b] = "over"]
  /\ UNCHANGED <<today, seeded, collected, memory, artifact>>

NextMorning ==
  /\ today < LastDay /\ today' = today + 1
  /\ UNCHANGED <<at, seeded, collected, memory, artifact>>

TimingStep ==
  \/ NextMorning
  \/ \E b \in MonitorBuilds :
       \/ Start(b) \/ Die(b)
       \/ (\E unreachable \in SUBSET MonitorBuilds : Seed(b, unreachable))
       \/ (\E answering \in SUBSET CiJobs, summarised \in SUBSET CiRuns : Collect(b, answering, summarised))
       \/ (\E torn \in BOOLEAN : SaveCache(b, torn))

TimingSpec == InitTiming /\ [][TimingStep]_timingVars

TimingTypeOK ==
  /\ today \in 1..LastDay /\ memory \in [MonitorBuilds -> Caches]
  /\ at \in [MonitorBuilds -> {"absent", "started", "seeded", "saved", "over"}]
  /\ seeded \in [MonitorBuilds -> MonitorBuilds \cup {0}] /\ collected \in [MonitorBuilds -> 0..LastDay]

\* Across builds that overlap, repeat and fail, a run that the cache a build
\* started from knew stays in the cache it publishes while it is recent, and
\* a duration that was measured is not replaced by that of a failed request.
MeasuredKept ==
  \A b \in MonitorBuilds : seeded[b] # 0 =>
    \A new \in artifact[b].cache, old \in artifact[seeded[b]].cache :
      \A r \in old.has :
        collected[b] - Started[r] <= Days => r \in new.has /\ (r \in old.timed => r \in new.timed)
=============================================================================
