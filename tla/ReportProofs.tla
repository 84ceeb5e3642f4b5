----------------------------- MODULE ReportProofs -----------------------------
(***************************************************************************)
(* Proofs about the tools that gather and report: what the planning report *)
(* of ReleasePlanning promises, that what the monitor of PayloadReport     *)
(* concludes did happen, that ProjectNotes archives what it drops, that    *)
(* BugSearch hands on every bug it was shown, that PrNotifier lists every  *)
(* pull request that needs attention, and that BugCorrelation neither      *)
(* loses a failed job nor dismisses a new one.                             *)
(***************************************************************************)
EXTENDS ReleasePlanning, PayloadReport, ProjectNotes, BugSearch, PrNotifier, BugCorrelation, FoldLemmas

(***************************************************************************)
(* ReleasePlanning                                                         *)
(***************************************************************************)
\* The types of what the team writes.
FeatureRecords == [status : {"New", "Refinement", "In Progress"}, focus : BOOLEAN, epicDone : BOOLEAN]
StoryRecords   == [status : {"To Do", "In Progress", "Closed"}, points : Nat,
                   assignee : Members \cup Guests \cup {Nobody}, urgent : BOOLEAN, recent : BOOLEAN]

PlanningTypes ==
  /\ feature \in [Features -> FeatureRecords]
  /\ story \in [Stories -> StoryRecords]
  /\ steps \in 0..MaxSteps

LEMMA PlanningNumbers ==
  ASSUME PlanningAssumption
  PROVE  Target \in Nat /\ Target > 0 /\ Velocity \in Nat \union {Unmeasured} /\ Sprints \in Nat /\ MaxSteps \in Nat
<1>1. {Target, Sprints, MaxSteps} \subseteq Nat /\ Target > 0 /\ Velocity \in Nat \union {Unmeasured}
  BY DEF PlanningAssumption
<1> QED  BY <1>1

LEMMA PlanningInit ==
  ASSUME PlanningAssumption, InitPlanning
  PROVE  PlanningTypes
<1>1. ASSUME NEW f \in Features PROVE feature[f] \in FeatureRecords
  <2>1. feature[f] \in [status : {"New", "In Progress"}, focus : {TRUE}, epicDone : {FALSE}]
    BY DEF InitPlanning
  <2> QED  BY <2>1 DEF FeatureRecords
<1>2. ASSUME NEW s \in Stories PROVE story[s] \in StoryRecords
  <2> DEFINE new(u) == [status |-> "To Do", points |-> 0, assignee |-> Nobody, urgent |-> u, recent |-> FALSE]
  <2>1. new(TRUE) \in StoryRecords /\ new(FALSE) \in StoryRecords
    BY DEF StoryRecords
  <2>2. story[s] = new(s \in Bugs)
    BY DEF InitPlanning
  <2>3. (s \in Bugs) = TRUE \/ (s \in Bugs) = FALSE
    OBVIOUS
  <2> HIDE DEF new
  <2> QED  BY <2>1, <2>2, <2>3
<1>3. steps \in 0..MaxSteps
  <2>1. steps = 0
    BY DEF InitPlanning
  <2> QED  BY <2>1, PlanningNumbers
<1> QED  BY <1>1, <1>2, <1>3 DEF InitPlanning, PlanningTypes

LEMMA TeamTypes ==
  ASSUME PlanningAssumption, PlanningTypes, TeamMoves
  PROVE  steps' \in 0..MaxSteps
BY PlanningNumbers DEF PlanningTypes, TeamMoves

LEMMA StoryTypes ==
  ASSUME PlanningAssumption, PlanningTypes, NEW s \in Stories, NEW changed \in StoryRecords, UpdateStory(s, changed)
  PROVE  PlanningTypes'
<1>1. [changed EXCEPT !.recent = TRUE] \in StoryRecords
  BY DEF StoryRecords
<1>2. steps' \in 0..MaxSteps
  BY TeamTypes DEF UpdateStory
<1> QED  BY <1>1, <1>2 DEF UpdateStory, PlanningTypes

LEMMA PlanningNext ==
  ASSUME PlanningAssumption, PlanningTypes, [PlanningStep]_planningVars
  PROVE  PlanningTypes'
<1>0. (\A s \in Stories : story[s] \in StoryRecords) /\ (\A f \in Features : feature[f] \in FeatureRecords)
  BY DEF PlanningTypes
<1>1. CASE MonthPasses
  <2>1. \A s \in Stories : [story[s] EXCEPT !.recent = FALSE] \in StoryRecords
    BY <1>0 DEF StoryRecords
  <2> QED  BY <1>1, <2>1, TeamTypes DEF MonthPasses, PlanningTypes
<1>2. ASSUME NEW s \in Stories, StartStory(s) PROVE PlanningTypes'
  <2>1. [story[s] EXCEPT !.status = "In Progress"] \in StoryRecords
    BY <1>0 DEF StoryRecords
  <2> QED  BY <1>2, <2>1, StoryTypes DEF StartStory
<1>3. ASSUME NEW s \in Stories, CloseStory(s) PROVE PlanningTypes'
  <2>1. [story[s] EXCEPT !.status = "Closed"] \in StoryRecords
    BY <1>0 DEF StoryRecords
  <2> QED  BY <1>3, <2>1, StoryTypes DEF CloseStory
<1>4. ASSUME NEW s \in Stories, Estimate(s) PROVE PlanningTypes'
  <2>1. \A n \in Nat : [story[s] EXCEPT !.points = n] \in StoryRecords
    BY <1>0 DEF StoryRecords
  <2> QED  BY <1>4, <2>1, StoryTypes DEF Estimate
<1>5. ASSUME NEW s \in Stories, Assign(s) PROVE PlanningTypes'
  <2>1. \A p \in Members \cup Guests : [story[s] EXCEPT !.assignee = p] \in StoryRecords
    BY <1>0 DEF StoryRecords
  <2> QED  BY <1>5, <2>1, StoryTypes DEF Assign
<1>6. ASSUME NEW f \in Features, FinishEpic(f) PROVE PlanningTypes'
  <2>1. [feature[f] EXCEPT !.epicDone = TRUE] \in FeatureRecords
    BY <1>0 DEF FeatureRecords
  <2> QED  BY <1>6, <2>1, TeamTypes DEF FinishEpic, PlanningTypes
<1>7. ASSUME NEW f \in Features, Lower(f) PROVE PlanningTypes'
  <2>1. [feature[f] EXCEPT !.focus = FALSE] \in FeatureRecords
    BY <1>0 DEF FeatureRecords
  <2> QED  BY <1>7, <2>1, TeamTypes DEF Lower, PlanningTypes
<1>8. ASSUME NEW f \in Features, Refine(f) PROVE PlanningTypes'
  <2>1. [feature[f] EXCEPT !.status = "Refinement"] \in FeatureRecords
    BY <1>0 DEF FeatureRecords
  <2> QED  BY <1>8, <2>1, TeamTypes DEF Refine, PlanningTypes
<1>9. CASE UNCHANGED planningVars
  BY <1>9 DEF planningVars, PlanningTypes
<1> QED  BY <1>1, <1>2, <1>3, <1>4, <1>5, <1>6, <1>7, <1>8, <1>9 DEF PlanningStep

\* Points add up like a sum.
LEMMA PointsAdd ==
  ASSUME PlanningAssumption, PlanningTypes, NEW S \in SUBSET Stories, NEW T \in SUBSET Stories, S \cap T = {}
  PROVE  /\ Points(S) \in Nat /\ Points(T) \in Nat
         /\ Points(S \cup T) = Points(S) + Points(T)
<1>1. IsFiniteSet(S) /\ IsFiniteSet(T)
  BY FS_Subset DEF PlanningAssumption
<1> DEFINE points == [s \in Stories |-> story[s].points]
<1>2. \A s \in Stories : points[s] \in Nat
  BY DEF PlanningTypes, StoryRecords
<1>3. \A U : Points(U) = SumFunctionOnSet(points, U)
  BY DEF Points
<1> HIDE DEF points
<1> QED  BY <1>1, <1>2, <1>3, SumNat, SumUnion

LEMMA PointsPart ==
  ASSUME PlanningAssumption, PlanningTypes, NEW S \in SUBSET Stories, NEW T \in SUBSET S
  PROVE  Points(T) <= Points(S)
<1>1. T \cup (S \ T) = S
  OBVIOUS
<1>2. Points(T) \in Nat /\ Points(S \ T) \in Nat /\ Points(T \cup (S \ T)) = Points(T) + Points(S \ T)
  BY PointsAdd
<1>3. Points(S) = Points(T) + Points(S \ T)
  BY <1>1, <1>2
<1> QED  BY <1>2, <1>3

\* The open stories of a person in some features.
Mine(p, F) == {s \in Pointed(UNION {OpenOf(f) : f \in F}) : story[s].assignee = p}

LEMMA MineSplit ==
  ASSUME PlanningAssumption, PlanningTypes, NEW p, NEW F \in SUBSET Features, NEW f \in Features \ F
  PROVE  /\ Mine(p, F \cup {f}) = Mine(p, F) \cup Mine(p, {f})
         /\ Mine(p, F) \cap Mine(p, {f}) = {}
         /\ Mine(p, F) \subseteq Stories /\ Mine(p, {f}) \subseteq Stories
BY DEF Mine, Pointed, Assigned, OpenOf, InScope

LEMMA LoadTypes ==
  ASSUME PlanningAssumption, PlanningTypes, NEW p, NEW G \in SUBSET Features
  PROVE  LoadIn(p, G) \in Nat /\ LoadIn(p, G) = Points(Mine(p, G))
<1>1. Mine(p, G) \in SUBSET Stories /\ {} \in SUBSET Stories /\ Mine(p, G) \cap {} = {}
  BY DEF Mine, Pointed, Assigned, OpenOf, InScope
<1>2. Points(Mine(p, G)) \in Nat
  BY <1>1, PointsAdd
<1> QED  BY <1>2 DEF LoadIn, Mine

\* What a member has in features one by one is what the member has in all.
LEMMA LoadsAdd ==
  ASSUME PlanningAssumption, PlanningTypes, NEW p, NEW F \in SUBSET Features
  PROVE  SumFunctionOnSet([f \in Features |-> LoadIn(p, {f})], F) = LoadIn(p, F)
<1> DEFINE loads == [f \in Features |-> LoadIn(p, {f})]
           A     == {G \in SUBSET F : SumFunctionOnSet(loads, G) = LoadIn(p, G)}
<1>1. IsFiniteSet(F)
  BY FS_Subset DEF PlanningAssumption
<1>2. \A G \in SUBSET Features : LoadIn(p, G) \in Nat /\ LoadIn(p, G) = Points(Mine(p, G))
  BY LoadTypes
<1>3. \A f \in Features : loads[f] = LoadIn(p, {f}) /\ loads[f] \in Nat
  BY <1>2
<1>4. {} \in A
  <2>1. Mine(p, {}) = {}
    BY DEF Mine, Pointed, Assigned
  <2>2. LoadIn(p, {}) = 0
    BY <1>2, <2>1, SumEmpty DEF Points
  <2> QED  BY <2>2, SumEmpty
<1>5. ASSUME NEW G \in SUBSET F, NEW f \in F \ G, G \in A PROVE G \cup {f} \in A
  <2>1. IsFiniteSet(G) /\ G \in SUBSET Features /\ f \in Features /\ f \notin G
    BY <1>1, FS_Subset
  <2> HIDE DEF loads
  <2>2. SumFunctionOnSet(loads, G \cup {f}) = loads[f] + SumFunctionOnSet(loads, G)
    <3>1. (\A g \in G : loads[g] \in Int) /\ loads[f] \in Int
      BY <1>3, <2>1 DEF loads
    <3> QED  BY <2>1, <3>1, SumAdd
  <2>3. Points(Mine(p, G \cup {f})) = Points(Mine(p, G)) + Points(Mine(p, {f}))
    BY <2>1, MineSplit, PointsAdd
  <2>4. LoadIn(p, G \cup {f}) = LoadIn(p, G) + LoadIn(p, {f})
    BY <1>2, <2>1, <2>3
  <2> QED  BY <1>2, <1>3, <1>5, <2>1, <2>2, <2>4
<1>6. SUBSET F \subseteq A
  <2> HIDE DEF A
  <2> QED BY <1>1, <1>4, <1>5, SetInduction
<1> QED  BY <1>6
\* The share of a feature, in points of the member's load, is the load in it.
LEMMA ShareIsLoad ==
  ASSUME PlanningAssumption, PlanningTypes, NEW p \in Members, Load(p) > 0, NEW f \in Features
  PROVE  Share(p, f)[1] * (Load(p) \div Share(p, f)[2]) = LoadIn(p, {f})
<1>1. LoadIn(p, {f}) \in Nat /\ Load(p) \in Nat
  BY LoadTypes DEF Load, ActiveFeatures
<1>2. CASE LoadIn(p, {f}) > 0
  <2>1. Share(p, f)[1] = LoadIn(p, {f}) /\ Share(p, f)[2] = Load(p)
    BY <1>2 DEF Share
  <2> DEFINE l == Load(p)
  <2>2. l \in Nat /\ l > 0
    BY <1>1
  <2> HIDE DEF l
  <2>3. l \div l = 1
    BY <2>2
  <2> USE DEF l
  <2> QED  BY <1>1, <2>1, <2>3
<1>3. CASE ~ LoadIn(p, {f}) > 0
  <2>1. Share(p, f)[1] = 0 /\ Share(p, f)[2] = 1 /\ LoadIn(p, {f}) = 0
    BY <1>1, <1>3 DEF Share
  <2> QED  BY <1>1, <2>1
<1> QED  BY <1>2, <1>3

LEMMA PaceOnce ==
  ASSUME PlanningAssumption, PlanningTypes, NEW p \in Members, Load(p) > 0
  PROVE  SumFunctionOnSet([f \in Features |-> Share(p, f)[1] * (Load(p) \div Share(p, f)[2])], Assessed) <= Load(p)
<1> DEFINE shares == [f \in Features |-> Share(p, f)[1] * (Load(p) \div Share(p, f)[2])]
           loads  == [f \in Features |-> LoadIn(p, {f})]
<1>1. Assessed \in SUBSET ActiveFeatures /\ ActiveFeatures \in SUBSET Features
  BY DEF Assessed, ActiveFeatures
<1>2. IsFiniteSet(Assessed) /\ IsFiniteSet(ActiveFeatures)
  BY <1>1, FS_Subset DEF PlanningAssumption
<1>3. \A f \in Features : shares[f] = loads[f] /\ loads[f] \in Nat
  BY ShareIsLoad, LoadTypes
<1>4. SumFunctionOnSet(loads, ActiveFeatures) = Load(p)
  BY <1>1, LoadsAdd DEF Load
<1> HIDE DEF shares, loads
<1>5. SumFunctionOnSet(loads, Assessed) <= SumFunctionOnSet(loads, ActiveFeatures)
  <2>1. \A f \in ActiveFeatures : loads[f] \in Nat
    BY <1>1, <1>3
  <2> QED  BY <1>1, <1>2, <2>1, SumPart
<1>6. SumFunctionOnSet(shares, Assessed) = SumFunctionOnSet(loads, Assessed)
  <2>1. \A f \in Assessed : shares[f] \in Int /\ shares[f] = loads[f]
    BY <1>1, <1>3
  <2> QED  BY <1>2, <2>1, SumSame
<1> QED  BY <1>4, <1>5, <1>6 DEF shares

\* What fits is the part up to its last feature that still has work to do.
LEMMA FitsTogether ==
  ASSUME PlanningAssumption, PlanningTypes
  PROVE  SumFunctionOnSet([f \in Features |-> Remaining(f)], {f \in Assessed : Fits(f)}) <= Capacity
<1> DEFINE rest == [f \in Features |-> Remaining(f)]
           fit  == {f \in Assessed : Fits(f)}
           work == {f \in fit : rest[f] # 0}
           Sum(F) == SumFunctionOnSet(rest, F)
<1>1. Assessed \in SUBSET Features /\ fit \in SUBSET Features /\ work \in SUBSET fit
  BY DEF Assessed, ActiveFeatures
<1>2. \A F \in SUBSET Features : IsFiniteSet(F)
  BY FS_Subset DEF PlanningAssumption
<1>3. \A f \in Features : rest[f] = Remaining(f) /\ rest[f] \in Nat
  <2>1. ASSUME NEW f \in Features PROVE OpenOf(f) \in SUBSET Stories /\ {} \in SUBSET Stories /\ OpenOf(f) \cap {} = {}
    BY DEF OpenOf, InScope
  <2> QED  BY <2>1, PointsAdd DEF Remaining
<1>4. Sum(fit) = Sum(work)
  <2>1. IsFiniteSet(work) /\ IsFiniteSet(fit \ work) /\ work \cap (fit \ work) = {} /\ work \cup (fit \ work) = fit
    BY <1>1, <1>2
  <2>2. \A f \in fit \ work : rest[f] = 0
    OBVIOUS
  <2>3. \A f \in fit : rest[f] \in Int
    BY <1>1, <1>3
  <2> HIDE DEF rest, fit, work
  <2>4. Sum(work \cup (fit \ work)) = Sum(work) + Sum(fit \ work)
    BY <2>1, <2>3, SumUnion
  <2>5. Sum(fit \ work) = 0
    BY <2>1, <2>2, SumRest
  <2>6. Sum(work) \in Int
    BY <1>1, <2>1, <2>3, SumInt
  <2>7. Sum(fit) = Sum(work) + Sum(fit \ work)
    BY <2>1, <2>4
  <2> QED  BY <2>5, <2>6, <2>7
<1>5. Capacity \in Nat
  <2>1. Cardinality(Members) \in Nat
    BY FS_CardinalityType DEF PlanningAssumption
  <2>2. Velocity \in Nat \/ Velocity = Unmeasured
    BY PlanningNumbers
  <2> QED  BY <2>1, <2>2, PlanningNumbers DEF Capacity, TargetSum
<1>6. CASE work = {}
  <2>1. Sum(work) = 0
    BY <1>6, SumEmpty
  <2> QED  BY <1>4, <1>5, <2>1
<1>7. CASE work # {}
  <2>1. work \subseteq Int /\ IsFiniteSet(work)
    <3>1. Features \subseteq Nat
      BY DEF PlanningAssumption
    <3>2. work \in SUBSET Features
      BY <1>1
    <3> HIDE DEF work
    <3> QED  BY <1>2, <3>1, <3>2
  <2>2. PICK m \in work : \A k \in work : k <= m
    BY <1>7, <2>1, GreatestNumber
  <2> DEFINE upTo == {g \in Assessed : g <= m}
  <2>3. work \in SUBSET upTo /\ upTo \in SUBSET Features
    BY <1>1, <2>2
  <2>4. Sum(work) <= Sum(upTo)
    <3>1. \A f \in upTo : rest[f] \in Nat
      BY <1>3, <2>3
    <3> HIDE DEF rest, upTo, work
    <3> QED BY <1>2, <2>3, <3>1, SumPart
  <2>5. m \in Features /\ Fits(m) /\ rest[m] # 0
    BY <1>1
  <2>6. Sum(upTo) = UpTo(m)
    BY DEF UpTo
  <2>7. UpTo(m) <= Capacity
    BY <1>3, <2>5 DEF Fits
  <2>8. Sum(work) \in Int /\ Sum(upTo) \in Int
    <3>1. IsFiniteSet(work) /\ IsFiniteSet(upTo) /\ (\A f \in work : rest[f] \in Int) /\ \A f \in upTo : rest[f] \in Int
      BY <1>1, <1>2, <1>3, <2>3
    <3> HIDE DEF rest, upTo, work
    <3> QED BY <3>1, SumInt
  <2>9. Sum(work) <= Capacity
    BY <1>5, <2>4, <2>6, <2>7, <2>8
  <2> QED  BY <1>4, <2>9
<1> QED  BY <1>6, <1>7
\* The types, for every behaviour of the team, and what follows for the report:
\* each feature has one risk and one place in the cut line.
THEOREM PlanningTypeCorrect ==
  ASSUME PlanningAssumption
  PROVE  PlanningSpec => [](PlanningTypes /\ PlanningTypeOK)
<1>1. InitPlanning => PlanningTypes
  BY PlanningInit
<1>2. PlanningTypes /\ [PlanningStep]_planningVars => PlanningTypes'
  BY PlanningNext
<1>3. PlanningTypes => PlanningTypeOK
  <2>1. SUFFICES ASSUME PlanningTypes PROVE PlanningTypeOK
    OBVIOUS
  <2>2. \A f \in Assessed : Risk(f) \in {"LOW", "MEDIUM", "HIGH"} /\ CutLine(f) \in {"fits", "partial", "over"}
    BY DEF Risk, CutLine
  <2>3. ASSUME NEW p \in Members, AboveGuideline(p) PROVE LoadIn(p, Assessed) > 0
    <3>1. LoadIn(p, Assessed) \in Nat
      BY <2>1, LoadTypes DEF Assessed, ActiveFeatures
    <3>2. 3 * Target * Sprints \in Nat
      BY PlanningNumbers
    <3> QED  BY <2>3, <3>1, <3>2 DEF AboveGuideline
  <2> QED  BY <2>1, <2>2, <2>3 DEF PlanningTypes, PlanningTypeOK
<1> QED  BY <1>1, <1>2, <1>3, PTL DEF PlanningSpec

\* No member's pace is given to features more than once, and what is in front
\* of the cut line fits together, whatever the team does, for every velocity,
\* number of sprints, members, features and stories.
THEOREM NothingPromisedTwiceHolds ==
  ASSUME PlanningAssumption
  PROVE  PlanningSpec => []NothingPromisedTwice
<1>1. InitPlanning => PlanningTypes
  BY PlanningInit
<1>2. PlanningTypes /\ [PlanningStep]_planningVars => PlanningTypes'
  BY PlanningNext
<1>3. PlanningTypes => NothingPromisedTwice
  BY PaceOnce, FitsTogether DEF NothingPromisedTwice
<1> QED  BY <1>1, <1>2, <1>3, PTL DEF PlanningSpec

\* A feature in focus with an open epic and finished work is active, so that
\* time alone makes none dormant.
THEOREM WorkDoneIsEvidenceHolds == PlanningSpec => WorkDoneIsEvidence
<1>1. ASSUME NEW f \in Features, InFocus(f)', HasEpics(f)', \E s \in Stories \ Bugs : FeatureOf[s] = f /\ Done(s)'
      PROVE  Active(f)'
  BY <1>1 DEF Active, HasEpics, Activity, InScope, Done, InFocus
<1> DEFINE Evident == \A f \in Features :
             (Active(f) /\ ~Active(f)') =>
                \/ ~InFocus(f)' \/ ~HasEpics(f)'
                \/ ~\E s \in Stories \ Bugs : FeatureOf[s] = f /\ Done(s)'
<1>2. [PlanningStep]_planningVars => [Evident]_planningVars
  BY <1>1
<1> HIDE DEF Evident
<1>3. PlanningSpec => [][Evident]_planningVars
  BY <1>2, PTL DEF PlanningSpec
<1> QED  BY <1>3 DEF WorkDoneIsEvidence, Evident

(***************************************************************************)
(* PayloadReport                                                           *)
(***************************************************************************)
\* The payloads that came back from a stream, by their place in the history.
Ats(s) == {fetched[s][k].at : k \in DOMAIN fetched[s]}

FetchedRecords == [at : Nat, jobs : [EdgeJobs -> JobRuns]]

MonitorTypes ==
  /\ history \in Histories
  /\ waiting \in [Streams -> SUBSET Nat] /\ lost \in [Streams -> SUBSET Nat] /\ odd \in [Streams -> SUBSET Nat]
  /\ fetched \in [Streams -> Seq(FetchedRecords)]
  /\ step \in [Streams -> {"tags", "details", "done"}] /\ analysed \in BOOLEAN

\* Every listed payload is waited for, came back once or was dropped; those of
\* a list that was not answered are lost.
Accounted(s) ==
  /\ waiting[s] \cup lost[s] \cup odd[s] \cup Ats(s) \subseteq Listed(s)
  /\ \A i, k \in DOMAIN fetched[s] : fetched[s][i].at = fetched[s][k].at => i = k
  /\ waiting[s] \cap Ats(s) = {}
  /\ \/ step[s] = "tags" /\ waiting[s] \cup lost[s] \cup odd[s] \cup Ats(s) = {}
     \/ step[s] # "tags" /\ waiting[s] \cup odd[s] \cup Ats(s) = Listed(s)
     \/ step[s] = "done" /\ waiting[s] \cup odd[s] \cup Ats(s) = {} /\ lost[s] = Listed(s)

\* What came back is what was there, or a payload without jobs that is lost.
Genuine(s) ==
  \A k \in DOMAIN fetched[s] :
    \/ fetched[s][k].jobs = history[s][fetched[s][k].at].jobs
    \/ fetched[s][k].at \in lost[s] /\ \A j \in EdgeJobs : fetched[s][k].jobs[j] = Absent

\* A stream that is done waits for nothing and is in order.
DoneInOrder(s) ==
  step[s] = "done" =>
    waiting[s] = {} /\ \A i, k \in DOMAIN fetched[s] : i < k => fetched[s][i].at < fetched[s][k].at

\* The analysis is that of what came back.
Concluded ==
  IF ~analysed THEN risks = {} /\ bugs = << >>
  ELSE         /\ \A s \in Streams : step[s] = "done"
              /\ risks = EscalationRisks
              /\ bugs = [j \in {job \in EdgeJobs : WorthFiling(job, risks)} |-> Versions(j)]

MonitorInv ==
  /\ MonitorTypes
  /\ \A s \in Streams : Accounted(s) /\ Genuine(s) /\ DoneInOrder(s)
  /\ Concluded

LEMMA MonitorFacts ==
  ASSUME MonitorAssumption
  PROVE  /\ IsFiniteSet(Streams)
         /\ PerStream \in Nat /\ Escalation \in Nat /\ Persistent \in Nat
         /\ PerStream > 0 /\ Escalation > 0 /\ Persistent > 0
<1>1. {PerStream, Escalation, Persistent} \subseteq Nat \ {0}
  BY DEF MonitorAssumption
<1>2. IsFiniteSet(Streams)
  <2>1. StreamOrder \in [1..Len(StreamOrder) -> Streams] /\ Len(StreamOrder) \in Nat
    BY DEF MonitorAssumption
  <2>2. \A s \in Streams : \E n \in 1..Len(StreamOrder) : StreamOrder[n] = s
    BY <2>1 DEF Streams, ToSet
  <2>3. StreamOrder \in Surjection(1..Len(StreamOrder), Streams)
    <3> HIDE DEF Streams
    <3> QED BY <2>1, <2>2 DEF Surjection
  <2> QED  BY <2>1, <2>3, FS_Surjection, FS_Interval
<1> QED  BY <1>1, <1>2

LEMMA ListedFinite ==
  ASSUME MonitorAssumption, history \in Histories, NEW s \in Streams
  PROVE  /\ Listed(s) \subseteq DOMAIN history[s] /\ Listed(s) \subseteq Nat /\ IsFiniteSet(Listed(s))
         /\ \A i \in Listed(s), j \in EdgeJobs : history[s][i].jobs[j] \in JobRuns
<1>1. history[s] \in Seq([terminal : BOOLEAN, jobs : [EdgeJobs -> JobRuns]])
  BY DEF MonitorAssumption
<1>2. Listed(s) \subseteq 1..Len(history[s]) /\ Len(history[s]) \in Nat
  BY <1>1 DEF Listed
<1>3. IsFiniteSet(1..Len(history[s]))
  BY <1>2, FS_Interval
<1>4. IsFiniteSet(Listed(s))
  BY <1>2, <1>3, FS_Subset
<1>5. ASSUME NEW i \in Listed(s), NEW j \in EdgeJobs PROVE history[s][i].jobs[j] \in JobRuns
  <2> DEFINE R == [terminal : BOOLEAN, jobs : [EdgeJobs -> JobRuns]]
  <2>1. history[s][i] \in R
    <3>1. history[s] \in Seq(R) /\ i \in 1..Len(history[s])
      BY <1>1, <1>2
    <3> HIDE DEF R
    <3> QED BY <3>1
  <2>2. \A h \in [terminal : BOOLEAN, jobs : [EdgeJobs -> JobRuns]] : h.jobs \in [EdgeJobs -> JobRuns]
    OBVIOUS
  <2>3. history[s][i].jobs \in [EdgeJobs -> JobRuns]
    BY <2>1, <2>2
  <2> QED  BY <2>3
<1> QED  BY <1>1, <1>2, <1>4, <1>5

\* The payloads of a stream can be put in the order of their places.
LEMMA ChronologicalSorts ==
  ASSUME NEW f \in Seq(FetchedRecords), \A i, k \in DOMAIN f : f[i].at = f[k].at => i = k
  PROVE  /\ Chronological(f) \in [DOMAIN f -> ToSet(f)]
         /\ \A i, k \in DOMAIN f : i < k => Chronological(f)[i].at < Chronological(f)[k].at
<1> DEFINE n == Len(f)
           a == [i \in 1..n |-> f[i].at]
           Sorted(q) == \A i, k \in DOMAIN f : i < k => q[i].at < q[k].at
<1>1. n \in Nat /\ a \in [1..n -> Int] /\ DOMAIN f = 1..n
  <2>1. \A i \in 1..Len(f) : f[i] \in FetchedRecords
    OBVIOUS
  <2>2. \A r \in FetchedRecords : r.at \in Int
    BY DEF FetchedRecords
  <2> QED  BY <2>1, <2>2
<1>2. \A i, k \in 1..n : a[i] = a[k] => i = k
  BY <1>1
<1>3. PICK p \in [1..n -> 1..n] : \A i, k \in 1..n : i < k => a[p[i]] < a[p[k]]
  <2> HIDE DEF n, a
  <2> QED BY <1>1, <1>2, Sorting
<1> DEFINE q == [i \in 1..n |-> f[p[i]]]
<1>4. q \in [DOMAIN f -> ToSet(f)] /\ Sorted(q)
  BY <1>1, <1>3 DEF ToSet
<1>5. \A r \in [DOMAIN f -> ToSet(f)] : IsSorted(r, LAMBDA x, y : x.at < y.at) <=> Sorted(r)
  <2>1. ASSUME NEW r \in [DOMAIN f -> ToSet(f)] PROVE Len(r) = n
    BY <1>1
  <2> QED  BY <1>1, <2>1 DEF IsSorted
<1>6. Chronological(f) = CHOOSE r \in [DOMAIN f -> ToSet(f)] : Sorted(r)
  BY <1>5 DEF Chronological
<1> HIDE DEF Sorted
<1>7. Chronological(f) \in [DOMAIN f -> ToSet(f)] /\ Sorted(Chronological(f))
  BY <1>4, <1>6
<1> QED  BY <1>7 DEF Sorted
\* One stream moves: the others are as they were.
StreamInv(s) == Accounted(s) /\ Genuine(s) /\ DoneInOrder(s)

Moves(s) ==
  /\ history' = history /\ risks' = risks /\ bugs' = bugs /\ analysed' = analysed
  /\ \A t \in Streams \ {s} : /\ waiting'[t] = waiting[t] /\ fetched'[t] = fetched[t] /\ step'[t] = step[t]
                              /\ lost'[t] = lost[t] /\ odd'[t] = odd[t]

LEMMA OneStreamMoves ==
  ASSUME MonitorInv, NEW s \in Streams, step[s] # "done" \/ waiting[s] # {}, Moves(s), MonitorTypes', StreamInv(s)'
  PROVE  MonitorInv'
<1>1. ASSUME NEW t \in Streams \ {s} PROVE StreamInv(t)'
  <2>1. Accounted(t) /\ Genuine(t) /\ DoneInOrder(t)
    BY DEF MonitorInv
  <2>2. Listed(t)' = Listed(t) /\ Ats(t)' = Ats(t)
    BY DEF Moves, Listed, Ats
  <2>3. Accounted(t)'
    BY <2>1, <2>2 DEF Moves, Accounted
  <2>4. Genuine(t)'
    BY <2>1 DEF Moves, Genuine
  <2>5. DoneInOrder(t)'
    BY <2>1 DEF Moves, DoneInOrder
  <2> QED  BY <2>3, <2>4, <2>5 DEF StreamInv
<1>2. ~analysed /\ risks = {} /\ bugs = << >>
  BY DEF MonitorInv, Concluded, DoneInOrder
<1>3. Concluded'
  BY <1>2 DEF Concluded, Moves
<1> QED  BY <1>1, <1>3 DEF MonitorInv, StreamInv

LEMMA MonitorInit ==
  ASSUME MonitorAssumption, InitMonitor
  PROVE  MonitorInv
<1>1. MonitorTypes
  <2>1. << >> \in Seq(FetchedRecords)
    OBVIOUS
  <2> QED  BY <2>1 DEF InitMonitor, MonitorTypes
<1>2. ASSUME NEW s \in Streams PROVE Accounted(s) /\ Genuine(s) /\ DoneInOrder(s)
  <2>1. fetched[s] = << >> /\ waiting[s] = {} /\ lost[s] = {} /\ odd[s] = {} /\ step[s] = "tags"
    BY DEF InitMonitor
  <2>2. DOMAIN fetched[s] = {} /\ Ats(s) = {}
    BY <2>1 DEF Ats
  <2> QED  BY <2>1, <2>2 DEF Accounted, Genuine, DoneInOrder
<1> QED  BY <1>1, <1>2 DEF InitMonitor, MonitorInv, Concluded

LEMMA TagsAreFetched ==
  ASSUME MonitorAssumption, MonitorInv, NEW s \in Streams, NEW answered \in BOOLEAN, FetchTags(s, answered)
  PROVE  MonitorInv'
<1>1. Listed(s) \subseteq Nat /\ Listed(s)' = Listed(s)
  <2>1. history \in Histories /\ history' = history
    BY DEF MonitorInv, MonitorTypes, FetchTags
  <2> QED  BY <2>1, ListedFinite DEF Listed
<1>2. MonitorTypes
  BY DEF MonitorInv
<1>3. MonitorTypes'
  BY <1>1, <1>2 DEF MonitorTypes, FetchTags
<1>4. waiting[s] = {} /\ lost[s] = {} /\ odd[s] = {} /\ Ats(s) = {}
  BY DEF MonitorInv, Accounted, FetchTags
<1>5. DOMAIN fetched[s] = {}
  BY <1>4 DEF Ats
<1>6. fetched'[s] = fetched[s] /\ Ats(s)' = Ats(s) /\ odd'[s] = {}
  BY <1>4 DEF FetchTags, Ats
<1>7. /\ lost'[s] = IF answered THEN {} ELSE Listed(s)
      /\ \/ waiting'[s] = Listed(s) /\ step'[s] = "details" /\ answered
         \/ waiting'[s] = {} /\ step'[s] = "done" /\ (answered => Listed(s) = {})
  BY <1>2, <1>4 DEF MonitorTypes, FetchTags
<1>8. StreamInv(s)'
  BY <1>1, <1>4, <1>5, <1>6, <1>7 DEF StreamInv, Accounted, Genuine, DoneInOrder
<1>9. Moves(s) /\ step[s] = "tags"
  BY <1>2 DEF Moves, FetchTags, MonitorTypes
<1> QED  BY <1>3, <1>8, <1>9, OneStreamMoves

LEMMA DetailsAreFetched ==
  ASSUME MonitorAssumption, MonitorInv, NEW s \in Streams, NEW i \in waiting[s],
         NEW answer \in {"full", "none", "odd"}, FetchPayload(s, i, answer)
  PROVE  MonitorInv'
<1> DEFINE p == [at |-> i, jobs |-> IF answer = "full" THEN history[s][i].jobs ELSE [j \in EdgeJobs |-> Absent]]
<1>1. MonitorTypes /\ Accounted(s) /\ Genuine(s) /\ DoneInOrder(s)
  BY DEF MonitorInv
<1>2. history \in Histories /\ history' = history /\ Listed(s)' = Listed(s)
  BY <1>1 DEF MonitorTypes, FetchPayload, Listed
<1>3. i \in Listed(s) /\ i \in Nat /\ i \notin Ats(s) /\ step[s] = "details"
  BY <1>1, <1>2, ListedFinite DEF Accounted, DoneInOrder, MonitorTypes
<1>4. p \in FetchedRecords
  <2>1. history[s][i].jobs \in [EdgeJobs -> JobRuns]
    <3> DEFINE R == [terminal : BOOLEAN, jobs : [EdgeJobs -> JobRuns]]
    <3>1. history[s] \in Seq(R) /\ i \in DOMAIN history[s]
      BY <1>2, <1>3, ListedFinite DEF MonitorAssumption
    <3>2. history[s][i] \in R
      <4> HIDE DEF R
      <4> QED BY <3>1
    <3>3. \A h \in R : h.jobs \in [EdgeJobs -> JobRuns]
      OBVIOUS
    <3> QED  BY <3>2, <3>3
  <2>2. [j \in EdgeJobs |-> Absent] \in [EdgeJobs -> JobRuns]
    BY DEF JobRuns
  <2> QED  BY <1>3, <2>1, <2>2 DEF FetchedRecords
<1>5. fetched' = [fetched EXCEPT ![s] = IF answer = "odd" THEN @ ELSE Append(@, p)]
  BY DEF FetchPayload
<1> HIDE DEF p
<1>6. fetched[s] \in Seq(FetchedRecords)
  BY <1>1 DEF MonitorTypes
<1>7. MonitorTypes'
  <2>1. fetched' \in [Streams -> Seq(FetchedRecords)]
    BY <1>1, <1>4, <1>5, <1>6 DEF MonitorTypes
  <2> QED  BY <1>1, <1>3, <2>1 DEF MonitorTypes, FetchPayload
<1>8. Moves(s)
  BY <1>1 DEF Moves, MonitorTypes, FetchPayload
<1>9. waiting'[s] = waiting[s] \ {i} /\ step'[s] = "details"
  BY <1>1, <1>3 DEF FetchPayload, MonitorTypes
<1>10. CASE answer = "odd"
  <2>1. fetched'[s] = fetched[s] /\ lost'[s] = lost[s] /\ odd'[s] = odd[s] \cup {i}
    BY <1>1, <1>10 DEF FetchPayload, MonitorTypes
  <2>2. Ats(s)' = Ats(s)
    BY <2>1 DEF Ats
  <2>3. Accounted(s)'
    BY <1>1, <1>2, <1>3, <1>9, <2>1, <2>2 DEF Accounted
  <2>4. Genuine(s)' /\ DoneInOrder(s)'
    BY <1>1, <1>2, <1>9, <2>1 DEF Genuine, DoneInOrder
  <2>5. StreamInv(s)'
    BY <2>3, <2>4 DEF StreamInv
  <2> QED  BY <1>7, <1>8, <2>5, OneStreamMoves
<1>11. CASE answer # "odd"
  <2> DEFINE n == Len(fetched[s])
  <2>1. /\ fetched'[s] = Append(fetched[s], p) /\ odd'[s] = odd[s]
        /\ lost'[s] = IF answer = "none" THEN lost[s] \cup {i} ELSE lost[s]
    BY <1>1, <1>5, <1>11 DEF FetchPayload, MonitorTypes
  <2>2. /\ n \in Nat /\ DOMAIN fetched[s] = 1..n /\ DOMAIN fetched'[s] = 1..(n + 1)
        /\ \A k \in 1..n : fetched'[s][k] = fetched[s][k]
        /\ fetched'[s][n + 1] = p
    BY <1>4, <1>6, <2>1
  <2> HIDE DEF n
  <2>3. p.at = i /\ p.jobs = IF answer = "full" THEN history[s][i].jobs ELSE [j \in EdgeJobs |-> Absent]
    BY DEF p
  <2>4. Ats(s)' = Ats(s) \cup {i}
    BY <2>2, <2>3 DEF Ats
  <2>5. \A k \in DOMAIN fetched[s] : fetched[s][k].at # i
    BY <1>3 DEF Ats
  <2>6. \A k, m \in DOMAIN fetched'[s] : fetched'[s][k].at = fetched'[s][m].at => k = m
    <3>1. \A k, m \in 1..n : fetched[s][k].at = fetched[s][m].at => k = m
      BY <1>1, <2>2 DEF Accounted
    <3>2. \A k \in 1..n : fetched'[s][k].at # i
      BY <2>2, <2>5
    <3>3. fetched'[s][n + 1].at = i
      BY <2>2, <2>3
    <3>4. ASSUME NEW k \in 1..(n + 1), NEW m \in 1..(n + 1), fetched'[s][k].at = fetched'[s][m].at PROVE k = m
      <4>1. (k \in 1..n \/ k = n + 1) /\ (m \in 1..n \/ m = n + 1)
        BY <2>2
      <4>2. CASE k \in 1..n /\ m \in 1..n
        BY <2>2, <3>1, <3>4, <4>2
      <4>3. CASE k = n + 1 \/ m = n + 1
        BY <3>2, <3>3, <3>4, <4>1, <4>3
      <4> QED  BY <4>1, <4>2, <4>3
    <3> QED  BY <2>2, <3>4
  <2>7. Accounted(s)'
    BY <1>1, <1>2, <1>3, <1>9, <2>1, <2>4, <2>6 DEF Accounted
  <2>8. Genuine(s)'
    <3>1. ASSUME NEW k \in 1..n
          PROVE  \/ fetched'[s][k].jobs = history'[s][fetched'[s][k].at].jobs
                 \/ fetched'[s][k].at \in lost'[s] /\ \A j \in EdgeJobs : fetched'[s][k].jobs[j] = Absent
      BY <1>1, <1>2, <2>1, <2>2 DEF Genuine
    <3>2. \/ p.jobs = history'[s][p.at].jobs
          \/ p.at \in lost'[s] /\ \A j \in EdgeJobs : p.jobs[j] = Absent
      BY <1>2, <1>11, <2>1, <2>3
    <3> QED  BY <2>2, <3>1, <3>2 DEF Genuine
  <2>9. DoneInOrder(s)'
    BY <1>9 DEF DoneInOrder
  <2>10. StreamInv(s)'
    BY <2>7, <2>8, <2>9 DEF StreamInv
  <2> QED  BY <1>7, <1>8, <2>10, OneStreamMoves
<1> QED  BY <1>10, <1>11

LEMMA StreamIsDone ==
  ASSUME MonitorAssumption, MonitorInv, NEW s \in Streams, StreamDone(s)
  PROVE  MonitorInv'
<1> DEFINE f == fetched[s]
           c == Chronological(f)
<1>1. MonitorTypes /\ Accounted(s) /\ Genuine(s) /\ step[s] = "details" /\ waiting[s] = {}
  BY DEF MonitorInv, StreamDone
<1>2. /\ fetched' = [fetched EXCEPT ![s] = c] /\ fetched'[s] = c
      /\ step'[s] = "done" /\ waiting' = waiting /\ lost' = lost /\ odd' = odd /\ history' = history
  BY <1>1 DEF StreamDone, MonitorTypes
<1>3. f \in Seq(FetchedRecords) /\ \A i, k \in DOMAIN f : f[i].at = f[k].at => i = k
  BY <1>1 DEF MonitorTypes, Accounted
<1> HIDE DEF f
<1>4. c \in [DOMAIN f -> ToSet(f)] /\ \A i, k \in DOMAIN f : i < k => c[i].at < c[k].at
  BY <1>3, ChronologicalSorts
<1> HIDE DEF c
<1>5. DOMAIN f = 1..Len(f) /\ Len(f) \in Nat /\ DOMAIN c = DOMAIN f
  BY <1>3, <1>4
<1>6. ASSUME NEW k \in DOMAIN f
      PROVE  c[k] \in FetchedRecords /\ c[k].at \in Nat /\ \E m \in DOMAIN f : c[k] = f[m]
  <2>1. PICK m \in DOMAIN f : c[k] = f[m]
    BY <1>4 DEF ToSet
  <2>2. f[m] \in FetchedRecords
    BY <1>3
  <2>3. \A r \in FetchedRecords : r.at \in Nat
    BY DEF FetchedRecords
  <2> QED  BY <2>1, <2>2, <2>3
<1>16. ASSUME NEW i \in DOMAIN f, NEW k \in DOMAIN f, c[i].at = c[k].at PROVE i = k
  <2>1. i \in Nat /\ k \in Nat
    BY <1>5
  <2>2. c[i].at \in Nat /\ c[k].at \in Nat
    BY <1>6
  <2>3. ~(i < k) /\ ~(k < i)
    BY <1>4, <1>16, <2>2
  <2> QED  BY <2>1, <2>3
<1>7. c \in Seq(FetchedRecords)
  BY <1>4, <1>5, <1>6
<1>8. MonitorTypes'
  BY <1>1, <1>2, <1>7 DEF MonitorTypes, StreamDone
<1>9. Moves(s)
  BY <1>1, <1>2 DEF Moves, StreamDone, MonitorTypes
<1>10. {c[k].at : k \in DOMAIN f} = {f[k].at : k \in DOMAIN f}
  <2> DEFINE rank == [k \in DOMAIN f |-> CHOOSE m \in DOMAIN f : f[m] = c[k]]
             D == DOMAIN f
  <2>1. IsFiniteSet(D)
    BY <1>5, FS_Interval
  <2>2. rank \in [D -> D] /\ \A k \in D : f[rank[k]] = c[k]
    BY <1>6
  <2>3. \A i, k \in D : rank[i] = rank[k] => i = k
    <3>1. \A i, k \in D : c[i] = c[k] => i = k
      BY <1>16
    <3> QED  BY <2>2, <3>1
  <2> HIDE DEF rank, D
  <2>4. rank \in Injection(D, D)
    BY <2>2, <2>3 DEF Injection, IsInjective
  <2>6. \A m \in D : \E k \in D : rank[k] = m
    BY <2>1, <2>4, FS_Injection DEF Surjection
  <2>7. \A m \in D : \E k \in D : f[m] = c[k]
    BY <2>2, <2>6
  <2> USE DEF D
  <2>8. \A k \in DOMAIN f : \E m \in DOMAIN f : c[k].at = f[m].at
    BY <1>6
  <2>9. \A m \in DOMAIN f : \E k \in DOMAIN f : f[m].at = c[k].at
    BY <2>7
  <2>10. {c[k].at : k \in DOMAIN f} \subseteq {f[m].at : m \in DOMAIN f}
    BY <2>8
  <2>11. {f[m].at : m \in DOMAIN f} \subseteq {c[k].at : k \in DOMAIN f}
    BY <2>9
  <2> QED  BY <2>10, <2>11
<1>11. Ats(s)' = Ats(s)
  BY <1>2, <1>5, <1>10 DEF Ats, f
<1>12. Accounted(s)'
  <2>1. \A i, k \in DOMAIN fetched'[s] : fetched'[s][i].at = fetched'[s][k].at => i = k
    BY <1>2, <1>5, <1>16
  <2>2. Listed(s)' = Listed(s)
    BY <1>2 DEF Listed
  <2> QED  BY <1>1, <1>2, <1>11, <2>1, <2>2 DEF Accounted
<1>13. Genuine(s)'
  <2>1. ASSUME NEW k \in DOMAIN c
        PROVE  \/ c[k].jobs = history[s][c[k].at].jobs
               \/ c[k].at \in lost[s] /\ \A j \in EdgeJobs : c[k].jobs[j] = Absent
    <3>1. PICK m \in DOMAIN f : c[k] = f[m]
      BY <1>5, <1>6
    <3> QED  BY <1>1, <3>1 DEF Genuine, f
  <2> QED  BY <1>2, <2>1 DEF Genuine
<1>14. DoneInOrder(s)'
  BY <1>1, <1>2, <1>4, <1>5 DEF DoneInOrder
<1>15. StreamInv(s)'
  BY <1>12, <1>13, <1>14 DEF StreamInv
<1> QED  BY <1>1, <1>8, <1>9, <1>15, OneStreamMoves
LEMMA PayloadsAreAnalysed ==
  ASSUME MonitorAssumption, MonitorInv, AnalyzePayloads
  PROVE  MonitorInv'
<1>1. /\ history' = history /\ waiting' = waiting /\ fetched' = fetched /\ step' = step
      /\ lost' = lost /\ odd' = odd /\ analysed' = TRUE /\ \A s \in Streams : step[s] = "done"
  BY DEF AnalyzePayloads
<1>2. MonitorTypes'
  BY <1>1 DEF MonitorInv, MonitorTypes
<1>3. ASSUME NEW s \in Streams PROVE Accounted(s)' /\ Genuine(s)' /\ DoneInOrder(s)'
  <2>1. Accounted(s) /\ Genuine(s) /\ DoneInOrder(s)
    BY DEF MonitorInv
  <2>2. Listed(s)' = Listed(s) /\ Ats(s)' = Ats(s)
    BY <1>1 DEF Listed, Ats
  <2>3. Accounted(s)'
    BY <1>1, <2>1, <2>2 DEF Accounted
  <2>4. Genuine(s)' /\ DoneInOrder(s)'
    BY <1>1, <2>1 DEF Genuine, DoneInOrder
  <2> QED  BY <2>3, <2>4
<1>4. Concluded'
  <2>1. EscalationRisks' = EscalationRisks
    BY <1>1 DEF EscalationRisks, Streak
  <2>2. \A j \in EdgeJobs : WorthFiling(j, risks)' <=> WorthFiling(j, risks')
    BY <1>1 DEF WorthFiling, Versions, FirstFailure, FailureCount, Failing
  <2>3. \A j \in EdgeJobs : Versions(j)' = Versions(j)
    BY <1>1 DEF Versions, Failing
  <2>4. risks' = EscalationRisks' /\ bugs' = [j \in {job \in EdgeJobs : WorthFiling(job, risks')} |-> Versions(j)]
    BY <2>1 DEF AnalyzePayloads
  <2>5. bugs' = [j \in {job \in EdgeJobs : WorthFiling(job, risks)'} |-> Versions(j)']
    BY <2>2, <2>3, <2>4
  <2> QED  BY <1>1, <2>4, <2>5 DEF Concluded
<1> QED  BY <1>2, <1>3, <1>4 DEF MonitorInv

LEMMA MonitorNext ==
  ASSUME MonitorAssumption, MonitorInv, [MonitorStep]_monitorVars
  PROVE  MonitorInv'
<1>1. CASE \E s \in Streams, answered \in BOOLEAN : FetchTags(s, answered)
  BY <1>1, TagsAreFetched
<1>2. CASE \E s \in Streams : \E i \in waiting[s], answer \in {"full", "none", "odd"} : FetchPayload(s, i, answer)
  BY <1>2, DetailsAreFetched
<1>3. CASE \E s \in Streams : StreamDone(s)
  BY <1>3, StreamIsDone
<1>4. CASE AnalyzePayloads
  BY <1>4, PayloadsAreAnalysed
<1>5. CASE UNCHANGED monitorVars
  <2>1. /\ history' = history /\ waiting' = waiting /\ fetched' = fetched /\ step' = step
        /\ lost' = lost /\ odd' = odd /\ risks' = risks /\ bugs' = bugs /\ analysed' = analysed
    BY <1>5 DEF monitorVars
  <2>2. MonitorTypes'
    BY <2>1 DEF MonitorInv, MonitorTypes
  <2>3. ASSUME NEW s \in Streams PROVE Accounted(s)' /\ Genuine(s)' /\ DoneInOrder(s)'
    <3>1. Accounted(s) /\ Genuine(s) /\ DoneInOrder(s)
      BY DEF MonitorInv
    <3>2. Listed(s)' = Listed(s) /\ Ats(s)' = Ats(s)
      BY <2>1 DEF Listed, Ats
    <3>3. Accounted(s)'
      BY <2>1, <3>1, <3>2 DEF Accounted
    <3>4. Genuine(s)' /\ DoneInOrder(s)'
      BY <2>1, <3>1 DEF Genuine, DoneInOrder
    <3> QED  BY <3>3, <3>4
  <2>4. Concluded'
    <3>1. EscalationRisks' = EscalationRisks
      BY <2>1 DEF EscalationRisks, Streak
    <3>2. \A j \in EdgeJobs : (WorthFiling(j, risks)' <=> WorthFiling(j, risks)) /\ Versions(j)' = Versions(j)
      BY <2>1 DEF WorthFiling, Versions, FirstFailure, FailureCount, Failing
    <3>3. {job \in EdgeJobs : WorthFiling(job, risks)}' = {job \in EdgeJobs : WorthFiling(job, risks)}
      BY <3>2
    <3> QED  BY <2>1, <3>1, <3>2, <3>3 DEF MonitorInv, Concluded
  <2> QED  BY <2>2, <2>3, <2>4 DEF MonitorInv
<1> QED  BY <1>1, <1>2, <1>3, <1>4, <1>5 DEF MonitorStep

\* The monitor keeps account of every listed payload, and what it concludes
\* follows from what came back (monitor.py collect_all and analyze).
THEOREM MonitorInvariant ==
  ASSUME MonitorAssumption
  PROVE  MonitorSpec => []MonitorInv
<1>1. InitMonitor => MonitorInv
  BY MonitorInit
<1>2. MonitorInv /\ [MonitorStep]_monitorVars => MonitorInv'
  BY MonitorNext
<1> QED  BY <1>1, <1>2, PTL DEF MonitorSpec
\* What a stream that is done holds: the payloads in order, each failure real.
LEMMA WhatCameBack ==
  ASSUME MonitorAssumption, MonitorInv, NEW s \in Streams, step[s] = "done"
  PROVE  /\ Len(fetched[s]) \in Nat /\ DOMAIN fetched[s] = 1..Len(fetched[s])
         /\ \A k \in DOMAIN fetched[s] : fetched[s][k].at \in Listed(s) /\ fetched[s][k].at \in Nat
         /\ \A i, k \in DOMAIN fetched[s] : i < k => fetched[s][i].at < fetched[s][k].at
         /\ \A k \in DOMAIN fetched[s], j \in EdgeJobs :
              fetched[s][k].jobs[j] # Absent => fetched[s][k].jobs[j] = history[s][fetched[s][k].at].jobs[j]
         /\ IsFiniteSet(Listed(s)) /\ Listed(s) \subseteq Nat
<1>1. MonitorTypes /\ Accounted(s) /\ Genuine(s) /\ DoneInOrder(s)
  BY DEF MonitorInv
<1>2. fetched[s] \in Seq(FetchedRecords)
  BY <1>1 DEF MonitorTypes
<1>3. IsFiniteSet(Listed(s)) /\ Listed(s) \subseteq Nat
  BY <1>1, ListedFinite DEF MonitorTypes
<1>4. \A k \in DOMAIN fetched[s] : fetched[s][k].at \in Listed(s)
  BY <1>1 DEF Accounted, Ats
<1> QED  BY <1>1, <1>2, <1>3, <1>4 DEF Genuine, DoneInOrder

LEMMA FailuresAreReal ==
  ASSUME MonitorAssumption, MonitorInv, NEW s \in Streams, step[s] = "done", NEW j \in EdgeJobs
  PROVE  /\ \A k \in Failing(s, j) :
              /\ fetched[s][k].at \in ReallyFailed(s, j)
              /\ fetched[s][k].jobs[j] = history[s][fetched[s][k].at].jobs[j]
              /\ fetched[s][k].jobs[j].type \in {"blocking", "informing"}
         /\ Failing(s, j) \subseteq Nat
         /\ IsFiniteSet(Failing(s, j)) /\ IsFiniteSet(ReallyFailed(s, j))
         /\ Cardinality(Failing(s, j)) \in Nat /\ Cardinality(ReallyFailed(s, j)) \in Nat
         /\ Cardinality(Failing(s, j)) <= Cardinality(ReallyFailed(s, j))
<1>1. ASSUME NEW k \in Failing(s, j)
      PROVE  /\ fetched[s][k].at \in ReallyFailed(s, j)
             /\ fetched[s][k].jobs[j] = history[s][fetched[s][k].at].jobs[j]
             /\ fetched[s][k].jobs[j].type \in {"blocking", "informing"}
  <2>1. k \in DOMAIN fetched[s] /\ fetched[s][k].jobs[j].result = "F"
    BY DEF Failing, Fails
  <2>2. fetched[s][k].jobs[j] # Absent
    BY <2>1 DEF Absent
  <2>3. fetched[s][k].at \in Listed(s) /\ fetched[s][k].jobs[j] = history[s][fetched[s][k].at].jobs[j]
    BY <2>1, <2>2, WhatCameBack
  <2>4. history[s][fetched[s][k].at].jobs[j] \in JobRuns
    BY <2>3, ListedFinite DEF MonitorInv, MonitorTypes
  <2>5. \A r \in JobRuns : r # Absent => r.type \in {"blocking", "informing"}
    BY DEF JobRuns
  <2> QED  BY <2>1, <2>2, <2>3, <2>4, <2>5 DEF ReallyFailed, Fails
<1> DEFINE f == [k \in Failing(s, j) |-> fetched[s][k].at]
<1>2. Failing(s, j) \subseteq DOMAIN fetched[s]
  BY DEF Failing
<1>3. IsFiniteSet(ReallyFailed(s, j))
  BY WhatCameBack, FS_Subset DEF ReallyFailed
<1>4. f \in Injection(Failing(s, j), ReallyFailed(s, j))
  <2>1. f \in [Failing(s, j) -> ReallyFailed(s, j)]
    BY <1>1
  <2>2. \A i, k \in Failing(s, j) : f[i] = f[k] => i = k
    <3>1. ASSUME NEW i \in Failing(s, j), NEW k \in Failing(s, j), f[i] = f[k] PROVE i = k
      <4>1. /\ i \in Nat /\ k \in Nat /\ fetched[s][i].at \in Nat /\ fetched[s][k].at \in Nat
            /\ i < k => fetched[s][i].at < fetched[s][k].at
            /\ k < i => fetched[s][k].at < fetched[s][i].at
        BY <1>2, WhatCameBack
      <4> QED  BY <3>1, <4>1
    <3> QED  BY <3>1
  <2> HIDE DEF f
  <2> QED  BY <2>1, <2>2 DEF Injection, IsInjective
<1>5. IsFiniteSet(Failing(s, j)) /\ Cardinality(Failing(s, j)) <= Cardinality(ReallyFailed(s, j))
  <2> HIDE DEF f
  <2> QED  BY <1>3, <1>4, FS_Injection
<1>6. Failing(s, j) \subseteq Nat
  BY <1>2, WhatCameBack
<1> QED  BY <1>1, <1>3, <1>5, <1>6, FS_CardinalityType

\* A row of failures that is long enough begins with that many.
LEMMA RowOfFailures ==
  ASSUME NEW f, NEW n \in Nat, DOMAIN f = 1..n, NEW j, NEW e \in Nat, e > 0
  PROVE  Streak(f, j) >= e <=> e <= n /\ \A k \in 1..e : Fails(f[k].jobs[j])
<1> DEFINE R == {m \in 1..n : \A k \in 1..m : Fails(f[k].jobs[j])}
<1>1. Streak(f, j) = Cardinality(R)
  BY DEF Streak
<1>2. IsFiniteSet(R) /\ Cardinality(R) \in Nat
  <2>1. R \subseteq 1..n /\ IsFiniteSet(1..n)
    BY FS_Interval
  <2> HIDE DEF R
  <2> QED BY <2>1, FS_Subset, FS_CardinalityType
<1>3. e \in R <=> e <= n /\ \A k \in 1..e : Fails(f[k].jobs[j])
  OBVIOUS
<1>4. CASE e \in R
  <2>1. 1..e \subseteq R
    BY <1>4
  <2>2. Cardinality(1..e) = e
    BY FS_Interval
  <2>3. Cardinality(1..e) <= Cardinality(R)
    <3> HIDE DEF R
    <3> QED BY <1>2, <2>1, FS_Subset
  <2> QED  BY <1>1, <1>2, <1>3, <1>4, <2>2, <2>3
<1>5. CASE e \notin R
  <2>1. R \subseteq 1..(e - 1)
    <3>1. ASSUME NEW m \in R, m >= e PROVE FALSE
      BY <1>5, <3>1
    <3> QED  BY <3>1
  <2>2. IsFiniteSet(1..(e - 1)) /\ Cardinality(1..(e - 1)) = e - 1
    BY FS_Interval
  <2>3. Cardinality(R) <= e - 1
    <3> HIDE DEF R
    <3> QED BY <2>1, <2>2, FS_Subset, ZenonT(30)
  <2> QED  BY <1>1, <1>2, <1>3, <1>5, <2>3
<1> QED  BY <1>4, <1>5

\* When all that was listed came back, the newest payloads of the history are
\* the first ones of what came back.
LEMMA NewestCameFirst ==
  ASSUME MonitorAssumption, MonitorInv, NEW s \in Streams, step[s] = "done", Ats(s) = Listed(s),
         NEW e \in Nat, e > 0
  PROVE  LET n == Len(fetched[s])
             m == IF e <= n THEN e ELSE n
         IN  Newest(s, e) = {fetched[s][k].at : k \in 1..m} /\ Cardinality(Newest(s, e)) = m
<1> DEFINE n == Len(fetched[s])
           m == IF e <= n THEN e ELSE n
           a == [k \in 1..n |-> fetched[s][k].at]
           Upto(i) == {k \in Listed(s) : k <= i}
<1>1. n \in Nat /\ DOMAIN fetched[s] = 1..n /\ a \in [1..n -> Int] /\ \A i, k \in 1..n : i < k => a[i] < a[k]
  BY WhatCameBack
<1>2. Listed(s) = {a[i] : i \in 1..n}
  BY <1>1 DEF Ats
<1>3. m \in 0..n /\ \A k \in 1..n : k <= e <=> k \in 1..m
  BY <1>1
<1> HIDE DEF n, m, a
<1>4. ASSUME NEW k \in 1..n PROVE Cardinality(Upto(a[k])) = k
  <2>1. k \in 0..n /\ k # 0
    BY <1>1
  <2>2. IsFiniteSet({a[i] : i \in 1..k}) /\ Cardinality({a[i] : i \in 1..k}) = k
    <3>1. n \in Nat /\ a \in [1..n -> Int] /\ \A i, l \in 1..n : i < l => a[i] < a[l]
      BY <1>1
    <3> QED  BY <2>1, <3>1, FirstOnes, ZenonT(30)
  <2>3. k # 0 => {x \in {a[i] : i \in 1..n} : x <= a[k]} = {a[i] : i \in 1..k}
    BY <1>1, <2>1, FirstOnes, Zenon
  <2> QED  BY <1>2, <2>1, <2>2, <2>3
<1>5. Newest(s, e) = {i \in Listed(s) : Cardinality(Upto(i)) <= e}
  BY DEF Newest
<1> HIDE DEF Upto
<1>6. Newest(s, e) = {a[k] : k \in 1..m}
  <2>1. ASSUME NEW i \in Newest(s, e) PROVE i \in {a[k] : k \in 1..m}
    <3>1. PICK k \in 1..n : i = a[k]
      BY <1>2, <1>5
    <3> QED  BY <1>3, <1>4, <1>5, <3>1
  <2>2. ASSUME NEW k \in 1..m PROVE a[k] \in Newest(s, e)
    BY <1>1, <1>2, <1>3, <1>4, <1>5, SMTT(30)
  <2> QED  BY <2>1, <2>2
<1>7. Cardinality(Newest(s, e)) = m
  <2>1. Cardinality({a[k] : k \in 1..m}) = m
    BY <1>1, <1>3, FirstOnes, ZenonT(30)
  <2> QED  BY <1>6, <2>1
<1>8. \A k \in 1..m : a[k] = fetched[s][k].at
  BY <1>1, <1>3 DEF a
<1>9. {a[k] : k \in 1..m} = {fetched[s][k].at : k \in 1..m}
  BY <1>8
<1> QED  BY <1>6, <1>7, <1>9 DEF n, m
\* (1) An unstable job failed in the newest payloads, one after the other.
LEMMA UnstableIsReal ==
  ASSUME MonitorAssumption, MonitorInv, NEW s \in Streams, step[s] = "done", odd[s] = {}, NEW j \in EdgeJobs,
         Streak(fetched[s], j) >= Escalation
  PROVE  ReallyUnstable(s, j)
<1> DEFINE n == Len(fetched[s])
<1>1. n \in Nat /\ DOMAIN fetched[s] = 1..n
  BY WhatCameBack
<1>2. Escalation \in Nat /\ Escalation > 0
  BY MonitorFacts
<1>3. Escalation <= n /\ \A k \in 1..Escalation : Fails(fetched[s][k].jobs[j])
  <2> HIDE DEF n
  <2> QED  BY <1>1, <1>2, RowOfFailures
<1>4. Ats(s) = Listed(s)
  <2>1. 1 \in DOMAIN fetched[s]
    BY <1>1, <1>2, <1>3
  <2>2. Ats(s) # {}
    BY <2>1 DEF Ats
  <2> QED  BY <2>2 DEF MonitorInv, Accounted, DoneInOrder
<1>5. /\ Newest(s, Escalation) = {fetched[s][k].at : k \in 1..Escalation}
      /\ Cardinality(Newest(s, Escalation)) = Escalation
  BY <1>2, <1>3, <1>4, NewestCameFirst
<1>6. \A k \in 1..Escalation : k \in Failing(s, j)
  BY <1>1, <1>2, <1>3 DEF Failing
<1>7. \A k \in 1..Escalation : fetched[s][k].at \in ReallyFailed(s, j)
  BY <1>6, FailuresAreReal
<1> QED  BY <1>5, <1>7 DEF ReallyUnstable

\* (2) The run that stands for a job is one that failed.
LEMMA FirstFailureIsReal ==
  ASSUME MonitorAssumption, MonitorInv, \A s \in Streams : step[s] = "done", NEW j \in EdgeJobs, Versions(j) # {}
  PROVE  /\ FirstFailure(j).type \in {"blocking", "informing"}
         /\ \E s \in Streams : \E i \in ReallyFailed(s, j) : FirstFailure(j) = history[s][i].jobs[j]
<1> DEFINE T == {n \in DOMAIN StreamOrder : Failing(StreamOrder[n], j) # {}}
<1>1. StreamOrder \in Seq(Streams)
  BY DEF MonitorAssumption
<1>2. T \subseteq Nat /\ \A n \in DOMAIN StreamOrder : StreamOrder[n] \in Streams
  BY <1>1
<1>3. T # {}
  <2>1. PICK s \in Streams : Failing(s, j) # {}
    BY DEF Versions
  <2>2. PICK n \in DOMAIN StreamOrder : StreamOrder[n] = s
    BY DEF Streams, ToSet
  <2> QED  BY <2>1, <2>2
<1>4. \A S \in SUBSET Nat : S # {} => Min(S) \in S
  <2>1. ASSUME NEW S \in SUBSET Nat, S # {} PROVE Min(S) \in S
    <3>1. \E m \in S : \A k \in S : m <= k
      BY <2>1, LeastNumber
    <3> QED  BY <3>1 DEF Min
  <2> QED  BY <2>1
<1> HIDE DEF T
<1>5. Min(T) \in T
  BY <1>2, <1>3, <1>4
<1> DEFINE s == StreamOrder[Min(T)]
           k == Min(Failing(s, j))
<1>6. s \in Streams /\ Failing(s, j) # {}
  BY <1>2, <1>5 DEF T
<1>7. FirstFailure(j) = fetched[s][k].jobs[j]
  BY DEF FirstFailure, T
<1> HIDE DEF s
<1>8. k \in Failing(s, j)
  BY <1>4, <1>6, FailuresAreReal
<1> HIDE DEF k
<1> QED  BY <1>6, <1>7, <1>8, FailuresAreReal

\* (3) What is counted did happen.
LEMMA CountedIsReal ==
  ASSUME MonitorAssumption, MonitorInv, \A s \in Streams : step[s] = "done", NEW j \in EdgeJobs
  PROVE  FailureCount(j) \in Nat /\ ReallyCounted(j) \in Nat /\ FailureCount(j) <= ReallyCounted(j)
<1> DEFINE f == [s \in Streams |-> Cardinality(Failing(s, j))]
           g == [s \in Streams |-> Cardinality(ReallyFailed(s, j))]
<1>1. IsFiniteSet(Streams)
  BY MonitorFacts
<1>2. \A s \in Streams : f[s] \in Nat /\ g[s] \in Nat /\ f[s] <= g[s]
  BY FailuresAreReal
<1>3. FailureCount(j) = SumFunctionOnSet(f, Streams) /\ ReallyCounted(j) = SumFunctionOnSet(g, Streams)
  BY DEF FailureCount, ReallyCounted
<1> HIDE DEF f, g
<1>4. SumFunctionOnSet(f, Streams) \in Nat /\ SumFunctionOnSet(g, Streams) \in Nat
  BY <1>1, <1>2, SumNat
<1>5. SumFunctionOnSet(f, Streams) <= SumFunctionOnSet(g, Streams)
  <2>1. \A s \in Streams : f[s] \in Int /\ g[s] \in Int
    BY <1>2
  <2> QED  BY <1>1, <1>2, <2>1, SumAtMost
<1> QED  BY <1>3, <1>4, <1>5

\* (4) When every answer came, nothing that happened is missing.
LEMMA NothingIsMissing ==
  ASSUME MonitorAssumption, MonitorInv, NEW s \in Streams, step[s] = "done", lost[s] \cup odd[s] = {}, NEW j \in EdgeJobs
  PROVE  /\ Ats(s) = Listed(s)
         /\ \A k \in DOMAIN fetched[s] : fetched[s][k].jobs[j] = history[s][fetched[s][k].at].jobs[j]
         /\ ReallyFailed(s, j) = {fetched[s][k].at : k \in Failing(s, j)}
         /\ Cardinality(Failing(s, j)) = Cardinality(ReallyFailed(s, j))
         /\ ReallyUnstable(s, j) => Streak(fetched[s], j) >= Escalation
<1>1. MonitorTypes /\ Accounted(s) /\ Genuine(s) /\ DoneInOrder(s)
  BY DEF MonitorInv
<1>2. Ats(s) = Listed(s)
  BY <1>1 DEF Accounted, DoneInOrder
<1>3. \A k \in DOMAIN fetched[s] : fetched[s][k].jobs[j] = history[s][fetched[s][k].at].jobs[j]
  BY <1>1 DEF Genuine
<1>4. ReallyFailed(s, j) = {fetched[s][k].at : k \in Failing(s, j)}
  <2>1. ASSUME NEW i \in ReallyFailed(s, j) PROVE \E k \in Failing(s, j) : i = fetched[s][k].at
    <3>1. PICK k \in DOMAIN fetched[s] : i = fetched[s][k].at
      BY <1>2 DEF ReallyFailed, Ats
    <3> QED  BY <1>3, <3>1 DEF ReallyFailed, Failing
  <2>2. \A k \in Failing(s, j) : fetched[s][k].at \in ReallyFailed(s, j)
    BY FailuresAreReal
  <2> QED  BY <2>1, <2>2
<1>5. Cardinality(Failing(s, j)) = Cardinality(ReallyFailed(s, j))
  <2> DEFINE f == [k \in Failing(s, j) |-> fetched[s][k].at]
  <2>1. f \in Surjection(Failing(s, j), ReallyFailed(s, j))
    BY <1>4 DEF Surjection
  <2> HIDE DEF f
  <2>2. Cardinality(ReallyFailed(s, j)) <= Cardinality(Failing(s, j))
    BY <2>1, FailuresAreReal, FS_Surjection
  <2> QED  BY <2>2, FailuresAreReal
<1>6. ASSUME ReallyUnstable(s, j) PROVE Streak(fetched[s], j) >= Escalation
  <2> DEFINE n == Len(fetched[s])
             m == IF Escalation <= n THEN Escalation ELSE n
  <2>1. n \in Nat /\ DOMAIN fetched[s] = 1..n
    BY WhatCameBack
  <2>2. Escalation \in Nat /\ Escalation > 0
    BY MonitorFacts
  <2>3. Newest(s, Escalation) = {fetched[s][k].at : k \in 1..m} /\ Cardinality(Newest(s, Escalation)) = m
    BY <1>2, <2>2, NewestCameFirst
  <2>4. m = Escalation /\ Escalation <= n
    BY <1>6, <2>1, <2>2, <2>3 DEF ReallyUnstable
  <2>5. \A k \in 1..Escalation : Fails(fetched[s][k].jobs[j])
    <3>1. \A k \in 1..Escalation : k \in DOMAIN fetched[s] /\ fetched[s][k].at \in ReallyFailed(s, j)
      BY <1>6, <2>1, <2>2, <2>3, <2>4 DEF ReallyUnstable
    <3> QED  BY <1>3, <3>1 DEF ReallyFailed
  <2> HIDE DEF n
  <2> QED  BY <2>1, <2>2, <2>4, <2>5, RowOfFailures
<1> QED  BY <1>2, <1>3, <1>4, <1>5, <1>6

\* What the analysis concludes did happen.
LEMMA TroubleIsReal ==
  ASSUME MonitorAssumption, MonitorInv, analysed
  PROVE  /\ \A r \in risks : odd[r[1]] = {} => ReallyUnstable(r[1], r[2])
         /\ \A j \in DOMAIN bugs :
              /\ bugs[j] \subseteq {s \in Streams : ReallyFailed(s, j) # {}}
              /\ Dropped \/ ReallyBlocked(j) \/ ReallyCounted(j) >= Persistent \/ \E s \in Streams : ReallyUnstable(s, j)
<1>1. /\ \A s \in Streams : step[s] = "done"
      /\ risks = EscalationRisks
      /\ bugs = [j \in {job \in EdgeJobs : WorthFiling(job, risks)} |-> Versions(j)]
  BY DEF MonitorInv, Concluded
<1>2. ASSUME NEW s \in Streams, NEW j \in EdgeJobs, <<s, j>> \in risks, odd[s] = {} PROVE ReallyUnstable(s, j)
  <2>1. Streak(fetched[s], j) >= Escalation
    BY <1>1, <1>2 DEF EscalationRisks
  <2> QED  BY <1>1, <1>2, <2>1, UnstableIsReal
<1>3. \A r \in risks : r[1] \in Streams /\ r[2] \in EdgeJobs /\ r = <<r[1], r[2]>>
  <2>1. risks \subseteq Streams \X EdgeJobs
    BY <1>1 DEF EscalationRisks
  <2> QED  BY <2>1
<1>4. ASSUME NEW j \in DOMAIN bugs
      PROVE  /\ bugs[j] \subseteq {s \in Streams : ReallyFailed(s, j) # {}}
             /\ Dropped \/ ReallyBlocked(j) \/ ReallyCounted(j) >= Persistent \/ \E s \in Streams : ReallyUnstable(s, j)
  <2>1. j \in EdgeJobs /\ WorthFiling(j, risks) /\ bugs[j] = Versions(j)
    BY <1>1
  <2>2. \A s \in Streams : Failing(s, j) # {} => ReallyFailed(s, j) # {}
    BY <1>1, <2>1, FailuresAreReal
  <2>3. CASE FirstFailure(j).type = "blocking"
    <3>1. PICK s \in Streams : \E i \in ReallyFailed(s, j) : FirstFailure(j) = history[s][i].jobs[j]
      BY <1>1, <2>1, FirstFailureIsReal DEF WorthFiling
    <3> QED  BY <2>1, <2>2, <2>3, <3>1 DEF ReallyBlocked, Versions
  <2>4. CASE FailureCount(j) >= Persistent
    <3>1. FailureCount(j) \in Nat /\ ReallyCounted(j) \in Nat /\ FailureCount(j) <= ReallyCounted(j)
      BY <1>1, <2>1, CountedIsReal
    <3>2. ReallyCounted(j) >= Persistent
      BY <2>4, <3>1, MonitorFacts
    <3> QED  BY <2>1, <2>2, <3>2 DEF Versions
  <2>5. CASE \E s \in Streams : <<s, j>> \in risks
    BY <1>2, <2>1, <2>2, <2>5 DEF Versions, Dropped
  <2> QED  BY <2>1, <2>3, <2>4, <2>5 DEF WorthFiling
<1> QED  BY <1>2, <1>3, <1>4

LEMMA NoTroubleIsHidden ==
  ASSUME MonitorAssumption, MonitorInv, analysed, Complete, NEW j \in EdgeJobs
  PROVE  \/ j \in DOMAIN bugs /\ bugs[j] = {s \in Streams : ReallyFailed(s, j) # {}}
         \/ /\ ReallyCounted(j) < Persistent
            /\ \A s \in Streams : Informs(s, j) => ~ReallyUnstable(s, j)
            /\ ReallyBlocked(j) => \E s \in Streams : \E i \in ReallyFailed(s, j) :
                                     history[s][i].jobs[j].type = "informing"
<1>1. /\ \A s \in Streams : step[s] = "done" /\ lost[s] \cup odd[s] = {}
      /\ risks = EscalationRisks
      /\ bugs = [job \in {i \in EdgeJobs : WorthFiling(i, risks)} |-> Versions(job)]
  BY DEF MonitorInv, Concluded, Complete
<1>2. \A s \in Streams : ReallyFailed(s, j) = {fetched[s][k].at : k \in Failing(s, j)}
  BY <1>1, NothingIsMissing
<1>3. ASSUME NEW s \in Streams PROVE Failing(s, j) # {} <=> ReallyFailed(s, j) # {}
  <2>1. ReallyFailed(s, j) = {fetched[s][k].at : k \in Failing(s, j)}
    BY <1>2
  <2>2. CASE Failing(s, j) = {}
    BY <2>1, <2>2
  <2>3. CASE Failing(s, j) # {}
    <3>1. PICK k \in Failing(s, j) : TRUE
      BY <2>3
    <3> QED  BY <2>1, <2>3, <3>1
  <2> QED  BY <2>2, <2>3
<1>4. Versions(j) = {s \in Streams : ReallyFailed(s, j) # {}}
  BY <1>3 DEF Versions
<1>5. CASE WorthFiling(j, risks)
  BY <1>1, <1>4, <1>5
<1>6. CASE ~WorthFiling(j, risks)
  <2> DEFINE f == [s \in Streams |-> Cardinality(Failing(s, j))]
             g == [s \in Streams |-> Cardinality(ReallyFailed(s, j))]
  <2>1. ReallyCounted(j) = FailureCount(j) /\ FailureCount(j) \in Nat
    <3>1. \A s \in Streams : f[s] = g[s] /\ f[s] \in Int
      BY <1>1, NothingIsMissing, FailuresAreReal
    <3>2. IsFiniteSet(Streams)
      BY MonitorFacts
    <3>3. f = g
      BY <3>1
    <3> QED  BY <1>1, <3>3, CountedIsReal DEF FailureCount, ReallyCounted
  <2>2. CASE Versions(j) = {}
    <3>1. \A s \in Streams : ReallyFailed(s, j) = {}
      BY <1>4, <2>2
    <3>2. ReallyCounted(j) = 0
      <4>1. \A s \in Streams : g[s] = 0
        BY <3>1, FS_EmptySet
      <4>2. ReallyCounted(j) = SumFunctionOnSet(g, Streams)
        BY DEF ReallyCounted
      <4> HIDE DEF g
      <4> QED  BY <4>1, <4>2, MonitorFacts, SumRest
    <3>3. \A s \in Streams : ~ReallyUnstable(s, j)
      <4>1. ASSUME NEW s \in Streams, ReallyUnstable(s, j) PROVE FALSE
        <5>1. Newest(s, Escalation) = {} /\ Cardinality(Newest(s, Escalation)) = Escalation
          BY <3>1, <4>1 DEF ReallyUnstable
        <5> QED  BY <5>1, FS_EmptySet, MonitorFacts
      <4> QED  BY <4>1
    <3> QED  BY <3>1, <3>2, <3>3, MonitorFacts DEF ReallyBlocked
  <2>3. CASE Versions(j) # {}
    <3>1. /\ FirstFailure(j).type # "blocking" /\ ~(FailureCount(j) >= Persistent)
          /\ \A s \in Streams : <<s, j>> \notin risks
      BY <1>6, <2>3 DEF WorthFiling
    <3>2. ReallyCounted(j) < Persistent
      BY <2>1, <3>1, MonitorFacts
    <3>3. ASSUME NEW s \in Streams, Informs(s, j), ReallyUnstable(s, j) PROVE FALSE
      <4>1. PICK i \in Listed(s) : history[s][i].jobs[j].type = "informing"
        BY <3>3 DEF Informs
      <4>2. PICK k \in DOMAIN fetched[s] : fetched[s][k].at = i
        BY <1>1, NothingIsMissing DEF Ats
      <4>3. fetched[s][k].jobs[j].type = "informing"
        BY <1>1, <4>1, <4>2, NothingIsMissing
      <4>4. Streak(fetched[s], j) >= Escalation
        BY <1>1, <3>3, NothingIsMissing
      <4> QED  BY <1>1, <3>1, <4>3, <4>4 DEF EscalationRisks
    <3>4. \E s \in Streams : \E i \in ReallyFailed(s, j) : history[s][i].jobs[j].type = "informing"
      BY <1>1, <2>3, <3>1, FirstFailureIsReal
    <3> QED  BY <3>2, <3>3, <3>4
  <2> QED  BY <2>2, <2>3
<1> QED  BY <1>5, <1>6

\* The collection goes through its steps, looks for no payload that is not
\* listed, and the results are about known streams and jobs.
THEOREM MonitorTypeCorrect ==
  ASSUME MonitorAssumption
  PROVE  MonitorSpec => []MonitorTypeOK
<1>1. MonitorSpec => []MonitorInv
  BY MonitorInvariant
<1>2. MonitorInv => MonitorTypeOK
  <2>1. ASSUME MonitorInv, NEW s \in Streams PROVE waiting[s] \cup lost[s] \cup odd[s] \subseteq Listed(s)
    BY <2>1 DEF MonitorInv, Accounted
  <2>2. ASSUME MonitorInv PROVE risks \subseteq Streams \X EdgeJobs /\ DOMAIN bugs \subseteq EdgeJobs
    BY <2>2 DEF MonitorInv, Concluded, EscalationRisks
  <2> QED  BY <2>1, <2>2 DEF MonitorTypeOK, MonitorInv, MonitorTypes
<1> QED  BY <1>1, <1>2, PTL

\* In whatever order the answers come and whichever are lost, for every
\* history: what the monitor suggests did happen, and when every answer came
\* nothing that happened is missing (monitor.py collect_all, analyze).
THEOREM BugsMeanTroubleHolds ==
  ASSUME MonitorAssumption
  PROVE  MonitorSpec => []BugsMeanTrouble
<1>1. MonitorSpec => []MonitorInv
  BY MonitorInvariant
<1>2. MonitorInv => BugsMeanTrouble
  BY TroubleIsReal, NoTroubleIsHidden DEF BugsMeanTrouble
<1> QED  BY <1>1, <1>2, PTL
(***************************************************************************)
(* ProjectNotes                                                            *)
(***************************************************************************)
\* The items a project may have after so many were written, and its notes.
ItemsUpTo(n) == [number : 1..n, kind : ItemKinds]
NotesOf(n)   == [Headings -> [items : Seq(ItemsUpTo(n)), pointer : BOOLEAN]]

\* A run goes by the notes as they are, and of each section it will rewrite the
\* block, or one of the section and of this day, is in the archive.
NotesInv ==
  /\ made \in Nat /\ day \in Nat \ {0}
  /\ doc \in NotesOf(made)
  /\ \A b \in archive : b.items \subseteq ItemsUpTo(made) /\ b.date \in 1..day
  /\ consolidation # << >> =>
       /\ consolidation = <<doc>>
       /\ \A h \in Qualifying(doc) :
            \/ Block(h, doc[h]) \in archive
            \/ \E b \in archive : b.heading = h /\ b.date = day

\* The items of some kinds.
LEMMA OfKinds ==
  ASSUME NEW n \in Nat, NEW section \in [items : Seq(ItemsUpTo(n)), pointer : BOOLEAN], NEW kinds
  PROVE  /\ Of(section, kinds) \in Seq(ItemsUpTo(n))
         /\ Range(Of(section, kinds)) = {i \in Range(section.items) : i.kind \in kinds}
<1> DEFINE S == {i \in Range(section.items) : i.kind \in kinds}
<1>1. section.items \in Seq(ItemsUpTo(n))
  OBVIOUS
<1>2. S \subseteq Range(section.items)
  OBVIOUS
<1>3. Of(section, kinds) = Keeping(section.items, S)
  BY DEF Of
<1> HIDE DEF S
<1>4. Keeping(section.items, S) \in Seq(ItemsUpTo(n)) /\ Range(Keeping(section.items, S)) = Range(section.items) \cap S
  BY <1>1, Kept
<1>5. Range(Of(section, kinds)) = S
  BY <1>2, <1>3, <1>4
<1> QED  BY <1>3, <1>4, <1>5 DEF S

\* A block has items of its section, and no open one.
LEMMA ArchivedItems ==
  ASSUME NotesAssumption, NEW n \in Nat, NEW section \in [items : Seq(ItemsUpTo(n)), pointer : BOOLEAN], NEW h
  PROVE  /\ ToArchive(h, section) \subseteq Range(section.items)
         /\ \A i \in ToArchive(h, section) : i.kind # "unchecked"
         /\ Range(section.items) \subseteq ItemsUpTo(n)
<1> DEFINE old  == Len(Checked(section)) - KeepRecent
           rest == IF h = Progress THEN {"strikethrough", "plain"} ELSE {"strikethrough"}
<1>1. /\ Checked(section) \in Seq(ItemsUpTo(n))
      /\ Range(Checked(section)) = {i \in Range(section.items) : i.kind \in {"checked"}}
  BY OfKinds DEF Checked
<1>2. Range(Of(section, rest)) = {i \in Range(section.items) : i.kind \in rest}
  BY OfKinds
<1>3. ASSUME NEW k \in 1..old PROVE Checked(section)[k] \in Range(Checked(section))
  <2>1. KeepRecent \in Nat /\ Len(Checked(section)) \in Nat
    BY <1>1 DEF NotesAssumption
  <2>2. k \in 1..Len(Checked(section))
    BY <2>1
  <2> QED  BY <1>1, <2>2 DEF Range
<1>4. ToArchive(h, section) = {Checked(section)[k] : k \in 1..old} \cup Range(Of(section, rest))
  BY DEF ToArchive
<1>5. Range(section.items) \subseteq ItemsUpTo(n)
  BY DEF Range
<1> HIDE DEF old
<1>6. \A i \in ToArchive(h, section) : i \in Range(section.items) /\ i.kind \in {"checked", "strikethrough", "plain"}
  BY <1>1, <1>2, <1>3, <1>4
<1> QED  BY <1>5, <1>6

\* What leaves a section is in its block.
LEMMA RewrittenKeeps ==
  ASSUME NEW n \in Nat, NEW section \in [items : Seq(ItemsUpTo(n)), pointer : BOOLEAN], NEW h
  PROVE  /\ Rewritten(h, section) \in [items : Seq(ItemsUpTo(n)), pointer : BOOLEAN]
         /\ \A i \in Range(section.items) : i \in Range(Rewritten(h, section).items) \/ i \in ToArchive(h, section)
<1> DEFINE S == Range(section.items) \ ToArchive(h, section)
<1>1. section.items \in Seq(ItemsUpTo(n))
  OBVIOUS
<1>2. Rewritten(h, section) = [items |-> Keeping(section.items, S), pointer |-> TRUE]
  BY DEF Rewritten
<1>3. S = Range(section.items) \ ToArchive(h, section)
  OBVIOUS
<1> HIDE DEF S
<1>4. Keeping(section.items, S) \in Seq(ItemsUpTo(n)) /\ Range(Keeping(section.items, S)) = Range(section.items) \cap S
  BY <1>1, Kept
<1>5. Rewritten(h, section) \in [items : Seq(ItemsUpTo(n)), pointer : BOOLEAN]
  BY <1>2, <1>4
<1>6. Range(Rewritten(h, section).items) = Range(section.items) \cap S
  BY <1>2, <1>4
<1> QED  BY <1>3, <1>5, <1>6

LEMMA NotesInit ==
  ASSUME NotesAssumption, InitNotes
  PROVE  NotesInv
<1>1. doc \in NotesOf(0)
  BY DEF InitNotes, NotesOf
<1> QED  BY <1>1 DEF InitNotes, NotesInv

\* More items may be written, the notes stay notes.
LEMMA NotesGrow ==
  ASSUME NEW n \in Nat, NEW m \in Nat, n <= m
  PROVE  ItemsUpTo(n) \subseteq ItemsUpTo(m) /\ NotesOf(n) \subseteq NotesOf(m)
<1>1. ItemsUpTo(n) \subseteq ItemsUpTo(m)
  BY DEF ItemsUpTo
<1>2. Seq(ItemsUpTo(n)) \subseteq Seq(ItemsUpTo(m))
  BY <1>1
<1>3. [items : Seq(ItemsUpTo(n)), pointer : BOOLEAN] \subseteq [items : Seq(ItemsUpTo(m)), pointer : BOOLEAN]
  BY <1>2
<1> QED  BY <1>1, <1>3 DEF NotesOf

LEMMA EditKeeps ==
  ASSUME NotesInv, NEW h \in Headings, NEW n \in Nat, made <= n,
         NEW section \in [items : Seq(ItemsUpTo(n)), pointer : BOOLEAN], Edit(h, section), made' = n
  PROVE  NotesInv'
<1>1. doc \in NotesOf(n) /\ ItemsUpTo(made) \subseteq ItemsUpTo(n)
  BY NotesGrow DEF NotesInv
<1>2. doc' \in NotesOf(n)
  BY <1>1 DEF Edit, NotesOf
<1> QED  BY <1>1, <1>2 DEF Edit, NotesInv

LEMMA WriteArchiveKeeps ==
  ASSUME NotesAssumption, NotesInv, WriteArchive
  PROVE  NotesInv'
<1>1. /\ consolidation' = <<doc>> /\ doc' = doc /\ day' = day /\ made' = made
      /\ archive' = archive \union {b \in Blocks(doc) : ~InArchive(b)}
  BY DEF WriteArchive
<1>2. \A h \in Headings : doc[h] \in [items : Seq(ItemsUpTo(made)), pointer : BOOLEAN]
  BY DEF NotesInv, NotesOf
<1>3. \A h \in Headings : ToArchive(h, doc[h]) \subseteq ItemsUpTo(made)
  BY <1>2, ArchivedItems DEF NotesInv
<1>4. \A h : /\ Block(h, doc[h]).heading = h /\ Block(h, doc[h]).date = day
             /\ Block(h, doc[h]).items = ToArchive(h, doc[h])
  BY DEF Block
<1>5. \A b \in archive' : b.items \subseteq ItemsUpTo(made) /\ b.date \in 1..day
  <2>1. \A b \in Blocks(doc) : b.items \subseteq ItemsUpTo(made) /\ b.date \in 1..day
    BY <1>3, <1>4 DEF Blocks, Qualifying, NotesInv
  <2> QED  BY <1>1, <2>1 DEF NotesInv
<1>6. ASSUME NEW h \in Qualifying(doc)
      PROVE  Block(h, doc[h]) \in archive' \/ \E b \in archive' : b.heading = h /\ b.date = day
  <2>1. Block(h, doc[h]) \in Blocks(doc)
    BY DEF Blocks
  <2>2. CASE ~InArchive(Block(h, doc[h]))
    BY <1>1, <2>1, <2>2
  <2>3. CASE InArchive(Block(h, doc[h]))
    BY <1>1, <1>4, <2>3 DEF InArchive
  <2> QED  BY <2>2, <2>3
<1>7. \A h \in Qualifying(doc') :
        \/ Block(h, doc[h])' \in archive'
        \/ \E b \in archive' : b.heading = h /\ b.date = day'
  BY <1>1, <1>6 DEF Block, Qualifying
<1> QED  BY <1>1, <1>5, <1>7 DEF NotesInv

LEMMA WriteNotesKeeps ==
  ASSUME NotesInv, WriteNotes
  PROVE  NotesInv'
<1>1. /\ doc' = [h \in Headings |-> IF h \in Qualifying(doc) THEN Rewritten(h, doc[h]) ELSE doc[h]]
      /\ consolidation' = << >> /\ archive' = archive /\ day' = day /\ made' = made
  BY DEF WriteNotes, NotesInv
<1>2. \A h \in Headings : doc[h] \in [items : Seq(ItemsUpTo(made)), pointer : BOOLEAN]
  BY DEF NotesInv, NotesOf
<1>3. \A h \in Headings : Rewritten(h, doc[h]) \in [items : Seq(ItemsUpTo(made)), pointer : BOOLEAN]
  BY <1>2, RewrittenKeeps DEF NotesInv
<1>4. doc' \in NotesOf(made)
  BY <1>1, <1>2, <1>3 DEF NotesOf
<1> QED  BY <1>1, <1>4 DEF NotesInv

LEMMA NotesStepKeeps ==
  ASSUME NotesAssumption, NotesInv, NotesStep
  PROVE  NotesInv'
<1>0. made \in Nat
  BY DEF NotesInv
<1>1. CASE WriteArchive
  BY <1>1, WriteArchiveKeeps
<1>2. CASE WriteNotes
  BY <1>2, WriteNotesKeeps
<1>3. CASE ConsolidationDies
  BY <1>3 DEF ConsolidationDies, NotesInv
<1>4. CASE NextDay
  BY <1>4 DEF NextDay, NotesInv
<1>5. ASSUME NEW h \in Headings, Add(h) PROVE NotesInv'
  <2> PICK k \in ItemKinds :
        Edit(h, [doc[h] EXCEPT !.items = Append(@, [number |-> made + 1, kind |-> k])])
    BY <1>5 DEF Add
  <2> DEFINE section == [doc[h] EXCEPT !.items = Append(@, [number |-> made + 1, kind |-> k])]
  <2>1. doc \in NotesOf(made + 1) /\ made + 1 \in Nat /\ made <= made + 1
    BY <1>0, NotesGrow DEF NotesInv
  <2>2. [number |-> made + 1, kind |-> k] \in ItemsUpTo(made + 1)
    BY <1>0 DEF ItemsUpTo
  <2>3. doc[h] \in [items : Seq(ItemsUpTo(made + 1)), pointer : BOOLEAN]
    BY <2>1 DEF NotesOf
  <2>4. section \in [items : Seq(ItemsUpTo(made + 1)), pointer : BOOLEAN]
    BY <2>2, <2>3
  <2>5. made' = made + 1 /\ Edit(h, section)
    BY <1>5 DEF Add
  <2> HIDE DEF section
  <2> QED  BY <2>1, <2>4, <2>5, EditKeeps
<1>6. ASSUME NEW h \in Headings, Change(h) PROVE NotesInv'
  <2> PICK i \in DOMAIN doc[h].items, k \in {"checked", "strikethrough"} : Edit(h, [doc[h] EXCEPT !.items[i].kind = k])
    BY <1>6 DEF Change
  <2> DEFINE section == [doc[h] EXCEPT !.items[i].kind = k]
  <2>1. doc[h] \in [items : Seq(ItemsUpTo(made)), pointer : BOOLEAN]
    BY DEF NotesInv, NotesOf
  <2>2. [doc[h].items[i] EXCEPT !.kind = k] \in ItemsUpTo(made)
    <3>1. doc[h].items[i] \in ItemsUpTo(made)
      BY <2>1
    <3> QED  BY <3>1 DEF ItemsUpTo, ItemKinds
  <2>3. [doc[h].items EXCEPT ![i] = [doc[h].items[i] EXCEPT !.kind = k]] \in Seq(ItemsUpTo(made))
    BY <2>1, <2>2
  <2>4. section = [doc[h] EXCEPT !.items = [doc[h].items EXCEPT ![i] = [doc[h].items[i] EXCEPT !.kind = k]]]
    BY <2>1
  <2>5. section \in [items : Seq(ItemsUpTo(made)), pointer : BOOLEAN]
    BY <2>1, <2>3, <2>4
  <2>6. made' = made /\ Edit(h, section)
    BY <1>6 DEF Change
  <2> HIDE DEF section
  <2> QED  BY <1>0, <2>5, <2>6, EditKeeps
<1>7. ASSUME NEW h \in Headings, Delete(h) PROVE NotesInv'
  <2> PICK i \in DOMAIN doc[h].items : Edit(h, [doc[h] EXCEPT !.items = RemoveAt(@, i)])
    BY <1>7 DEF Delete
  <2>1. doc[h] \in [items : Seq(ItemsUpTo(made)), pointer : BOOLEAN]
    BY DEF NotesInv, NotesOf
  <2>2. RemoveAt(doc[h].items, i) \in Seq(ItemsUpTo(made))
    <3>1. doc[h].items \in Seq(ItemsUpTo(made)) /\ i \in 1..Len(doc[h].items)
      BY <2>1
    <3>2. SubSeq(doc[h].items, 1, i - 1) \in Seq(ItemsUpTo(made))
      BY <3>1
    <3>3. SubSeq(doc[h].items, i + 1, Len(doc[h].items)) \in Seq(ItemsUpTo(made))
      BY <3>1
    <3> QED  BY <3>2, <3>3 DEF RemoveAt
  <2>3. [doc[h] EXCEPT !.items = RemoveAt(@, i)] \in [items : Seq(ItemsUpTo(made)), pointer : BOOLEAN]
    BY <2>1, <2>2
  <2> DEFINE section == [doc[h] EXCEPT !.items = RemoveAt(@, i)]
  <2>4. made' = made /\ Edit(h, section) /\ section \in [items : Seq(ItemsUpTo(made)), pointer : BOOLEAN]
    BY <1>7, <2>3 DEF Delete
  <2> HIDE DEF section
  <2> QED  BY <1>0, <2>4, EditKeeps
<1>8. ASSUME NEW h \in Headings, RemovePointer(h) PROVE NotesInv'
  <2>1. doc[h] \in [items : Seq(ItemsUpTo(made)), pointer : BOOLEAN]
    BY DEF NotesInv, NotesOf
  <2>2. [doc[h] EXCEPT !.pointer = FALSE] \in [items : Seq(ItemsUpTo(made)), pointer : BOOLEAN]
    BY <2>1
  <2> DEFINE section == [doc[h] EXCEPT !.pointer = FALSE]
  <2>3. made' = made /\ Edit(h, section) /\ section \in [items : Seq(ItemsUpTo(made)), pointer : BOOLEAN]
    BY <1>8, <2>2 DEF RemovePointer
  <2> HIDE DEF section
  <2> QED  BY <1>0, <2>3, EditKeeps
<1> QED  BY <1>1, <1>2, <1>3, <1>4, <1>5, <1>6, <1>7, <1>8 DEF NotesStep

\* Everything that happens to the notes keeps the invariant.
THEOREM NotesInvariant == ASSUME NotesAssumption PROVE NotesSpec => []NotesInv
<1>1. InitNotes => NotesInv
  BY NotesInit
<1>2. NotesInv /\ [NotesStep]_notesVars => NotesInv'
  <2>1. ASSUME NotesInv, UNCHANGED notesVars PROVE NotesInv'
    BY <2>1 DEF notesVars, NotesInv, Qualifying, Qualifies, Block, ToArchive, Of, Checked
  <2> QED  BY <2>1, NotesStepKeeps
<1> QED  BY <1>1, <1>2, PTL DEF NotesSpec

\* consolidate-project: the notes and the archive have items that were written,
\* and no block is of a day to come.
THEOREM NotesTypeCorrect == ASSUME NotesAssumption PROVE NotesSpec => []NotesTypeOK
<1>1. NotesInv => NotesTypeOK
  <2>1. SUFFICES ASSUME NotesInv PROVE NotesTypeOK
    OBVIOUS
  <2>2. \A h \in Headings : doc[h] \in [items : Seq(ItemsUpTo(made)), pointer : BOOLEAN]
    BY <2>1 DEF NotesInv, NotesOf
  <2>3. \A h \in Headings : Range(doc[h].items) \subseteq ItemsUpTo(made)
    BY <2>2 DEF Range
  <2>4. Items(doc) \subseteq ItemsUpTo(made) /\ Archived \subseteq ItemsUpTo(made)
    BY <2>1, <2>3 DEF Items, Archived, NotesInv
  <2> QED  BY <2>1, <2>2, <2>4 DEF NotesTypeOK, NotesInv, ItemsUpTo
<1> QED  BY <1>1, NotesInvariant, PTL

\* consolidate-project writes the archive before CLAUDE.md and may die between:
\* what leaves CLAUDE.md is in a block that was written, or in a section of
\* which the archive had a block of the day.
THEOREM DroppedIsArchivedHolds == ASSUME NotesAssumption PROVE NotesSpec => DroppedIsArchived
<1> DEFINE Arch(notes) == notes # << >> =>
         \A i \in Items(doc) \ Items(doc') :
           /\ i.kind # "unchecked"
           /\ i \notin Archived =>
                \E b \in archive : b.date = day /\ i \in ToArchive(b.heading, notes[1][b.heading])
<1>1. NotesInv /\ [NotesStep]_notesVars => Arch(consolidation)
  <2>1. SUFFICES ASSUME NotesInv, [NotesStep]_notesVars, consolidation # << >>, NEW i \in Items(doc) \ Items(doc')
                 PROVE  /\ i.kind # "unchecked"
                        /\ i \notin Archived =>
                             \E b \in archive : b.date = day /\ i \in ToArchive(b.heading, consolidation[1][b.heading])
    OBVIOUS
  <2>2. consolidation = <<doc>> /\ consolidation[1] = doc /\ made \in Nat
    BY <2>1 DEF NotesInv
  <2>3. doc' # doc
    BY <2>1 DEF Items
  <2>4. WriteNotes
    BY <2>1, <2>3 DEF NotesStep, notesVars, WriteArchive, ConsolidationDies, NextDay, Add, Change, Delete, RemovePointer, Edit
  <2>5. PICK h \in Headings : i \in Range(doc[h].items) /\ i \notin Range(doc'[h].items)
    BY <2>1 DEF Items
  <2>6. doc[h] \in [items : Seq(ItemsUpTo(made)), pointer : BOOLEAN]
    BY <2>1 DEF NotesInv, NotesOf
  <2>7. h \in Qualifying(doc) /\ doc'[h] = Rewritten(h, doc[h])
    BY <2>2, <2>4, <2>5 DEF WriteNotes
  <2>8. i \in ToArchive(h, doc[h])
    BY <2>2, <2>5, <2>6, <2>7, RewrittenKeeps
  <2>9. i.kind # "unchecked"
    BY <2>2, <2>6, <2>8, ArchivedItems
  <2>10. CASE Block(h, doc[h]) \in archive
    BY <2>8, <2>9, <2>10 DEF Block, Archived
  <2>11. CASE \E b \in archive : b.heading = h /\ b.date = day
    BY <2>2, <2>8, <2>9, <2>11
  <2> QED  BY <2>1, <2>7, <2>10, <2>11 DEF NotesInv
<1>2. Arch(consolidation) <=>
        (consolidation # << >> =>
         \A i \in Items(doc) \ Items(doc') :
           /\ i.kind # "unchecked"
           /\ i \notin Archived =>
                \E b \in archive : b.date = day /\ i \in ToArchive(b.heading, consolidation[1][b.heading]))
  OBVIOUS
<1> QED  BY <1>1, <1>2, NotesInvariant, PTL DEF NotesSpec, DroppedIsArchived
(***************************************************************************)
(* BugSearch                                                               *)
(***************************************************************************)
\* A candidate, and the queries that may be asked of it.
CandidateRecords == [terms : Seq(Terms), ids : Seq(TestIds)]
QueriesOf(cand)  == [cand : {cand}, kind : {"open", "closed"}, terms : SUBSET Terms, limit : {PageLimit, IdLimit}]

LEMMA QueryIsOne ==
  ASSUME NEW cand, NEW kind \in {"open", "closed"}, NEW terms \in SUBSET Terms, NEW limit \in {PageLimit, IdLimit}
  PROVE  Query(cand, kind, terms, limit) \in QueriesOf(cand)
BY DEF Query, QueriesOf

\* The first so many of a list.
LEMMA FirstOf ==
  ASSUME NEW X, NEW s \in Seq(X), NEW n \in Nat, NEW t, t = SubSeq(s, 1, Min({n, Len(s)}))
  PROVE  /\ t \in Seq(X)
         /\ DOMAIN t = DOMAIN s \cap 1..n
         /\ \A k \in DOMAIN s \cap 1..n : t[k] = s[k]
<1>1. PICK l \in Nat : l = Len(s) /\ DOMAIN s = 1..l
  OBVIOUS
<1>2. PICK m : m = Min({n, l})
  OBVIOUS
<1>3. m \in {n, l} /\ \A y \in {n, l} : m <= y
  <2>1. \E x \in {n, l} : \A y \in {n, l} : x <= y
    OBVIOUS
  <2> QED  BY <1>2, <2>1 DEF Min
<1>4. m \in Nat /\ m <= l /\ m <= n
  BY <1>3
<1>5. (1..l) \cap (1..n) = 1..m
  BY <1>3, <1>4
<1>6. t = SubSeq(s, 1, m) /\ m <= Len(s)
  BY <1>1, <1>2, <1>4
<1>7. m \in Nat /\ m <= Len(s)
  BY <1>1, <1>4
<1>8. /\ SubSeq(s, 1, m) \in Seq(X)
      /\ Len(SubSeq(s, 1, m)) = m
      /\ \A k \in 1..m : SubSeq(s, 1, m)[k] = s[k]
  BY <1>7
<1>9. DOMAIN t = 1..m
  <2>1. t \in Seq(X) /\ Len(t) = m
    BY <1>6, <1>8, Zenon
  <2> QED  BY <2>1
<1> QED  BY <1>1, <1>5, <1>6, <1>8, <1>9

LEMMA KeywordFacts ==
  ASSUME NEW cand \in CandidateRecords
  PROVE  /\ Keywords(cand) \in Seq(Terms)
         /\ \A t \in ToSet(Keywords(cand)), i \in ToSet(cand.ids) : t # <<"bare", i>> /\ t # <<"ocp", i>>
<1> DEFINE first == SubSeq(cand.terms, 1, Min({4, Len(cand.terms)}))
           K     == {t \in Terms : \A i \in ToSet(cand.ids) : t \notin {<<"bare", i>>, <<"ocp", i>>}}
<1>1. cand.terms \in Seq(Terms)
  BY DEF CandidateRecords
<1>2. first \in Seq(Terms)
  BY <1>1, FirstOf
<1>3. Keywords(cand) = Keeping(first, K)
  BY DEF Keywords
<1>4. \A t \in K, i \in ToSet(cand.ids) : t # <<"bare", i>> /\ t # <<"ocp", i>>
  OBVIOUS
<1> HIDE DEF first, K
<1>5. Keywords(cand) \in Seq(Terms) /\ Range(Keywords(cand)) \subseteq K
  BY <1>2, <1>3, Kept
<1>6. ToSet(Keywords(cand)) = Range(Keywords(cand))
  BY DEF ToSet, Range
<1> QED  BY <1>4, <1>5, <1>6

LEMMA TopFacts ==
  ASSUME NEW cand \in CandidateRecords
  PROVE  /\ Top(cand) \in Seq(Terms)
         /\ ToSet(Top(cand)) = {Keywords(cand)[k] : k \in DOMAIN Keywords(cand) \cap 1..3}
         /\ ToSet(Top(cand)) \subseteq ToSet(Keywords(cand))
<1>1. Keywords(cand) \in Seq(Terms)
  BY KeywordFacts
<1>2. PICK K \in Seq(Terms) : K = Keywords(cand)
  BY <1>1
<1>3. /\ Top(cand) \in Seq(Terms)
      /\ DOMAIN Top(cand) = DOMAIN K \cap 1..3
      /\ \A k \in DOMAIN K \cap 1..3 : Top(cand)[k] = K[k]
  <2>1. Top(cand) = SubSeq(K, 1, Min({3, Len(K)}))
    BY <1>2 DEF Top
  <2>2. \A t : t = SubSeq(K, 1, Min({3, Len(K)})) =>
          /\ t \in Seq(Terms)
          /\ DOMAIN t = DOMAIN K \cap 1..3
          /\ \A k \in DOMAIN K \cap 1..3 : t[k] = K[k]
    <3>1. 3 \in Nat
      OBVIOUS
    <3> QED  BY <3>1, FirstOf, ZenonT(30)
  <2> QED  BY <2>1, <2>2, Zenon
<1> QED  BY <1>2, <1>3 DEF ToSet

LEMMA KeywordQueries ==
  ASSUME NEW cand \in CandidateRecords
  PROVE  ByKeyword(cand) \in Seq(QueriesOf(cand))
<1>1. PICK T \in Seq(Terms) : T = Top(cand)
  BY TopFacts
<1>2. ByKeyword(cand) = [k \in 1..Len(T) |-> Query(cand, "open", {T[k]}, PageLimit)]
  BY <1>1 DEF ByKeyword
<1>3. \A k \in 1..Len(T) : Query(cand, "open", {T[k]}, PageLimit) \in QueriesOf(cand)
  BY QueryIsOne
<1> QED  BY <1>2, <1>3

LEMMA PairQueries ==
  ASSUME NEW cand \in CandidateRecords
  PROVE  /\ ByPair(cand) \in Seq(QueriesOf(cand))
         /\ \A v, w \in ToSet(Top(cand)) : v # w => Query(cand, "open", {v, w}, PageLimit) \in ToSet(ByPair(cand))
<1>1. PICK T \in Seq(Terms) : T = Top(cand)
  BY TopFacts
<1> DEFINE pairs == kSubset(2, ToSet(T))
<1>2. IsFiniteSet(ToSet(T)) /\ ToSet(T) \subseteq Terms
  BY ListFinite
<1>3. pairs \subseteq SUBSET Terms /\ pairs \subseteq SUBSET ToSet(T)
  BY <1>2 DEF kSubset
<1>4. IsFiniteSet(pairs)
  <2>1. IsFiniteSet(SUBSET ToSet(T))
    BY <1>2, FS_SUBSET
  <2> HIDE DEF pairs
  <2> QED  BY <1>3, <2>1, FS_Subset
<1>5. ASSUME NEW v \in ToSet(T), NEW w \in ToSet(T), v # w PROVE {v, w} \in pairs
  <2>1. Cardinality({v, w}) = 2
    BY <1>5, PairSize
  <2> QED  BY <2>1 DEF kSubset
<1>6. ByPair(cand) = [p \in DOMAIN SetToSeq(pairs) |-> Query(cand, "open", SetToSeq(pairs)[p], PageLimit)]
  BY <1>1 DEF ByPair
<1> HIDE DEF pairs
<1>7. PICK s \in Seq(pairs) : s = SetToSeq(pairs) /\ ToSet(s) = pairs
  BY <1>4, Listing
<1>8. ByPair(cand) = [p \in 1..Len(s) |-> Query(cand, "open", s[p], PageLimit)]
  BY <1>6, <1>7
<1>9. \A p \in 1..Len(s) : Query(cand, "open", s[p], PageLimit) \in QueriesOf(cand)
  BY <1>3, QueryIsOne
<1>10. ByPair(cand) \in Seq(QueriesOf(cand))
  BY <1>8, <1>9
<1>11. ASSUME NEW p \in pairs PROVE Query(cand, "open", p, PageLimit) \in ToSet(ByPair(cand))
  <2>1. PICK i \in 1..Len(s) : s[i] = p
    BY <1>7 DEF ToSet
  <2> QED  BY <1>8, <2>1 DEF ToSet
<1> QED  BY <1>1, <1>5, <1>10, <1>11

LEMMA IdQueries ==
  ASSUME NEW cand \in CandidateRecords
  PROVE  /\ ById(cand) \in Seq(QueriesOf(cand))
         /\ \A i \in ToSet(cand.ids) : Query(cand, "open", {<<"ocp", i>>}, IdLimit) \in ToSet(ById(cand))
<1> DEFINE bare(i) == Query(cand, "open", {<<"bare", i>>}, IdLimit)
           ocp(i)  == Query(cand, "open", {<<"ocp", i>>}, IdLimit)
           seqs    == [i \in DOMAIN cand.ids |-> <<bare(cand.ids[i]), ocp(cand.ids[i])>>]
<1>1. PICK I \in Seq(TestIds) : I = cand.ids
  BY DEF CandidateRecords
<1>2. \A i \in TestIds : bare(i) \in QueriesOf(cand) /\ ocp(i) \in QueriesOf(cand)
  <2>1. \A i \in TestIds : {<<"bare", i>>} \in SUBSET Terms /\ {<<"ocp", i>>} \in SUBSET Terms
    BY DEF Terms
  <2> QED  BY <2>1, QueryIsOne
<1>3. ById(cand) = FlattenSeq(seqs)
  BY DEF ById
<1>4. seqs = [i \in 1..Len(I) |-> <<bare(I[i]), ocp(I[i])>>]
  BY <1>1
<1> HIDE DEF bare, ocp, seqs
<1>5. \A i \in 1..Len(I) : <<bare(I[i]), ocp(I[i])>> \in Seq(QueriesOf(cand))
  BY <1>2
<1>6. seqs \in Seq(Seq(QueriesOf(cand))) /\ DOMAIN seqs = 1..Len(I)
  BY <1>4, <1>5
<1>7. ById(cand) \in Seq(QueriesOf(cand)) /\ ToSet(ById(cand)) = UNION {ToSet(seqs[k]) : k \in DOMAIN seqs}
  BY <1>3, <1>6, Flattened
<1>8. ASSUME NEW k \in 1..Len(I) PROVE ocp(I[k]) \in ToSet(ById(cand))
  <2>1. seqs[k][2] = ocp(I[k]) /\ 2 \in DOMAIN seqs[k]
    BY <1>4
  <2>2. ocp(I[k]) \in ToSet(seqs[k])
    BY <2>1 DEF ToSet
  <2> QED  BY <1>6, <1>7, <2>2
<1>9. \A i \in ToSet(cand.ids) : ocp(i) \in ToSet(ById(cand))
  BY <1>1, <1>8 DEF ToSet
<1> QED  BY <1>7, <1>9 DEF ocp

LEMMA IdAndKeywordQueries ==
  ASSUME NEW cand \in CandidateRecords
  PROVE  /\ ByIdAndKeyword(cand) \in Seq(QueriesOf(cand))
         /\ \A i \in ToSet(cand.ids), w \in ToSet(Top(cand)) :
              Query(cand, "open", {<<"bare", i>>, w}, PageLimit) \in ToSet(ByIdAndKeyword(cand))
<1> DEFINE both(i, w) == Query(cand, "open", {<<"bare", i>>, w}, PageLimit)
           seqs == [i \in DOMAIN cand.ids |-> [k \in DOMAIN Top(cand) |-> both(cand.ids[i], Top(cand)[k])]]
<1>1. PICK I \in Seq(TestIds) : I = cand.ids
  BY DEF CandidateRecords
<1>2. PICK T \in Seq(Terms) : T = Top(cand)
  BY TopFacts
<1>3. \A i \in TestIds, w \in Terms : both(i, w) \in QueriesOf(cand)
  <2>1. \A i \in TestIds, w \in Terms : {<<"bare", i>>, w} \in SUBSET Terms
    BY DEF Terms
  <2> QED  BY <2>1, QueryIsOne
<1>4. ByIdAndKeyword(cand) = FlattenSeq(seqs)
  BY DEF ByIdAndKeyword
<1>5. seqs = [i \in 1..Len(I) |-> [k \in 1..Len(T) |-> both(I[i], T[k])]]
  BY <1>1, <1>2
<1> HIDE DEF both, seqs
<1>6. \A i \in 1..Len(I) : [k \in 1..Len(T) |-> both(I[i], T[k])] \in Seq(QueriesOf(cand))
  BY <1>3
<1>7. seqs \in Seq(Seq(QueriesOf(cand))) /\ DOMAIN seqs = 1..Len(I)
  BY <1>5, <1>6
<1>8. ByIdAndKeyword(cand) \in Seq(QueriesOf(cand))
      /\ ToSet(ByIdAndKeyword(cand)) = UNION {ToSet(seqs[k]) : k \in DOMAIN seqs}
  BY <1>4, <1>7, Flattened
<1>9. ASSUME NEW i \in 1..Len(I), NEW k \in 1..Len(T) PROVE both(I[i], T[k]) \in ToSet(ByIdAndKeyword(cand))
  <2>1. seqs[i][k] = both(I[i], T[k]) /\ k \in DOMAIN seqs[i]
    BY <1>5
  <2>2. both(I[i], T[k]) \in ToSet(seqs[i])
    BY <2>1 DEF ToSet
  <2> QED  BY <1>7, <1>8, <2>2
<1>10. \A i \in ToSet(cand.ids), w \in ToSet(Top(cand)) : both(i, w) \in ToSet(ByIdAndKeyword(cand))
  BY <1>1, <1>2, <1>9 DEF ToSet
<1> QED  BY <1>8, <1>10 DEF both

LEMMA ClosedQueries ==
  ASSUME NEW cand \in CandidateRecords
  PROVE  /\ ClosedByPair(cand) \in Seq(QueriesOf(cand))
         /\ Len(Keywords(cand)) >= 2 =>
              Query(cand, "closed", {Keywords(cand)[1], Keywords(cand)[2]}, PageLimit) \in ToSet(ClosedByPair(cand))
<1>1. PICK K \in Seq(Terms) : K = Keywords(cand)
  BY KeywordFacts
<1>2. CASE Len(K) < 2
  <2>1. ClosedByPair(cand) = << >>
    BY <1>1, <1>2 DEF ClosedByPair
  <2> QED  BY <1>1, <1>2, <2>1
<1>3. CASE Len(K) >= 2
  <2>1. PICK q \in QueriesOf(cand) : q = Query(cand, "closed", {K[1], K[2]}, PageLimit)
    <3>1. {K[1], K[2]} \in SUBSET Terms
      BY <1>3
    <3> QED  BY <3>1, QueryIsOne
  <2>2. ClosedByPair(cand) = <<q>>
    BY <1>1, <1>3, <2>1 DEF ClosedByPair
  <2>3. ClosedByPair(cand) \in Seq(QueriesOf(cand)) /\ 1 \in DOMAIN ClosedByPair(cand) /\ ClosedByPair(cand)[1] = q
    BY <2>2
  <2>4. q \in ToSet(ClosedByPair(cand))
    BY <2>3 DEF ToSet
  <2> QED  BY <1>1, <2>1, <2>3, <2>4
<1> QED  BY <1>1, <1>2, <1>3

\* All that is asked of a candidate.
LEMMA CandidateQueries ==
  ASSUME NEW cand \in CandidateRecords
  PROVE  /\ Queries(cand) \in Seq(QueriesOf(cand))
         /\ \A v, w \in ToSet(Top(cand)) : v # w => Query(cand, "open", {v, w}, PageLimit) \in ToSet(Queries(cand))
         /\ \A i \in ToSet(cand.ids) :
              /\ Query(cand, "open", {<<"ocp", i>>}, IdLimit) \in ToSet(Queries(cand))
              /\ \A w \in ToSet(Top(cand)) : Query(cand, "open", {<<"bare", i>>, w}, PageLimit) \in ToSet(Queries(cand))
         /\ Len(Keywords(cand)) >= 2 =>
              Query(cand, "closed", {Keywords(cand)[1], Keywords(cand)[2]}, PageLimit) \in ToSet(Queries(cand))
<1> DEFINE X == QueriesOf(cand)
           a == ByKeyword(cand)
           b == ByPair(cand)
           c == ById(cand)
           d == ByIdAndKeyword(cand)
           e == ClosedByPair(cand)
<1>1. a \in Seq(X) /\ b \in Seq(X) /\ c \in Seq(X) /\ d \in Seq(X) /\ e \in Seq(X)
  BY KeywordQueries, PairQueries, IdQueries, IdAndKeywordQueries, ClosedQueries
<1>2. Queries(cand) = (((a \o b) \o c) \o d) \o e
  BY DEF Queries
<1> HIDE DEF X, a, b, c, d, e
<1>3. PICK ab \in Seq(X) : ab = a \o b /\ ToSet(ab) = ToSet(a) \cup ToSet(b)
  BY <1>1, ConcatSet, ZenonT(30)
<1>4. PICK abc \in Seq(X) : abc = ab \o c /\ ToSet(abc) = ToSet(ab) \cup ToSet(c)
  BY <1>1, ConcatSet, ZenonT(30)
<1>5. PICK abcd \in Seq(X) : abcd = abc \o d /\ ToSet(abcd) = ToSet(abc) \cup ToSet(d)
  BY <1>1, ConcatSet, ZenonT(30)
<1>6. Queries(cand) \in Seq(X) /\ ToSet(Queries(cand)) = ToSet(abcd) \cup ToSet(e)
  <2>1. Queries(cand) = abcd \o e
    BY <1>2, <1>3, <1>4, <1>5
  <2> QED  BY <1>1, <2>1, ConcatSet
<1>7. ToSet(b) \cup ToSet(c) \cup ToSet(d) \cup ToSet(e) \subseteq ToSet(Queries(cand))
  BY <1>3, <1>4, <1>5, <1>6
<1> USE DEF b, c, d, e
<1>8. \A v, w \in ToSet(Top(cand)) : v # w => Query(cand, "open", {v, w}, PageLimit) \in ToSet(Queries(cand))
  BY <1>7, PairQueries
<1>9. ASSUME NEW i \in ToSet(cand.ids)
      PROVE  /\ Query(cand, "open", {<<"ocp", i>>}, IdLimit) \in ToSet(Queries(cand))
             /\ \A w \in ToSet(Top(cand)) : Query(cand, "open", {<<"bare", i>>, w}, PageLimit) \in ToSet(Queries(cand))
  BY <1>7, IdQueries, IdAndKeywordQueries
<1>10. Len(Keywords(cand)) >= 2 =>
         Query(cand, "closed", {Keywords(cand)[1], Keywords(cand)[2]}, PageLimit) \in ToSet(Queries(cand))
  BY <1>7, ClosedQueries
<1> QED  BY <1>6, <1>8, <1>9, <1>10 DEF X
\* What may be asked at all of the candidates of a set.
AnyQuery(C) == {Inventory} \cup UNION {QueriesOf(cand) : cand \in C}

\* What queries weigh when only the inventory counts.
InventoryOnly(C) == Ones(AnyQuery(C), Inventory)

LEMMA QueryWeights ==
  ASSUME NEW C
  PROVE  /\ InventoryOnly(C) \in [AnyQuery(C) -> Nat] /\ InventoryOnly(C)[Inventory] = 1
         /\ \A cand \in C : \A q \in QueriesOf(cand) : q \in AnyQuery(C) /\ q.kind # "inventory" /\ InventoryOnly(C)[q] = 0
<1>1. Inventory \in AnyQuery(C) /\ Inventory.kind = "inventory"
  BY DEF AnyQuery, Inventory, Query
<1>2. \A cand \in C : \A q \in QueriesOf(cand) : q \in AnyQuery(C) /\ q.kind # "inventory"
  BY DEF AnyQuery, QueriesOf
<1>3. \A q \in AnyQuery(C) : InventoryOnly(C)[q] = IF q = Inventory THEN 1 ELSE 0
  BY DEF InventoryOnly, Ones
<1>4. InventoryOnly(C) \in [AnyQuery(C) -> Nat]
  BY DEF InventoryOnly, Ones
<1> QED  BY <1>1, <1>2, <1>3, <1>4

\* What has no weight itself gives a list none.
LEMMA NothingWeighs ==
  ASSUME NEW X, NEW s \in Seq(X), NEW w \in [X -> Nat], \A i \in DOMAIN s : w[s[i]] = 0
  PROVE  Weight(s, w) = 0
<1>1. PICK f : f = [i \in DOMAIN s |-> w[s[i]]]
  OBVIOUS
<1>2. \A i \in DOMAIN s : f[i] = w[s[i]] /\ f[i] = 0
  BY <1>1
<1>3. IsFiniteSet(DOMAIN s) /\ Weight(s, w) = SumFunctionOnSet(f, DOMAIN s)
  BY <1>2, WeightSum
<1> QED  BY <1>2, <1>3, SumRest

\* The queries of one source, and all of them.
AskedOf(cands, more) == FlattenSeq([c \in DOMAIN cands |-> Queries(cands[c])]) \o more

LEMMA SourceQueries ==
  ASSUME NEW C, C \subseteq CandidateRecords, NEW cands \in Seq(C), NEW more \in Seq({Inventory}),
         NEW source, source = AskedOf(cands, more)
  PROVE  /\ source \in Seq(AnyQuery(C))
         /\ ToSet(more) \subseteq ToSet(source)
         /\ \A c \in DOMAIN cands : ToSet(Queries(cands[c])) \subseteq ToSet(source)
         /\ Weight(source, InventoryOnly(C)) = Weight(more, InventoryOnly(C))
<1> DEFINE seqs == [c \in 1..Len(cands) |-> Queries(cands[c])]
<1>q. PICK Q : Q = AnyQuery(C)
  OBVIOUS
<1>w. PICK w \in [Q -> Nat] : w = InventoryOnly(C) /\ \A cand \in C : \A q \in QueriesOf(cand) : w[q] = 0
  BY <1>q, QueryWeights
<1>1. \A c \in 1..Len(cands) : Queries(cands[c]) \in Seq(Q) /\ Weight(Queries(cands[c]), w) = 0
  <2>1. SUFFICES ASSUME NEW c \in 1..Len(cands)
                 PROVE  Queries(cands[c]) \in Seq(Q) /\ Weight(Queries(cands[c]), w) = 0
    OBVIOUS
  <2>2. cands[c] \in C
    OBVIOUS
  <2>3. PICK list \in Seq(QueriesOf(cands[c])) : list = Queries(cands[c])
    BY <2>2, CandidateQueries
  <2>4. QueriesOf(cands[c]) \subseteq Q
    BY <1>q, <2>2 DEF AnyQuery
  <2>5. list \in Seq(Q)
    BY <2>4
  <2>6. \A i \in DOMAIN list : w[list[i]] = 0
    <3>1. \A i \in DOMAIN list : list[i] \in QueriesOf(cands[c])
      OBVIOUS
    <3> QED  BY <1>w, <2>2, <3>1
  <2> HIDE DEF seqs
  <2> QED  BY <2>3, <2>5, <2>6, NothingWeighs
<1>2. seqs \in Seq(Seq(Q)) /\ DOMAIN seqs = 1..Len(cands) /\ DOMAIN cands = 1..Len(cands)
  BY <1>1
<1>3. \A c \in DOMAIN cands : seqs[c] = Queries(cands[c])
  BY <1>2
<1>4. source = FlattenSeq(seqs) \o more
  BY <1>2 DEF AskedOf
<1> HIDE DEF seqs
<1>5. PICK flat \in Seq(Q) : flat = FlattenSeq(seqs) /\ ToSet(flat) = UNION {ToSet(seqs[k]) : k \in DOMAIN seqs}
  <2>1. seqs \in Seq(Seq(Q))
    BY <1>2
  <2>2. FlattenSeq(seqs) \in Seq(Q) /\ ToSet(FlattenSeq(seqs)) = UNION {ToSet(seqs[k]) : k \in DOMAIN seqs}
    BY <2>1, Flattened, Zenon
  <2> QED  BY <2>2, Zenon
<1>6. more \in Seq(Q)
  BY <1>q DEF AnyQuery
<1>7. source \in Seq(Q) /\ ToSet(source) = ToSet(flat) \cup ToSet(more)
  <2>1. source = flat \o more
    BY <1>4, <1>5
  <2>2. flat \o more \in Seq(Q) /\ ToSet(flat \o more) = ToSet(flat) \cup ToSet(more)
    BY <1>6, ConcatSet
  <2> QED  BY <2>1, <2>2, Zenon
<1>8. Weight(flat, w) = 0
  <2>1. PICK W \in [Seq(Q) -> Nat] : W = Each(Q, w) /\ \A s \in Seq(Q) : W[s] = Weight(s, w)
    BY EachWeighs
  <2>2. \A k \in DOMAIN seqs : W[seqs[k]] = 0
    BY <1>1, <1>2, <1>3, <2>1
  <2>3. Weight(seqs, W) = 0
    BY <1>2, <2>2, NothingWeighs
  <2> QED  BY <1>2, <1>5, <2>1, <2>3, WeightFlatten
<1>9. Weight(source, w) = Weight(more, w)
  <2>1. Weight(flat \o more, w) = Weight(flat, w) + Weight(more, w)
    BY <1>6, WeightConcat
  <2>2. Weight(more, w) \in Nat
    BY <1>6, WeightNat
  <2>3. Weight(flat \o more, w) = Weight(more, w)
    BY <1>8, <2>1, <2>2
  <2>4. source = flat \o more
    BY <1>4, <1>5
  <2> QED  BY <2>3, <2>4, Zenon
<1> QED  BY <1>q, <1>w, <1>2, <1>3, <1>5, <1>7, <1>9

\* The inventory is asked for once.
LEMMA PlanFacts ==
  ASSUME NEW C, C \subseteq CandidateRecords, NEW search \in Seq(Seq(C)), search # << >>
  PROVE  /\ Plan(search) \in Seq(AnyQuery(C))
         /\ Inventory \in ToSet(Plan(search))
         /\ \A s \in DOMAIN search : \A c \in DOMAIN search[s] : ToSet(Queries(search[s][c])) \subseteq ToSet(Plan(search))
         /\ Weight(Plan(search), InventoryOnly(C)) = 1
<1> DEFINE more(s)   == IF s = 1 THEN <<Inventory>> ELSE << >>
           source(s) == FlattenSeq([c \in DOMAIN search[s] |-> Queries(search[s][c])]) \o more(s)
           seqs      == [s \in DOMAIN search |-> source(s)]
<1>q. PICK Q : Q = AnyQuery(C)
  OBVIOUS
<1>w. PICK w \in [Q -> Nat] : w = InventoryOnly(C) /\ w[Inventory] = 1
  BY <1>q, QueryWeights
<1>1. Plan(search) = FlattenSeq(seqs)
  BY DEF Plan
<1>2. \A s : more(s) \in Seq({Inventory}) /\ Weight(more(s), w) = IF s = 1 THEN 1 ELSE 0
  <2>1. <<Inventory>> \in Seq({Inventory}) /\ << >> \in Seq({Inventory})
    OBVIOUS
  <2>2. Inventory \in Q
    BY <1>q DEF AnyQuery
  <2>3. Weight(<<Inventory>>, w) = 1 /\ Weight(<< >>, w) = 0
    BY <1>w, <2>2, WeightSingle, WeightEmpty
  <2> QED  BY <2>1, <2>3
<1>3. Inventory \in ToSet(more(1))
  BY DEF ToSet
<1> HIDE DEF more
<1>4. ASSUME NEW s \in DOMAIN search
      PROVE  /\ source(s) \in Seq(Q) /\ ToSet(more(s)) \subseteq ToSet(source(s))
             /\ \A c \in DOMAIN search[s] : ToSet(Queries(search[s][c])) \subseteq ToSet(source(s))
             /\ Weight(source(s), w) = IF s = 1 THEN 1 ELSE 0
  <2>1. PICK cands \in Seq(C) : cands = search[s]
    OBVIOUS
  <2>2. PICK extra \in Seq({Inventory}) : extra = more(s)
    BY <1>2
  <2>3. source(s) = AskedOf(cands, extra)
    BY <2>1, <2>2 DEF AskedOf
  <2> HIDE DEF source
  <2>4. PICK queries : queries = source(s)
    OBVIOUS
  <2>5. queries = AskedOf(cands, extra)
    BY <2>3, <2>4
  <2>6. /\ queries \in Seq(AnyQuery(C)) /\ ToSet(extra) \subseteq ToSet(queries)
        /\ \A c \in DOMAIN cands : ToSet(Queries(cands[c])) \subseteq ToSet(queries)
        /\ Weight(queries, InventoryOnly(C)) = Weight(extra, InventoryOnly(C))
    BY <2>5, SourceQueries
  <2> QED  BY <1>q, <1>w, <1>2, <2>1, <2>2, <2>4, <2>6
<1>5. DOMAIN search = 1..Len(search) /\ 1 \in DOMAIN search
  OBVIOUS
<1> HIDE DEF source
<1>6. seqs \in Seq(Seq(Q)) /\ DOMAIN seqs = DOMAIN search /\ \A s \in DOMAIN search : seqs[s] = source(s)
  BY <1>4, <1>5
<1> HIDE DEF seqs
<1>7. Plan(search) \in Seq(Q) /\ ToSet(Plan(search)) = UNION {ToSet(seqs[k]) : k \in DOMAIN seqs}
  BY <1>1, <1>6, Flattened
<1>8. \A s \in DOMAIN search : ToSet(source(s)) \subseteq ToSet(Plan(search))
  BY <1>6, <1>7
<1>9. Inventory \in ToSet(Plan(search))
  BY <1>3, <1>4, <1>5, <1>8
<1>10. Weight(Plan(search), w) = 1
  <2>1. PICK W \in [Seq(Q) -> Nat] : W = Each(Q, w) /\ \A s \in Seq(Q) : W[s] = Weight(s, w)
    BY EachWeighs
  <2>2. PICK f : f = [s \in DOMAIN seqs |-> IF s = 1 THEN 1 ELSE 0]
    OBVIOUS
  <2>3. \A s \in DOMAIN seqs : f[s] = W[seqs[s]] /\ f[s] \in Int /\ (s # 1 => f[s] = 0)
    BY <1>4, <1>6, <2>1, <2>2
  <2>4. Weight(seqs, W) = SumFunctionOnSet(f, DOMAIN seqs) /\ IsFiniteSet(DOMAIN seqs)
    <3>1. seqs \in Seq(Seq(Q)) /\ \A s \in DOMAIN seqs : f[s] = W[seqs[s]]
      BY <1>6, <2>3
    <3> QED  BY <3>1, WeightSum
  <2>5. SumFunctionOnSet(f, DOMAIN seqs) = f[1] + SumFunctionOnSet(f, DOMAIN seqs \ {1})
    <3>1. 1 \in DOMAIN seqs /\ IsFiniteSet(DOMAIN seqs) /\ \A s \in DOMAIN seqs : f[s] \in Int
      BY <1>5, <1>6, <2>3, <2>4
    <3> QED  BY <3>1, SumTake, Zenon
  <2>6. SumFunctionOnSet(f, DOMAIN seqs \ {1}) = 0
    <3>1. IsFiniteSet(DOMAIN seqs \ {1})
      BY <2>4, FS_Subset
    <3> QED  BY <2>3, <3>1, SumRest
  <2>7. f[1] = 1
    BY <1>5, <1>6, <2>2
  <2> QED  BY <1>1, <1>6, <2>1, <2>4, <2>5, <2>6, <2>7, WeightFlatten
<1> QED  BY <1>q, <1>w, <1>4, <1>7, <1>8, <1>9, <1>10

(***************************************************************************)
(* The invariant of the search                                             *)
(***************************************************************************)
\* A query that was answered has recorded every bug nobody moved that matches,
\* if what may have matched fits its page; the inventory has the labelled ones.
Recorded(q) ==
  IF q.kind = "inventory" THEN \A b \in Labelled \ moved : standing[b] = "open" => b \in inventory
  ELSE FitsPage(q.terms, q.kind, q.limit) =>
         \A b \in Filed \ moved :
           standing[b] = q.kind /\ q.terms \subseteq wording[b] =>
             \A t \in q.terms : [cand |-> q.cand, kind |-> q.kind, bug |-> b, term |-> t] \in hits

SearchTypes ==
  /\ wording \in [Filed -> SUBSET Terms] /\ standing \in [Filed -> {"open", "closed"}] /\ moved \subseteq Filed
  /\ asked \in Searches
  /\ unasked \in Seq(ToSet(Plan(asked)))
  /\ outcome = "published" => unasked = << >>

\* Nothing is recorded of a bug that it was not when it was asked for.
HitsStand ==
  /\ \A h \in hits : h.kind \in {"open", "closed"} /\ (h.bug \in Filed \ moved => standing[h.bug] = h.kind)
  /\ inventory \subseteq Labelled /\ \A b \in inventory \ moved : standing[b] = "open"

QueriesRecorded == \A q \in ToSet(Plan(asked)) : q \in ToSet(unasked) \/ Recorded(q)

SearchInv == SearchTypes /\ HitsStand /\ QueriesRecorded

LEMMA SearchInit ==
  ASSUME BugSearchAssumption, InitBugSearch
  PROVE  SearchInv
<1>1. asked \in Searches /\ asked \in Seq(Seq(CandidateRecords)) /\ asked # << >>
  BY DEF InitBugSearch, BugSearchAssumption, CandidateRecords
<1>2. PICK plan \in Seq(AnyQuery(CandidateRecords)) : plan = Plan(asked)
  BY <1>1, PlanFacts
<1>3. plan \in Seq(ToSet(plan))
  BY DEF ToSet
<1>4. SearchTypes
  BY <1>1, <1>2, <1>3 DEF InitBugSearch, BugSearchAssumption, SearchTypes
<1>5. HitsStand
  BY DEF InitBugSearch, HitsStand
<1> QED  BY <1>4, <1>5 DEF InitBugSearch, SearchInv, QueriesRecorded

\* The first leaves, the others stay.
LEMMA FirstLeaves ==
  ASSUME NEW X, NEW s \in Seq(X), s # << >>
  PROVE  Head(s) \in X /\ Tail(s) \in Seq(X) /\ ToSet(s) \subseteq {Head(s)} \cup ToSet(Tail(s))
<1>1. Head(s) = s[1] /\ Len(s) \in Nat /\ Len(s) > 0 /\ DOMAIN s = 1..Len(s)
  OBVIOUS
<1>2. Tail(s) \in Seq(X) /\ Len(Tail(s)) = Len(s) - 1 /\ \A i \in 1..(Len(s) - 1) : Tail(s)[i] = s[i + 1]
  OBVIOUS
<1>3. ASSUME NEW i \in 1..Len(s), i # 1 PROVE s[i] \in ToSet(Tail(s))
  <2>1. i - 1 \in 1..(Len(s) - 1) /\ (i - 1) + 1 = i
    BY <1>1, <1>3
  <2>2. Tail(s)[i - 1] = s[i] /\ i - 1 \in DOMAIN Tail(s)
    BY <1>1, <1>2, <2>1
  <2> QED  BY <2>2 DEF ToSet
<1>4. ToSet(s) \subseteq {Head(s)} \cup ToSet(Tail(s))
  BY <1>1, <1>3 DEF ToSet
<1> QED  BY <1>1, <1>2, <1>4

LEMMA AskedFacts ==
  ASSUME BugSearchAssumption, SearchInv
  PROVE  /\ asked \in Seq(Seq(CandidateRecords)) /\ asked # << >>
         /\ \A q \in ToSet(Plan(asked)) : q = Inventory \/ \E cand \in CandidateRecords : q \in QueriesOf(cand)
<1>1. asked \in Seq(Seq(CandidateRecords)) /\ asked # << >>
  BY DEF SearchInv, SearchTypes, BugSearchAssumption, CandidateRecords
<1>2. Plan(asked) \in Seq(AnyQuery(CandidateRecords))
  BY <1>1, PlanFacts
<1>3. ToSet(Plan(asked)) \subseteq AnyQuery(CandidateRecords)
  BY <1>2, ListFinite
<1> QED  BY <1>1, <1>3 DEF AnyQuery

\* The page has all that matches if what may have matched fits it.
LEMMA PageIsAll ==
  ASSUME BugSearchAssumption, SearchInv, NEW q, q.limit \in Nat, FitsPage(q.terms, q.kind, q.limit),
         NEW shown \in Pages(Matching(q), q.limit)
  PROVE  shown = Matching(q)
<1> DEFINE M == Matching(q)
           F == {b \in Filed : q.terms \subseteq wording[b] /\ (standing[b] = q.kind \/ b \in moved)}
<1>1. M \subseteq F /\ F \subseteq Filed /\ IsFiniteSet(Filed)
  BY DEF BugSearchAssumption, Matching
<1>2. Cardinality(F) <= q.limit
  BY DEF FitsPage
<1>3. shown \in Pages(M, q.limit)
  OBVIOUS
<1> HIDE DEF M, F
<1>4. IsFiniteSet(F) /\ IsFiniteSet(M) /\ Cardinality(M) <= Cardinality(F)
  BY <1>1, FS_Subset
<1>5. Cardinality(M) \in Nat /\ Cardinality(F) \in Nat
  BY <1>4, FS_CardinalityType
<1>6. Min({q.limit, Cardinality(M)}) = Cardinality(M)
  <2>1. PICK m \in Nat : m = Cardinality(M) /\ m <= q.limit
    BY <1>2, <1>4, <1>5
  <2>2. Min({q.limit, m}) \in {q.limit, m} /\ \A y \in {q.limit, m} : Min({q.limit, m}) <= y
    <3>1. \E x \in {q.limit, m} : \A y \in {q.limit, m} : x <= y
      BY <2>1
    <3> QED  BY <3>1 DEF Min
  <2> QED  BY <2>1, <2>2
<1>7. shown \in SUBSET M /\ Cardinality(shown) = Cardinality(M)
  BY <1>3, <1>6 DEF Pages, kSubset
<1>8. shown = M
  BY <1>4, <1>7, FS_Subset
<1> QED  BY <1>8 DEF M

LEMMA AnswerKeeps ==
  ASSUME BugSearchAssumption, SearchInv, Answer
  PROVE  SearchInv'
<1>q. PICK q : q = Head(unasked)
  OBVIOUS
<1>1. PICK shown \in Pages(Matching(q), q.limit) : hits' = hits \cup PageHits(q, shown)
  BY <1>q DEF Answer
<1>2. /\ unasked # << >> /\ q.kind # "inventory" /\ unasked' = Tail(unasked) /\ outcome = "searching"
      /\ UNCHANGED <<wording, standing, moved, asked, inventory, sheets, outcome>>
  BY <1>q DEF Answer, Asking
<1>3. q \in ToSet(Plan(asked)) /\ Tail(unasked) \in Seq(ToSet(Plan(asked))) /\ ToSet(unasked) \subseteq {q} \cup ToSet(Tail(unasked))
  <2>1. unasked \in Seq(ToSet(Plan(asked)))
    BY DEF SearchInv, SearchTypes
  <2> QED  BY <1>q, <1>2, <2>1, FirstLeaves
<1>4. q.kind \in {"open", "closed"} /\ q.limit \in Nat
  <2>1. q # Inventory
    BY <1>2 DEF Inventory, Query
  <2>2. PICK cand \in CandidateRecords : q \in QueriesOf(cand)
    BY <1>3, <2>1, AskedFacts
  <2> QED  BY <2>2 DEF QueriesOf, BugSearchAssumption
<1>5. /\ shown \subseteq Matching(q)
      /\ \A h : h \in hits' <=> h \in hits \/ \E b \in shown, t \in q.terms :
           h = [cand |-> q.cand, kind |-> q.kind, bug |-> b, term |-> t]
  BY <1>1 DEF Pages, kSubset, PageHits
<1>6. SearchTypes'
  BY <1>2, <1>3 DEF SearchInv, SearchTypes
<1>7. HitsStand'
  <2>1. ASSUME NEW b \in shown, NEW t \in q.terms, NEW h, h = [cand |-> q.cand, kind |-> q.kind, bug |-> b, term |-> t]
        PROVE  h.kind \in {"open", "closed"} /\ (h.bug \in Filed \ moved => standing[h.bug] = h.kind)
    BY <1>4, <1>5, <2>1 DEF Matching
  <2>2. \A h \in hits' : h.kind \in {"open", "closed"} /\ (h.bug \in Filed \ moved => standing[h.bug] = h.kind)
    BY <1>5, <2>1 DEF SearchInv, HitsStand
  <2> QED  BY <1>2, <2>2 DEF SearchInv, HitsStand
<1>8. hits \subseteq hits'
  BY <1>1
<1>9. Recorded(q)'
  <2>1. SUFFICES ASSUME FitsPage(q.terms, q.kind, q.limit), NEW b \in Filed \ moved,
                        standing[b] = q.kind, q.terms \subseteq wording[b], NEW t \in q.terms
                 PROVE  [cand |-> q.cand, kind |-> q.kind, bug |-> b, term |-> t] \in hits'
    BY <1>2 DEF Recorded, FitsPage
  <2>2. shown = Matching(q)
    BY <1>1, <1>4, <2>1, PageIsAll
  <2>3. b \in shown
    BY <2>1, <2>2 DEF Matching
  <2> QED  BY <1>5, <2>3
<1>10. ASSUME NEW p, Recorded(p) PROVE Recorded(p)'
  BY <1>2, <1>8, <1>10 DEF Recorded, FitsPage
<1>11. QueriesRecorded'
  <2>1. SUFFICES ASSUME NEW p \in ToSet(Plan(asked)) PROVE p \in ToSet(unasked') \/ Recorded(p)'
    BY <1>2 DEF QueriesRecorded
  <2> QED  BY <1>2, <1>3, <1>9, <1>10 DEF SearchInv, QueriesRecorded
<1> QED  BY <1>6, <1>7, <1>11 DEF SearchInv
\* A page that says it is the last has all the labelled bugs that were not read.
LEMMA SheetKeeps ==
  ASSUME BugSearchAssumption, SearchInv, ReadSheet
  PROVE  SearchInv'
<1> DEFINE others == {b \in Labelled : standing[b] = "open"} \ inventory
<1>1. PICK shown \in Pages(others, PageLimit), last \in BOOLEAN :
        /\ last => shown = others
        /\ inventory' = inventory \cup shown
        /\ unasked' = IF last THEN Tail(unasked) ELSE unasked
        /\ outcome' = IF ~last /\ sheets + 1 = MaxSheets THEN "aborted" ELSE outcome
  BY DEF ReadSheet
<1>2. /\ unasked # << >> /\ Head(unasked).kind = "inventory" /\ outcome = "searching"
      /\ UNCHANGED <<wording, standing, moved, asked, hits>>
  BY DEF ReadSheet, Asking
<1>3. shown \subseteq others
  BY <1>1 DEF Pages, kSubset
<1>4. PICK q : q = Head(unasked)
  OBVIOUS
<1>5. Tail(unasked) \in Seq(ToSet(Plan(asked))) /\ ToSet(unasked) \subseteq {q} \cup ToSet(Tail(unasked))
  <2>1. unasked \in Seq(ToSet(Plan(asked)))
    BY DEF SearchInv, SearchTypes
  <2> QED  BY <1>2, <1>4, <2>1, FirstLeaves
<1>6. SearchTypes'
  BY <1>1, <1>2, <1>5 DEF SearchInv, SearchTypes
<1>7. HitsStand'
  BY <1>1, <1>2, <1>3 DEF SearchInv, HitsStand
<1>8. ASSUME NEW p, Recorded(p) PROVE Recorded(p)'
  BY <1>1, <1>2, <1>8 DEF Recorded, FitsPage
<1>9. last => Recorded(q)'
  BY <1>1, <1>2, <1>4 DEF Recorded
<1>10. QueriesRecorded'
  <2>1. SUFFICES ASSUME NEW p \in ToSet(Plan(asked)) PROVE p \in ToSet(unasked') \/ Recorded(p)'
    BY <1>2 DEF QueriesRecorded
  <2> QED  BY <1>1, <1>5, <1>8, <1>9 DEF SearchInv, QueriesRecorded
<1> QED  BY <1>6, <1>7, <1>10 DEF SearchInv

\* A bug that is moved may have matched whatever it is now.
LEMMA MoveKeeps ==
  ASSUME BugSearchAssumption, SearchInv, NEW b \in Filed, Move(b)
  PROVE  SearchInv'
<1>1. /\ standing' = [standing EXCEPT ![b] = IF @ = "open" THEN "closed" ELSE "open"]
      /\ moved' = moved \cup {b}
      /\ UNCHANGED <<wording, asked, unasked, hits, inventory, outcome>>
  BY DEF Move
<1>2. SearchTypes'
  BY <1>1 DEF SearchInv, SearchTypes
<1>3. \A c \in Filed \ moved' : c \in Filed \ moved /\ standing'[c] = standing[c]
  BY <1>1 DEF SearchInv, SearchTypes
<1>4. HitsStand'
  BY <1>1, <1>3 DEF SearchInv, HitsStand, BugSearchAssumption
<1>5. ASSUME NEW terms, NEW kind, NEW limit \in Nat, FitsPage(terms, kind, limit)' PROVE FitsPage(terms, kind, limit)
  <2> DEFINE F == {c \in Filed : terms \subseteq wording[c] /\ (standing[c] = kind \/ c \in moved)}
             G == {c \in Filed : terms \subseteq wording[c] /\ (standing'[c] = kind \/ c \in moved')}
  <2>1. F \subseteq G /\ G \subseteq Filed
    BY <1>1, <1>3
  <2>2. Cardinality(G) <= limit
    BY <1>1, <1>5 DEF FitsPage
  <2>3. IsFiniteSet(Filed)
    BY DEF BugSearchAssumption
  <2> HIDE DEF F, G
  <2>4. IsFiniteSet(G) /\ IsFiniteSet(F) /\ Cardinality(F) <= Cardinality(G)
    BY <2>1, <2>3, FS_Subset
  <2>5. Cardinality(F) \in Nat /\ Cardinality(G) \in Nat
    BY <2>4, FS_CardinalityType
  <2>6. Cardinality(F) <= limit
    BY <2>2, <2>4, <2>5
  <2> QED  BY <2>6 DEF FitsPage, F
<1>6. ASSUME NEW q \in ToSet(Plan(asked)), Recorded(q) PROVE Recorded(q)'
  <2>1. CASE q.kind = "inventory"
    BY <1>1, <1>3, <1>6, <2>1 DEF Recorded, BugSearchAssumption
  <2>2. CASE q.kind # "inventory"
    <3>1. q.limit \in Nat
      <4>1. q # Inventory
        BY <2>2 DEF Inventory, Query
      <4>2. PICK cand \in CandidateRecords : q \in QueriesOf(cand)
        BY <4>1, AskedFacts
      <4> QED  BY <4>2 DEF QueriesOf, BugSearchAssumption
    <3>2. FitsPage(q.terms, q.kind, q.limit)' => FitsPage(q.terms, q.kind, q.limit)
      BY <1>5, <3>1
    <3> QED  BY <1>1, <1>3, <1>6, <2>2, <3>2 DEF Recorded
  <2> QED  BY <2>1, <2>2
<1>7. QueriesRecorded'
  BY <1>1, <1>6 DEF SearchInv, QueriesRecorded
<1> QED  BY <1>2, <1>4, <1>7 DEF SearchInv

LEMMA SearchStepKeeps ==
  ASSUME BugSearchAssumption, SearchInv, [BugSearchStep]_bugSearchVars
  PROVE  SearchInv'
<1> DEFINE same == UNCHANGED <<wording, standing, moved, asked, unasked, hits, inventory>>
<1>1. ASSUME same, outcome' = "published" => unasked = << >> PROVE SearchInv'
  <2>1. \A q : Recorded(q)' <=> Recorded(q)
    BY <1>1 DEF Recorded, FitsPage
  <2> QED  BY <1>1, <2>1 DEF SearchInv, SearchTypes, HitsStand, QueriesRecorded
<1>2. CASE Answer
  BY <1>2, AnswerKeeps
<1>3. CASE ReadSheet
  BY <1>3, SheetKeeps
<1>4. CASE Retry
  BY <1>1, <1>4 DEF Retry, Asking
<1>5. CASE SearchFails
  BY <1>1, <1>5 DEF SearchFails
<1>6. CASE PublishMappings
  BY <1>1, <1>6 DEF PublishMappings
<1>7. ASSUME NEW b \in Filed, Move(b) PROVE SearchInv'
  BY <1>7, MoveKeeps
<1>8. CASE UNCHANGED bugSearchVars
  BY <1>1, <1>8 DEF bugSearchVars, SearchInv, SearchTypes
<1> QED  BY <1>2, <1>3, <1>4, <1>5, <1>6, <1>7, <1>8 DEF BugSearchStep

\* search-bugs.py: what was answered stays recorded while people move bugs.
THEOREM SearchInvariant == ASSUME BugSearchAssumption PROVE BugSearchSpec => []SearchInv
<1>1. InitBugSearch => SearchInv
  BY SearchInit
<1>2. SearchInv /\ [BugSearchStep]_bugSearchVars => SearchInv'
  BY SearchStepKeeps
<1> QED  BY <1>1, <1>2, PTL DEF BugSearchSpec

\* Queries for the inventory that are left.
Left == Weight(unasked, InventoryOnly(CandidateRecords))

\* Only the inventory has sheets, and it is asked for once: when the last sheet
\* there may be was read, the inventory is read or the search ends.
SearchTypesInv ==
  /\ SearchInv /\ BugSearchTypeOK
  /\ Left <= 1
  /\ outcome = "searching" /\ sheets = MaxSheets => Left = 0

\* What is left to be asked concerns the candidates, and weighs less by the first.
LEMMA FirstLeft ==
  ASSUME BugSearchAssumption, SearchInv
  PROVE  /\ Left \in Nat
         /\ \A q \in ToSet(unasked) :
              q = Inventory \/ \E cand \in Candidates : q \in QueriesOf(cand)
         /\ unasked # << >> => /\ Head(unasked) \in ToSet(unasked)
                               /\ ToSet(Tail(unasked)) \subseteq ToSet(unasked)
                               /\ Weight(Tail(unasked), InventoryOnly(CandidateRecords)) \in 0..Left
                               /\ Head(unasked) = Inventory =>
                                    Left = 1 + Weight(Tail(unasked), InventoryOnly(CandidateRecords))
<1>1. asked \in Seq(Seq(CandidateRecords)) /\ asked # << >> /\ unasked \in Seq(ToSet(Plan(asked)))
  BY AskedFacts DEF SearchInv, SearchTypes
<1>2. asked \in Seq(Seq(Candidates)) /\ Candidates \subseteq CandidateRecords
  <2>1. \A s \in DOMAIN asked : asked[s] \in Seq(CandidateRecords)
    BY <1>1
  <2>2. \A s \in DOMAIN asked : ToSet(asked[s]) \subseteq CandidateRecords
    BY <2>1, ListFinite
  <2>3. \A s \in DOMAIN asked : asked[s] \in Seq(ToSet(asked[s]))
    BY <2>1 DEF ToSet
  <2>4. \A s \in DOMAIN asked : asked[s] \in Seq(Candidates)
    <3>1. SUFFICES ASSUME NEW s \in DOMAIN asked PROVE asked[s] \in Seq(Candidates)
      OBVIOUS
    <3>2. ToSet(asked[s]) \subseteq Candidates
      BY DEF Candidates
    <3> QED  BY <2>3, <3>2
  <2>5. Len(asked) \in Nat /\ asked \in [1..Len(asked) -> Seq(Candidates)]
    BY <1>1, <2>4
  <2> QED  BY <2>2, <2>5 DEF Candidates
<1>3. ToSet(Plan(asked)) \subseteq AnyQuery(Candidates) /\ ToSet(Plan(asked)) \subseteq AnyQuery(CandidateRecords)
  <2>1. Plan(asked) \in Seq(AnyQuery(Candidates)) /\ Plan(asked) \in Seq(AnyQuery(CandidateRecords))
    BY <1>1, <1>2, PlanFacts
  <2> QED  BY <2>1, ListFinite
<1>4. PICK s \in Seq(AnyQuery(CandidateRecords)) : s = unasked
  BY <1>1, <1>3
<1>5. ToSet(unasked) \subseteq ToSet(Plan(asked))
  BY <1>1, ListFinite
<1>6. PICK w \in [AnyQuery(CandidateRecords) -> Nat] : w = InventoryOnly(CandidateRecords) /\ w[Inventory] = 1
  BY QueryWeights
<1>7. Weight(s, w) \in Nat
  BY WeightNat
<1>8. ASSUME s # << >>
      PROVE  /\ Head(s) \in ToSet(s) /\ ToSet(Tail(s)) \subseteq ToSet(s)
             /\ Weight(Tail(s), w) \in 0..Weight(s, w)
             /\ Head(s) = Inventory => Weight(s, w) = 1 + Weight(Tail(s), w)
  <2>1. PICK t \in Seq(AnyQuery(CandidateRecords)), h \in AnyQuery(CandidateRecords) : t = Tail(s) /\ h = Head(s)
    <3>1. Tail(s) \in Seq(AnyQuery(CandidateRecords)) /\ Head(s) \in AnyQuery(CandidateRecords)
      BY <1>8, FirstLeaves
    <3> QED  BY <3>1
  <2>2. s = <<h>> \o t /\ <<h>> \in Seq(AnyQuery(CandidateRecords))
    BY <1>8, <2>1
  <2>3. PICK one \in Seq(AnyQuery(CandidateRecords)) : one = <<h>>
    BY <2>2
  <2>4. s = one \o t
    BY <2>2, <2>3
  <2>5. Weight(s, w) = Weight(one, w) + Weight(t, w) /\ ToSet(s) = ToSet(one) \cup ToSet(t)
    BY <2>4, WeightConcat, ConcatSet
  <2>6. Weight(one, w) = w[h] /\ w[h] \in Nat /\ Weight(t, w) \in Nat
    BY <2>3, WeightSingle, WeightNat
  <2>7. h \in ToSet(one)
    BY <2>3 DEF ToSet
  <2> QED  BY <1>6, <2>1, <2>5, <2>6, <2>7
<1> QED  BY <1>3, <1>4, <1>5, <1>6, <1>7, <1>8 DEF Left, AnyQuery

LEMMA SearchTypesInit ==
  ASSUME BugSearchAssumption, InitBugSearch
  PROVE  SearchTypesInv
<1>1. SearchInv
  BY SearchInit
<1>2. Left = 1
  BY <1>1, AskedFacts, PlanFacts DEF Left, InitBugSearch
<1>3. \A q \in ToSet(unasked) : q.kind \in {"open", "closed", "inventory"}
  BY <1>1, FirstLeft DEF QueriesOf, Inventory, Query
<1>4. BugSearchTypeOK
  BY <1>3 DEF InitBugSearch, BugSearchTypeOK, BugSearchAssumption
<1> QED  BY <1>1, <1>2, <1>4 DEF SearchTypesInv, InitBugSearch, BugSearchAssumption

LEMMA SearchTypesStep ==
  ASSUME BugSearchAssumption, SearchTypesInv, [BugSearchStep]_bugSearchVars
  PROVE  SearchTypesInv'
<1>1. SearchInv /\ SearchInv'
  BY SearchStepKeeps DEF SearchTypesInv
<1>2. /\ wording \in [Filed -> Texts] /\ standing \in [Filed -> {"open", "closed"}] /\ moved \subseteq Filed
      /\ asked \in Searches /\ (\A q \in ToSet(unasked) : q.kind \in {"open", "closed", "inventory"})
      /\ tries \in 0..(Attempts - 1)
      /\ \A h \in hits : h.cand \in Candidates /\ h.kind \in {"open", "closed"} /\ h.bug \in Filed
      /\ inventory \subseteq Labelled /\ sheets \in 0..MaxSheets
      /\ outcome \in {"searching", "aborted", "published"}
      /\ Left <= 1 /\ (outcome = "searching" /\ sheets = MaxSheets => Left = 0)
  BY DEF SearchTypesInv, BugSearchTypeOK
<1>3. MaxSheets \in Nat \ {0} /\ Attempts \in Nat \ {0} /\ Labelled \subseteq Filed
  BY DEF BugSearchAssumption
<1>4. Left \in Nat
  BY <1>1, FirstLeft
<1>5. 0 \in 0..(Attempts - 1)
  BY <1>3
<1>6. CASE Answer
  <2>1. PICK q : q = Head(unasked)
    OBVIOUS
  <2>2. PICK shown \in Pages(Matching(q), q.limit) : hits' = hits \cup PageHits(q, shown)
    BY <1>6, <2>1 DEF Answer
  <2>3. /\ unasked # << >> /\ q.kind # "inventory" /\ unasked' = Tail(unasked) /\ tries' = 0
        /\ UNCHANGED <<wording, standing, moved, asked, inventory, sheets, outcome>>
    BY <1>6, <2>1 DEF Answer, Asking
  <2>4. PICK cand \in Candidates : q \in QueriesOf(cand)
    <3>1. q # Inventory
      BY <2>3 DEF Inventory, Query
    <3> QED  BY <1>1, <2>1, <2>3, <3>1, FirstLeft
  <2>5. \A h \in PageHits(q, shown) : h.cand \in Candidates /\ h.kind \in {"open", "closed"} /\ h.bug \in Filed
    BY <2>4 DEF PageHits, Pages, kSubset, Matching, QueriesOf
  <2>6. ToSet(unasked') \subseteq ToSet(unasked) /\ Left' <= Left /\ Left' \in Nat
    <3>1. Left' = Weight(Tail(unasked), InventoryOnly(CandidateRecords))
      BY <2>3 DEF Left
    <3>2. Left' \in Nat
      BY <1>1, <2>3, <3>1, <1>4, FirstLeft
    <3> QED  BY <1>1, <2>3, <3>1, <3>2, FirstLeft
  <2>7. Candidates' = Candidates
    BY <2>3 DEF Candidates
  <2>8. BugSearchTypeOK'
    BY <1>2, <1>5, <2>2, <2>3, <2>5, <2>6, <2>7 DEF BugSearchTypeOK
  <2> QED  BY <1>1, <1>2, <1>4, <2>3, <2>6, <2>8 DEF SearchTypesInv
<1>7. CASE ReadSheet
  <2>1. PICK shown \in Pages({b \in Labelled : standing[b] = "open"} \ inventory, PageLimit), last \in BOOLEAN :
          /\ inventory' = inventory \cup shown
          /\ unasked' = IF last THEN Tail(unasked) ELSE unasked
          /\ outcome' = IF ~last /\ sheets + 1 = MaxSheets THEN "aborted" ELSE outcome
    BY <1>7 DEF ReadSheet
  <2>2. /\ unasked # << >> /\ Head(unasked).kind = "inventory" /\ outcome = "searching"
        /\ sheets' = sheets + 1 /\ tries' = 0 /\ UNCHANGED <<wording, standing, moved, asked, hits>>
    BY <1>7 DEF ReadSheet, Asking
  <2>3. Head(unasked) = Inventory
    BY <1>1, <2>2, FirstLeft DEF QueriesOf
  <2>4. Left = 1 /\ Weight(Tail(unasked), InventoryOnly(CandidateRecords)) = 0 /\ ToSet(Tail(unasked)) \subseteq ToSet(unasked)
    <3>1. Weight(Tail(unasked), InventoryOnly(CandidateRecords)) \in Nat
      BY <1>1, <2>2, <1>4, FirstLeft
    <3> QED  BY <1>1, <1>2, <1>4, <2>2, <2>3, <3>1, FirstLeft
  <2>5. sheets < MaxSheets /\ sheets' \in 0..MaxSheets
    BY <1>2, <1>3, <2>2, <2>4
  <2>6. ToSet(unasked') \subseteq ToSet(unasked) /\ Left' = IF last THEN 0 ELSE Left
    BY <2>1, <2>4 DEF Left
  <2>7. Candidates' = Candidates /\ inventory' \subseteq Labelled
    BY <1>2, <2>1, <2>2 DEF Candidates, Pages, kSubset
  <2>8. BugSearchTypeOK'
    BY <1>2, <1>5, <2>1, <2>2, <2>5, <2>6, <2>7 DEF BugSearchTypeOK
  <2>9. outcome' = "searching" /\ sheets' = MaxSheets => last
    BY <2>1, <2>2
  <2> QED  BY <1>1, <2>4, <2>6, <2>8, <2>9 DEF SearchTypesInv
<1>8. CASE Retry
  <2>1. tries' \in 0..(Attempts - 1)
    BY <1>2, <1>3, <1>8 DEF Retry
  <2>2. UNCHANGED <<wording, standing, moved, asked, unasked, hits, inventory, sheets, outcome>>
    BY <1>8 DEF Retry
  <2> QED  BY <1>1, <1>2, <2>1, <2>2 DEF SearchTypesInv, BugSearchTypeOK, Candidates, Left
<1>9. CASE SearchFails \/ PublishMappings
  <2>1. outcome' \in {"aborted", "published"} /\ UNCHANGED <<wording, standing, moved, asked, unasked, tries, hits, inventory, sheets>>
    BY <1>9 DEF SearchFails, PublishMappings
  <2> QED  BY <1>1, <1>2, <2>1 DEF SearchTypesInv, BugSearchTypeOK, Candidates, Left
<1>10. CASE \E b \in Filed : Move(b)
  <2>1. standing' \in [Filed -> {"open", "closed"}] /\ moved' \subseteq Filed
    BY <1>2, <1>10 DEF Move
  <2>2. UNCHANGED <<wording, asked, unasked, tries, hits, inventory, sheets, outcome>>
    BY <1>10 DEF Move
  <2> QED  BY <1>1, <1>2, <2>1, <2>2 DEF SearchTypesInv, BugSearchTypeOK, Candidates, Left
<1>11. CASE UNCHANGED bugSearchVars
  BY <1>1, <1>2, <1>11 DEF bugSearchVars, SearchTypesInv, BugSearchTypeOK, Candidates, Left
<1> QED  BY <1>6, <1>7, <1>8, <1>9, <1>10, <1>11 DEF BugSearchStep

\* Types of the bug search: a request is tried so many times, the inventory has
\* so many pages, and every hit is of a candidate that was searched for.
THEOREM SearchTypeCorrect == ASSUME BugSearchAssumption PROVE BugSearchSpec => []BugSearchTypeOK
<1>1. InitBugSearch => SearchTypesInv
  BY SearchTypesInit
<1>2. SearchTypesInv /\ [BugSearchStep]_bugSearchVars => SearchTypesInv'
  BY SearchTypesStep
<1>3. SearchTypesInv => BugSearchTypeOK
  BY DEF SearchTypesInv
<1> QED  BY <1>1, <1>2, <1>3, PTL DEF BugSearchSpec

\* What was recorded of all queries makes the terms of a bug evidence.
LEMMA ToldIsEvidence ==
  ASSUME BugSearchAssumption, SearchInv, NEW cand \in CandidateRecords,
         \A q \in ToSet(Queries(cand)) : Recorded(q), NEW b \in Filed \ moved, NEW kind \in {"open", "closed"},
         standing[b] = kind, Told(cand, kind, b)
  PROVE  b \in Accepted(cand, kind)
<1> DEFINE E     == Evidence(cand, kind, b)
           words == {t \in E : t \in ToSet(Keywords(cand))}
           ids   == {t[1] : t \in E \ words}
           said  == {Keywords(cand)[k] : k \in DOMAIN Keywords(cand) \cap 1..(IF kind = "open" THEN 3 ELSE 2)}
<1>1. /\ Keywords(cand) \in Seq(Terms)
      /\ \A t \in ToSet(Keywords(cand)), i \in ToSet(cand.ids) : t # <<"bare", i>> /\ t # <<"ocp", i>>
  BY KeywordFacts
<1>2. said \subseteq ToSet(Keywords(cand))
  BY DEF ToSet
<1>3. ASSUME NEW terms, NEW limit, Query(cand, kind, terms, limit) \in ToSet(Queries(cand)),
             FitsPage(terms, kind, limit), terms \subseteq wording[b]
      PROVE  terms \subseteq E
  <2>1. PICK q : q = Query(cand, kind, terms, limit)
    OBVIOUS
  <2>2. q.cand = cand /\ q.kind = kind /\ q.terms = terms /\ q.limit = limit /\ q.kind # "inventory"
    BY <2>1 DEF Query
  <2>3. Recorded(q)
    BY <1>3, <2>1
  <2>4. \A t \in terms : [cand |-> cand, kind |-> kind, bug |-> b, term |-> t] \in hits
    BY <1>3, <2>2, <2>3 DEF Recorded
  <2>5. ASSUME NEW t \in terms PROVE t \in E
    <3>1. PICK h \in hits : h = [cand |-> cand, kind |-> kind, bug |-> b, term |-> t]
      BY <2>4
    <3> QED  BY <3>1 DEF Evidence
  <2> HIDE DEF E
  <2> QED  BY <2>5
<1>4. b \in Accepted(cand, kind) <=> "ocp" \in ids \/ Cardinality(words) >= 2 \/ ("bare" \in ids /\ words # {})
  BY DEF Accepted
<1>5. IsFiniteSet(words)
  <2>1. IsFiniteSet(ToSet(Keywords(cand)))
    BY <1>1, ListFinite
  <2>2. words \subseteq ToSet(Keywords(cand))
    OBVIOUS
  <2> HIDE DEF words
  <2> QED  BY <2>1, <2>2, FS_Subset
<1>6. CASE \E v, w \in said : v # w /\ {v, w} \subseteq wording[b] /\ FitsPage({v, w}, kind, PageLimit)
  <2>1. PICK v \in said, w \in said : v # w /\ {v, w} \subseteq wording[b] /\ FitsPage({v, w}, kind, PageLimit)
    BY <1>6
  <2>2. Query(cand, kind, {v, w}, PageLimit) \in ToSet(Queries(cand))
    <3>1. CASE kind = "open"
      <4>1. v \in ToSet(Top(cand)) /\ w \in ToSet(Top(cand))
        BY <3>1, TopFacts
      <4> QED  BY <2>1, <3>1, <4>1, CandidateQueries
    <3>2. CASE kind = "closed"
      <4>1. PICK k \in DOMAIN Keywords(cand) \cap 1..2, l \in DOMAIN Keywords(cand) \cap 1..2 :
              v = Keywords(cand)[k] /\ w = Keywords(cand)[l]
        BY <3>2
      <4>2. k # l
        BY <2>1, <4>1
      <4>3. Len(Keywords(cand)) >= 2 /\ {v, w} = {Keywords(cand)[1], Keywords(cand)[2]}
        BY <1>1, <4>1, <4>2
      <4> QED  BY <3>2, <4>3, CandidateQueries
    <3> QED  BY <3>1, <3>2
  <2>3. {v, w} \subseteq E
    BY <1>3, <2>1, <2>2
  <2>4. {v, w} \subseteq words
    BY <1>2, <2>3
  <2>5. IsFiniteSet({v, w}) /\ Cardinality({v, w}) = 2
    BY <2>1, PairSize
  <2> HIDE DEF words, ids
  <2>6. Cardinality(words) >= 2
    <3>1. Cardinality({v, w}) <= Cardinality(words) /\ Cardinality(words) \in Nat
      BY <1>5, <2>4, FS_Subset, FS_CardinalityType
    <3> QED  BY <2>5, <3>1
  <2> QED  BY <1>4, <2>6
<1>7. ASSUME kind = "open", NEW i \in ToSet(cand.ids), <<"ocp", i>> \in wording[b], FitsPage({<<"ocp", i>>}, kind, IdLimit)
      PROVE  b \in Accepted(cand, kind)
  <2>1. Query(cand, kind, {<<"ocp", i>>}, IdLimit) \in ToSet(Queries(cand))
    BY <1>7, CandidateQueries
  <2>2. <<"ocp", i>> \in E
    BY <1>3, <1>7, <2>1
  <2>3. <<"ocp", i>> \in E \ words
    BY <1>1, <2>2
  <2>4. <<"ocp", i>>[1] = "ocp"
    OBVIOUS
  <2>5. "ocp" \in ids
    BY <2>3, <2>4
  <2> QED  BY <1>4, <2>5
<1>8. ASSUME kind = "open", NEW i \in ToSet(cand.ids), NEW w \in said, {<<"bare", i>>, w} \subseteq wording[b],
             FitsPage({<<"bare", i>>, w}, kind, PageLimit)
      PROVE  b \in Accepted(cand, kind)
  <2>1. w \in ToSet(Top(cand))
    BY <1>8, TopFacts
  <2>2. Query(cand, kind, {<<"bare", i>>, w}, PageLimit) \in ToSet(Queries(cand))
    BY <1>8, <2>1, CandidateQueries
  <2>3. {<<"bare", i>>, w} \subseteq E
    BY <1>3, <1>8, <2>2
  <2>4. w \in words /\ <<"bare", i>> \in E \ words
    BY <1>1, <1>2, <2>3
  <2>5. <<"bare", i>>[1] = "bare"
    OBVIOUS
  <2>6. "bare" \in ids /\ words # {}
    BY <2>4, <2>5
  <2> QED  BY <1>4, <2>6
<1> HIDE DEF said, words, ids, E
<1> QED  BY <1>6, <1>7, <1>8 DEF Told, said

\* search-bugs.py: whatever else matches, what a bug says of a candidate in a
\* query that was not cut makes it a duplicate or a regression, never both; and
\* the inventory has the open labelled bugs.
THEOREM EvidenceNotLostHolds == ASSUME BugSearchAssumption PROVE BugSearchSpec => []EvidenceNotLost
<1>1. SearchInv => EvidenceNotLost
  <2>1. SUFFICES ASSUME SearchInv, outcome = "published", NEW b \in Filed \ moved
                 PROVE  /\ (b \in Labelled /\ standing[b] = "open") <=> b \in inventory
                        /\ \A cand \in Candidates :
                             /\ standing[b] = "open" /\ Told(cand, "open", b) => b \in Duplicates(cand)
                             /\ standing[b] = "closed" /\ Told(cand, "closed", b) => b \in Regressions(cand)
                             /\ b \notin Duplicates(cand) \cap Regressions(cand)
    BY DEF EvidenceNotLost
  <2>2. \A q \in ToSet(Plan(asked)) : Recorded(q)
    <3>1. unasked = << >>
      BY <2>1 DEF SearchInv, SearchTypes
    <3>2. ToSet(unasked) = {}
      BY <3>1 DEF ToSet
    <3> QED  BY <2>1, <3>2 DEF SearchInv, QueriesRecorded
  <2>3. asked \in Seq(Seq(CandidateRecords)) /\ asked # << >>
    BY <2>1, AskedFacts
  <2>4. (b \in Labelled /\ standing[b] = "open") <=> b \in inventory
    <3>1. Recorded(Inventory)
      BY <2>2, <2>3, PlanFacts
    <3>2. Inventory.kind = "inventory"
      BY DEF Inventory, Query
    <3> QED  BY <2>1, <3>1, <3>2 DEF Recorded, SearchInv, HitsStand
  <2>5. ASSUME NEW cand \in Candidates
        PROVE  /\ standing[b] = "open" /\ Told(cand, "open", b) => b \in Duplicates(cand)
               /\ standing[b] = "closed" /\ Told(cand, "closed", b) => b \in Regressions(cand)
               /\ b \notin Duplicates(cand) \cap Regressions(cand)
    <3>0. PICK s \in DOMAIN asked : cand \in ToSet(asked[s])
      BY DEF Candidates
    <3>1. PICK c \in DOMAIN asked[s] : cand = asked[s][c]
      BY <3>0 DEF ToSet
    <3>2. cand \in CandidateRecords
      BY <2>3, <3>1
    <3>3. \A q \in ToSet(Queries(cand)) : Recorded(q)
      BY <2>2, <2>3, <3>1, PlanFacts
    <3>4. standing[b] = "open" /\ Told(cand, "open", b) => b \in Duplicates(cand)
      BY <2>1, <3>2, <3>3, ToldIsEvidence DEF Duplicates
    <3>5. standing[b] = "closed" /\ Told(cand, "closed", b) => b \in Regressions(cand)
      BY <2>1, <3>2, <3>3, ToldIsEvidence DEF Regressions
    <3>6. ASSUME NEW kind \in {"open", "closed"}, b \in Accepted(cand, kind) PROVE standing[b] = kind
      <4>1. Evidence(cand, kind, b) # {}
        <5>1. SUFFICES ASSUME Evidence(cand, kind, b) = {} PROVE FALSE
          OBVIOUS
        <5>2. Cardinality({}) = 0
          BY FS_EmptySet
        <5>3. {t \in Evidence(cand, kind, b) : t \in ToSet(Keywords(cand))} = {}
          BY <5>1
        <5> QED  BY <3>6, <5>1, <5>2, <5>3 DEF Accepted
      <4>2. PICK h \in hits : h.kind = kind /\ h.bug = b
        BY <4>1 DEF Evidence
      <4> QED  BY <2>1, <4>2 DEF SearchInv, HitsStand
    <3>7. b \notin Duplicates(cand) \cap Regressions(cand)
      BY <3>6 DEF Duplicates, Regressions
    <3> QED  BY <3>4, <3>5, <3>7
  <2> QED  BY <2>4, <2>5
<1> QED  BY <1>1, SearchInvariant, PTL
(***************************************************************************)
(* PrNotifier                                                              *)
(***************************************************************************)
PullRows == [pull : DOMAIN Pulls, idle : Nat]

LEMMA PullNumbers ==
  ASSUME NotifierAssumption
  PROVE  PerPage \in Nat /\ PerPage > 0 /\ \A p \in DOMAIN Pulls : p \in Nat /\ Pulls[p].age \in Nat /\ Pulls[p].idle \in Nat
<1>0. PerPage \in Nat \ {0}
  BY Zenon DEF NotifierAssumption
<1>1. PerPage \in Nat /\ PerPage > 0
  BY <1>0
<1>2. \A p \in DOMAIN Pulls : p \in Nat /\ Pulls[p].age \in Nat /\ Pulls[p].idle \in Nat
  BY Zenon DEF NotifierAssumption
<1> QED  BY <1>1, <1>2, Zenon

\* sorted() drops no row.
LEMMA ArrangedRows ==
  ASSUME NotifierAssumption, NEW rows \in Seq(PullRows)
  PROVE  Range(Arranged(rows, Before)) = Range(rows)
<1> DEFINE D     == DOMAIN rows
           R     == {r \in D \X D : Before(rows[r[1]], rows[r[2]]) \/ (r[1] < r[2] /\ ~Before(rows[r[2]], rows[r[1]]))}
           a(i)  == {k \in D : Before(rows[k], rows[i]) \/ (k < i /\ ~Before(rows[i], rows[k]))}
           nth(n) == CHOOSE i \in D : Cardinality(a(i)) = n - 1
           c     == Cardinality(D)
           p     == [m \in 1..c |-> CHOOSE i \in D : Cardinality({k \in D : <<k, i>> \in R}) = m - 1]
<1>1. /\ Len(rows) \in Nat /\ D = 1..Len(rows) /\ IsFiniteSet(D) /\ Cardinality(D) = Len(rows)
      /\ \A i \in D : rows[i] \in PullRows
  <2>1. Len(rows) \in Nat /\ D = 1..Len(rows) /\ \A i \in D : rows[i] \in PullRows
    OBVIOUS
  <2>2. PICK l \in Nat : l = Len(rows)
    BY <2>1
  <2>3. IsFiniteSet(1..l) /\ Cardinality(1..l) = l
    BY FS_Interval
  <2> HIDE DEF D
  <2> QED  BY <2>1, <2>2, <2>3
<1>2. Arranged(rows, Before) = [n \in D |-> rows[nth(n)]]
  BY DEF Arranged
<1>3. \A x, y, z \in PullRows :
        /\ ~Before(x, x)
        /\ Before(x, y) => ~Before(y, x)
        /\ Before(x, y) /\ Before(y, z) => Before(x, z)
        /\ Before(x, z) => Before(x, y) \/ Before(y, z)
  BY PullNumbers DEF Before, PullRows
<1>4. \A i \in D : <<i, i>> \notin R
  BY <1>1, <1>3
<1>5. \A i, k \in D : i # k => <<i, k>> \in R \/ <<k, i>> \in R
  BY <1>1, <1>3
<1>6. \A i, k, l \in D : <<i, k>> \in R /\ <<k, l>> \in R => <<i, l>> \in R
  <2>1. SUFFICES ASSUME NEW i \in D, NEW k \in D, NEW l \in D, <<i, k>> \in R, <<k, l>> \in R PROVE <<i, l>> \in R
    OBVIOUS
  <2>2. i \in Nat /\ k \in Nat /\ l \in Nat
    BY <1>1
  <2>3. PICK x \in PullRows, y \in PullRows, z \in PullRows : x = rows[i] /\ y = rows[k] /\ z = rows[l]
    BY <1>1
  <2>4. Before(x, y) \/ (i < k /\ ~Before(y, x))
    BY <2>1, <2>3
  <2>5. Before(y, z) \/ (k < l /\ ~Before(z, y))
    BY <2>1, <2>3
  <2>6. Before(x, z) \/ (i < l /\ ~Before(z, x))
    BY <1>3, <2>2, <2>4, <2>5
  <2> QED  BY <2>3, <2>6
<1>7. \A i \in D : a(i) = {k \in D : <<k, i>> \in R}
  OBVIOUS
<1>8. /\ c \in Nat /\ p \in [1..c -> D]
      /\ \A i \in D : \E m \in 1..c : p[m] = i
      /\ \A l, m \in 1..c : l < m => <<p[l], p[m]>> \in R
      /\ \A m \in 1..c : Cardinality({k \in D : <<k, p[m]>> \in R}) = m - 1
      /\ \A i, j \in D : Cardinality({k \in D : <<k, i>> \in R}) = Cardinality({k \in D : <<k, j>> \in R}) => i = j
  <2>1. IsFiniteSet(D)
    BY <1>1
  <2> HIDE DEF D, R
  <2> QED  BY <1>4, <1>5, <1>6, <2>1, Ranking
<1> HIDE DEF p, a, R
<1>9. ASSUME NEW n \in D PROVE nth(n) = p[n]
  <2>1. p[n] \in D /\ Cardinality(a(p[n])) = n - 1
    BY <1>1, <1>7, <1>8
  <2>2. nth(n) \in D /\ Cardinality(a(nth(n))) = n - 1
    BY <2>1
  <2> HIDE DEF nth
  <2> QED  BY <1>7, <1>8, <2>1, <2>2
<1> HIDE DEF nth
<1>10. \A n \in D : Arranged(rows, Before)[n] = rows[p[n]] /\ p[n] \in D
  BY <1>1, <1>2, <1>8, <1>9
<1>11. DOMAIN Arranged(rows, Before) = D
  BY <1>2
<1>12. Range(Arranged(rows, Before)) \subseteq Range(rows)
  BY <1>10, <1>11 DEF Range
<1>13. ASSUME NEW i \in D PROVE rows[i] \in Range(Arranged(rows, Before))
  <2>1. PICK m \in D : p[m] = i
    BY <1>1, <1>8
  <2> QED  BY <1>10, <1>11, <2>1 DEF Range
<1> QED  BY <1>12, <1>13 DEF Range

\* What the dashboard lists.
LEMMA AttentionRows ==
  ASSUME NotifierAssumption, kept \in Seq(PullRows)
  PROVE  Range(Attention) = {row \in Range(kept) : NeedsAttention(row.pull, row.idle)}
<1> DEFINE S == {row \in Range(kept) : NeedsAttention(row.pull, row.idle)}
<1>1. S \subseteq Range(kept)
  OBVIOUS
<1>2. Attention = Arranged(Keeping(kept, S), Before)
  BY DEF Attention
<1> HIDE DEF S
<1>3. Keeping(kept, S) \in Seq(PullRows) /\ Range(Keeping(kept, S)) = Range(kept) \cap S
  BY Kept
<1>4. Range(Arranged(Keeping(kept, S), Before)) = Range(Keeping(kept, S))
  BY <1>3, ArrangedRows
<1> QED  BY <1>1, <1>2, <1>3, <1>4 DEF S

\* The rows of a page are those of the pull requests that match.
LEMMA PageRows ==
  ASSUME NotifierAssumption, NEW read \in Seq(DOMAIN Pulls)
  PROVE  /\ Rows(read) \in Seq(PullRows)
         /\ \A i \in DOMAIN read : Matches(read[i]) => [pull |-> read[i], idle |-> Idle(read[i])] \in Range(Rows(read))
<1> DEFINE rows == [i \in 1..Len(read) |-> [pull |-> read[i], idle |-> Idle(read[i])]]
           S    == {row \in Range(rows) : Matches(row.pull)}
<1>1. \A i \in 1..Len(read) : [pull |-> read[i], idle |-> Idle(read[i])] \in PullRows
  BY PullNumbers DEF PullRows, Idle
<1>2. rows \in Seq(PullRows) /\ DOMAIN read = 1..Len(read)
  BY <1>1
<1>3. Rows(read) = Keeping(rows, S)
  BY DEF Rows
<1>4. \A i \in DOMAIN read : [pull |-> read[i], idle |-> Idle(read[i])] \in Range(rows)
  BY <1>2 DEF Range
<1>5. \A row \in Range(rows) : Matches(row.pull) => row \in S
  OBVIOUS
<1> HIDE DEF rows, S
<1>6. Keeping(rows, S) \in Seq(PullRows) /\ Range(Keeping(rows, S)) = Range(rows) \cap S
  BY <1>2, Kept
<1> QED  BY <1>3, <1>4, <1>5, <1>6
\* A pull request was read, untouched so far, if it is for the roster.
WasRead(p) == Matches(p) => [pull |-> p, idle |-> Pulls[p].idle] \in Range(kept)

\* While nobody closes any: an update moves a pull request to the front and the
\* untouched ones before it back, so that they stay behind no page that was not
\* read.
NotifierInv ==
  /\ server \in Seq(DOMAIN Pulls) /\ page \in Nat \ {0} /\ kept \in Seq(PullRows)
  /\ doing = "pulls" => dashboard = << >>
  /\ shut = {} =>
       /\ doing = "pulls" =>
            \A i \in DOMAIN server : server[i] \notin touched /\ i <= (page - 1) * PerPage => WasRead(server[i])
       /\ doing \in {"decisions", "publish"} => \A p \in Range(server) \ touched : WasRead(p)
  /\ UntouchedListed

LEMMA NotifierStart ==
  ASSUME NotifierAssumption, InitNotifier
  PROVE  NotifierInv
<1>1. server \in Seq(DOMAIN Pulls) /\ page = 1 /\ kept = << >>
  BY Zenon DEF NotifierAssumption, InitNotifier
<1>2. PerPage \in Nat
  BY PullNumbers
<1>3. \A i \in DOMAIN server : ~(i <= (page - 1) * PerPage)
  BY <1>1, <1>2
<1>4. doing = "pulls" /\ dashboard = << >>
  BY DEF InitNotifier
<1> QED  BY <1>1, <1>3, <1>4 DEF NotifierInv, UntouchedListed

\* A page of the listing.
LEMMA PageLines ==
  ASSUME NotifierAssumption, server \in Seq(DOMAIN Pulls), NEW k \in Nat, k > 0
  PROVE  /\ PageOf(k) \in Seq(DOMAIN Pulls)
         /\ \A i \in DOMAIN server : i > (k - 1) * PerPage /\ i <= k * PerPage => server[i] \in Range(PageOf(k))
         /\ LastPage(PageOf(k)) => \A i \in DOMAIN server : i <= k * PerPage
<1>1. PICK l \in Nat : l = Len(server) /\ DOMAIN server = 1..l
  OBVIOUS
<1>2. PICK b \in Nat : b = (k - 1) * PerPage /\ k * PerPage = b + PerPage
  <2>1. PerPage \in Nat
    BY PullNumbers
  <2>2. k * PerPage = (k - 1) * PerPage + PerPage
    BY <2>1
  <2>3. (k - 1) * PerPage \in Nat
    <3>1. k - 1 \in Nat
      OBVIOUS
    <3> QED  BY <2>1, <3>1
  <2> QED  BY <2>2, <2>3
<1>3. PICK e : e = Min({k * PerPage, Len(server)})
  OBVIOUS
<1>4. e \in {b + PerPage, l} /\ e <= b + PerPage /\ e <= l
  <2>1. \E x \in {b + PerPage, l} : \A y \in {b + PerPage, l} : x <= y
    BY PullNumbers
  <2>2. e = CHOOSE x \in {b + PerPage, l} : \A y \in {b + PerPage, l} : x <= y
    BY <1>1, <1>2, <1>3 DEF Min
  <2> QED  BY <2>1, <2>2
<1>5. e \in Nat
  BY <1>4, PullNumbers
<1>6. PageOf(k) = SubSeq(server, b + 1, e)
  BY <1>2, <1>3 DEF PageOf
<1>7. e <= Len(server)
  BY <1>1, <1>4
<1>8. /\ SubSeq(server, b + 1, e) \in Seq(DOMAIN Pulls)
      /\ Len(SubSeq(server, b + 1, e)) = IF b + 1 <= e THEN e - b ELSE 0
      /\ \A i \in 1..(e - b) : SubSeq(server, b + 1, e)[i] = server[b + i]
  BY <1>5, <1>7
<1>9. PICK lines \in Seq(DOMAIN Pulls) : lines = PageOf(k)
  BY <1>6, <1>8
<1>10. /\ Len(lines) = IF b + 1 <= e THEN e - b ELSE 0
       /\ \A i \in 1..(e - b) : lines[i] = server[b + i]
  BY <1>6, <1>8, <1>9
<1>11. ASSUME NEW i \in 1..l, i > b, i <= b + PerPage PROVE server[i] \in Range(lines)
  <2>1. i <= e
    BY <1>4, <1>11
  <2>2. i - b \in 1..(e - b) /\ b + (i - b) = i /\ i - b \in 1..Len(lines)
    BY <1>5, <1>10, <1>11, <2>1
  <2>3. lines[i - b] = server[i] /\ i - b \in DOMAIN lines
    BY <1>10, <2>2
  <2> QED  BY <2>3 DEF Range
<1>12. ASSUME Len(lines) < PerPage, NEW i \in 1..l PROVE i <= b + PerPage
  <2>1. PICK pp \in Nat : pp = PerPage
    BY PullNumbers
  <2>2. CASE b + 1 <= e
    <3>1. e < b + pp
      BY <1>5, <1>10, <1>12, <2>1, <2>2
    <3> QED  BY <1>4, <1>5, <2>1, <3>1
  <2>3. CASE ~(b + 1 <= e)
    <3>1. e <= b /\ pp > 0
      BY <1>5, <2>1, <2>3, PullNumbers
    <3> QED  BY <1>4, <1>5, <2>1, <3>1
  <2> QED  BY <2>2, <2>3
<1> QED  BY <1>1, <1>2, <1>9, <1>11, <1>12 DEF LastPage

\* More is kept, no less.
LEMMA KeptStays ==
  ASSUME kept \in Seq(PullRows), NEW more \in Seq(PullRows), kept' = kept \o more
  PROVE  kept' \in Seq(PullRows) /\ Range(kept) \subseteq Range(kept') /\ Range(more) \subseteq Range(kept')
<1>1. PICK a \in Seq(PullRows) : a = kept
  OBVIOUS
<1>2. a \o more \in Seq(PullRows) /\ ToSet(a \o more) = ToSet(a) \cup ToSet(more)
  BY ConcatSet
<1>3. ToSet(a) = Range(a) /\ ToSet(more) = Range(more) /\ ToSet(a \o more) = Range(a \o more)
  BY DEF ToSet, Range
<1>4. kept' = a \o more
  BY <1>1
<1> QED  BY <1>1, <1>2, <1>3, <1>4

LEMMA ReadPageKeeps ==
  ASSUME NotifierAssumption, NotifierInv, ReadPage, Roster # {}
  PROVE  NotifierInv'
<1>1. /\ doing = "pulls" /\ kept' = kept \o Rows(PageOf(page))
      /\ UNCHANGED <<server, touched, shut, dashboard>>
      /\ \/ /\ LastPage(PageOf(page)) /\ doing' \in {"decisions", "publish"} /\ page' = page
         \/ ~LastPage(PageOf(page)) /\ page' = page + 1 /\ doing' = doing
  BY DEF ReadPage
<1>2. server \in Seq(DOMAIN Pulls) /\ page \in Nat /\ page > 0 /\ kept \in Seq(PullRows) /\ dashboard = << >>
  BY <1>1 DEF NotifierInv
<1>3. PICK lines \in Seq(DOMAIN Pulls) : lines = PageOf(page)
  BY <1>2, PageLines
<1>4. PICK rows \in Seq(PullRows) : rows = Rows(lines)
  BY PageRows
<1>5. kept' \in Seq(PullRows) /\ Range(kept) \subseteq Range(kept') /\ Range(rows) \subseteq Range(kept')
  BY <1>1, <1>2, <1>3, <1>4, KeptStays
<1>6. ASSUME NEW i \in DOMAIN server, server[i] \notin touched, i <= page * PerPage, shut = {}
      PROVE  WasRead(server[i])'
  <2>1. CASE i <= (page - 1) * PerPage
    <3>1. WasRead(server[i])
      BY <1>1, <1>6, <2>1 DEF NotifierInv
    <3> QED  BY <1>1, <1>5, <3>1 DEF WasRead
  <2>2. CASE i > (page - 1) * PerPage
    <3>1. PICK k \in DOMAIN lines : lines[k] = server[i]
      BY <1>2, <1>3, <1>6, <2>2, PageLines DEF Range
    <3>2. Matches(server[i]) => [pull |-> server[i], idle |-> Idle(server[i])] \in Range(rows)
      BY <1>4, <3>1, PageRows
    <3>3. Idle(server[i]) = Pulls[server[i]].idle
      BY <1>6 DEF Idle
    <3> QED  BY <1>1, <1>5, <3>2, <3>3 DEF WasRead
  <2>3. (page - 1) * PerPage \in Int /\ i \in Int
    BY <1>2, PullNumbers
  <2> QED  BY <2>1, <2>2, <2>3
<1>7. UntouchedListed'
  BY <1>1, <1>2 DEF UntouchedListed
<1>8. CASE LastPage(PageOf(page)) /\ doing' \in {"decisions", "publish"} /\ page' = page
  <2>1. \A i \in DOMAIN server : i <= page * PerPage
    BY <1>2, <1>8, PageLines
  <2>2. ASSUME shut' = {}, NEW p \in Range(server') \ touched' PROVE WasRead(p)'
    <3>1. PICK i \in DOMAIN server : server[i] = p
      BY <1>1, <2>2 DEF Range
    <3>2. p = server'[i]
      BY <1>1, <3>1
    <3> QED  BY <1>1, <1>6, <2>1, <2>2, <3>1, <3>2 DEF WasRead
  <2> QED  BY <1>1, <1>2, <1>5, <1>7, <1>8, <2>2 DEF NotifierInv
<1>9. CASE page' = page + 1 /\ doing' = doing
  <2>1. page' - 1 = page /\ page' \in Nat \ {0}
    BY <1>2, <1>9
  <2>2. ASSUME shut' = {}, NEW i \in DOMAIN server', server'[i] \notin touched', i <= (page' - 1) * PerPage
        PROVE  WasRead(server[i])'
    BY <1>1, <1>6, <2>1, <2>2
  <2> QED  BY <1>1, <1>2, <1>5, <1>7, <1>9, <2>1, <2>2 DEF NotifierInv
<1> QED  BY <1>1, <1>8, <1>9
\* Taken out of a list: what comes behind moves up by one.
LEMMA Removed ==
  ASSUME NEW X, NEW s \in Seq(X), NEW i \in DOMAIN s
  PROVE  /\ RemoveAt(s, i) \in Seq(X) /\ Len(RemoveAt(s, i)) = Len(s) - 1
         /\ \A j \in 1..(Len(s) - 1) : RemoveAt(s, i)[j] = IF j < i THEN s[j] ELSE s[j + 1]
<1>1. Len(s) \in Nat /\ i \in 1..Len(s) /\ DOMAIN s = 1..Len(s)
  OBVIOUS
<1>2. PICK a \in Seq(X) : a = SubSeq(s, 1, i - 1) /\ Len(a) = i - 1 /\ \A j \in 1..(i - 1) : a[j] = s[j]
  <2>1. i - 1 \in Nat /\ i - 1 <= Len(s)
    BY <1>1
  <2>2. SubSeq(s, 1, i - 1) \in Seq(X)
    BY <2>1
  <2>3. Len(SubSeq(s, 1, i - 1)) = i - 1
    BY <2>1
  <2>4. \A j \in 1..(i - 1) : SubSeq(s, 1, i - 1)[j] = s[j]
    BY <2>1
  <2> QED  BY <2>2, <2>3, <2>4
<1>3. PICK b \in Seq(X) : b = SubSeq(s, i + 1, Len(s)) /\ Len(b) = Len(s) - i /\ \A j \in 1..(Len(s) - i) : b[j] = s[i + j]
  <2>1. PICK l \in Nat : l = Len(s) /\ i \in 1..l
    BY <1>1
  <2>2. SubSeq(s, i + 1, l) \in Seq(X)
    BY <2>1
  <2>3. Len(SubSeq(s, i + 1, l)) = l - i
    BY <2>1
  <2>4. \A j \in 1..(l - i) : SubSeq(s, i + 1, l)[j] = s[i + j]
    BY <2>1
  <2> QED  BY <2>1, <2>2, <2>3, <2>4
<1>4. RemoveAt(s, i) = a \o b
  BY <1>2, <1>3 DEF RemoveAt
<1>9. PICK l \in Nat : l = Len(s) /\ i \in 1..l
  BY <1>1
<1>10. Len(a) = i - 1 /\ Len(b) = l - i
  BY <1>2, <1>3, <1>9
<1>11. /\ a \o b \in Seq(X) /\ Len(a \o b) = l - 1
       /\ \A j \in 1..(i - 1) : (a \o b)[j] = a[j]
       /\ \A j \in i..(l - 1) : (a \o b)[j] = b[j - (i - 1)]
  <2>1. a \o b \in Seq(X) /\ Len(a \o b) = Len(a) + Len(b)
    OBVIOUS
  <2>2. \A j \in 1..Len(a) : (a \o b)[j] = a[j]
    OBVIOUS
  <2>3. \A j \in 1..Len(b) : (a \o b)[Len(a) + j] = b[j]
    OBVIOUS
  <2>4. ASSUME NEW j \in i..(l - 1) PROVE (a \o b)[j] = b[j - (i - 1)]
    <3>0. i \in Nat /\ j \in Nat /\ i <= j /\ j <= l - 1 /\ i >= 1
      BY <1>9, <2>4
    <3>1. j - (i - 1) \in 1..Len(b) /\ Len(a) + (j - (i - 1)) = j
      <4>1. j - (i - 1) \in 1..(l - i) /\ (i - 1) + (j - (i - 1)) = j
        BY <3>0
      <4> QED  BY <1>10, <4>1
    <3>2. (a \o b)[Len(a) + (j - (i - 1))] = b[j - (i - 1)]
      BY <2>3, <3>1
    <3> QED  BY <3>1, <3>2
  <2>5. Len(a) + Len(b) = l - 1
    <3>1. (i - 1) + (l - i) = l - 1
      <4>1. i \in Int
        BY <1>9
      <4> QED  BY <4>1
    <3> QED  BY <1>10, <3>1
  <2>6. \A j \in 1..(i - 1) : (a \o b)[j] = a[j]
    BY <1>10, <2>2
  <2> QED  BY <2>1, <2>4, <2>5, <2>6
<1>12. PICK r \in Seq(X) : r = a \o b
  BY <1>11
<1>13. Len(r) = l - 1 /\ \A j \in 1..(l - 1) : r[j] = IF j < i THEN s[j] ELSE s[j + 1]
  <2>1. ASSUME NEW j \in 1..(l - 1), j < i PROVE r[j] = s[j]
    BY <1>2, <1>9, <1>11, <1>12, <2>1
  <2>2. ASSUME NEW j \in 1..(l - 1), ~(j < i) PROVE r[j] = s[j + 1]
    <3>1. j - (i - 1) \in 1..(l - i) /\ i + (j - (i - 1)) = j + 1 /\ j \in i..(l - 1)
      BY <1>9, <2>2
    <3>2. r[j] = b[j - (i - 1)]
      BY <1>11, <1>12, <3>1
    <3>3. b[j - (i - 1)] = s[i + (j - (i - 1))]
      BY <1>3, <1>9, <3>1
    <3> QED  BY <3>1, <3>2, <3>3
  <2> QED  BY <1>11, <1>12, <2>1, <2>2
<1> QED  BY <1>4, <1>9, <1>11, <1>12, <1>13

\* Moved to the front: the others stay where they are or go back by one.
Moved(t, s, i) ==
  /\ t = <<s[i]>> \o RemoveAt(s, i) /\ DOMAIN t = DOMAIN s
  /\ t[1] = s[i] /\ \A j \in DOMAIN s : j # 1 => (j <= i => t[j] = s[j - 1]) /\ (j > i => t[j] = s[j])

LEMMA MovedToFront ==
  ASSUME NEW X, NEW s \in Seq(X), NEW i \in DOMAIN s
  PROVE  \E t \in Seq(X) : Moved(t, s, i)
<1>1. PICK l \in Nat : l = Len(s) /\ i \in 1..l /\ DOMAIN s = 1..l
  OBVIOUS
<1>2. PICK r \in Seq(X) :
        r = RemoveAt(s, i) /\ Len(r) = l - 1 /\ \A j \in 1..(l - 1) : r[j] = IF j < i THEN s[j] ELSE s[j + 1]
  BY <1>1, Removed
<1>3. PICK h \in Seq(X) : h = <<s[i]>> /\ Len(h) = 1 /\ h[1] = s[i]
  <2>1. <<s[i]>> \in Seq(X) /\ Len(<<s[i]>>) = 1 /\ <<s[i]>>[1] = s[i]
    OBVIOUS
  <2> QED  BY <2>1
<1>4. /\ h \o r \in Seq(X) /\ Len(h \o r) = l /\ (h \o r)[1] = s[i]
      /\ \A j \in 2..l : (h \o r)[j] = r[j - 1]
  <2>1. h \o r \in Seq(X) /\ Len(h \o r) = Len(h) + Len(r)
    OBVIOUS
  <2>2. \A j \in 1..Len(h) : (h \o r)[j] = h[j]
    OBVIOUS
  <2>3. \A j \in 1..Len(r) : (h \o r)[Len(h) + j] = r[j]
    OBVIOUS
  <2>4. ASSUME NEW j \in 2..l PROVE (h \o r)[j] = r[j - 1]
    <3>1. j - 1 \in 1..Len(r) /\ Len(h) + (j - 1) = j
      BY <1>1, <1>2, <1>3
    <3>2. (h \o r)[Len(h) + (j - 1)] = r[j - 1]
      BY <2>3, <3>1
    <3> QED  BY <3>1, <3>2
  <2>5. 1 \in 1..Len(h) /\ Len(h) + Len(r) = l
    BY <1>1, <1>2, <1>3
  <2> QED  BY <1>3, <2>1, <2>2, <2>4, <2>5
<1>5. PICK t \in Seq(X) : t = h \o r
  BY <1>4
<1>6. DOMAIN t = 1..l /\ t[1] = s[i] /\ \A j \in 2..l : t[j] = r[j - 1]
  <2>1. Len(t) = l /\ t[1] = s[i] /\ \A j \in 2..l : t[j] = r[j - 1]
    BY <1>4, <1>5
  <2> QED  BY <2>1
<1>7. ASSUME NEW j \in 1..l, j # 1 PROVE (j <= i => t[j] = s[j - 1]) /\ (j > i => t[j] = s[j])
  <2>1. PICK k \in Nat : k = i /\ k <= l
    BY <1>1
  <2>2. j \in 2..l /\ j - 1 \in 1..(l - 1) /\ (j - 1) + 1 = j
    BY <1>7
  <2>3. t[j] = IF j - 1 < i THEN s[j - 1] ELSE s[(j - 1) + 1]
    BY <1>2, <1>6, <2>2
  <2>4. (j <= k => j - 1 < k) /\ (j > k => ~(j - 1 < k))
    BY <1>7, <2>1
  <2> QED  BY <2>1, <2>2, <2>3, <2>4
<1>8. t = <<s[i]>> \o RemoveAt(s, i)
  BY <1>2, <1>3, <1>5
<1> QED  BY <1>1, <1>6, <1>7, <1>8 DEF Moved

\* Neither shows anything twice.
LEMMA StillOnce ==
  ASSUME NEW X, NEW s \in Seq(X), IsInjective(s), NEW i \in DOMAIN s
  PROVE  /\ IsInjective(RemoveAt(s, i)) /\ Range(RemoveAt(s, i)) \subseteq Range(s) \ {s[i]}
         /\ IsInjective(<<s[i]>> \o RemoveAt(s, i)) /\ Range(<<s[i]>> \o RemoveAt(s, i)) \subseteq Range(s)
<1>1. PICK l \in Nat : l = Len(s) /\ i \in 1..l /\ DOMAIN s = 1..l
  OBVIOUS
<1>2. \A j, k \in 1..l : s[j] = s[k] => j = k
  BY <1>1 DEF IsInjective
<1>3. PICK r \in Seq(X) :
        r = RemoveAt(s, i) /\ Len(r) = l - 1 /\ \A j \in 1..(l - 1) : r[j] = IF j < i THEN s[j] ELSE s[j + 1]
  BY <1>1, Removed
<1>4. DOMAIN r = 1..(l - 1)
  BY <1>3
<1>5. ASSUME NEW j \in 1..(l - 1)
      PROVE  \E k \in 1..l \ {i} : r[j] = s[k] /\ k = IF j < i THEN j ELSE j + 1
  <2>1. CASE j < i
    <3>1. j \in 1..l \ {i}
      BY <1>1, <2>1
    <3> QED  BY <1>3, <2>1, <3>1
  <2>2. CASE ~(j < i)
    <3>1. j + 1 \in 1..l \ {i}
      BY <1>1, <2>2
    <3> QED  BY <1>3, <2>2, <3>1
  <2> QED  BY <2>1, <2>2
<1>6. ASSUME NEW j \in 1..(l - 1), NEW k \in 1..(l - 1), r[j] = r[k] PROVE j = k
  <2>1. PICK m \in 1..l \ {i} : r[j] = s[m] /\ m = IF j < i THEN j ELSE j + 1
    BY <1>5
  <2>2. PICK n \in 1..l \ {i} : r[k] = s[n] /\ n = IF k < i THEN k ELSE k + 1
    BY <1>5
  <2>3. m = n
    BY <1>2, <1>6, <2>1, <2>2
  <2>4. j \in Nat /\ k \in Nat /\ i \in Nat
    BY <1>1
  <2> QED  BY <2>1, <2>2, <2>3, <2>4
<1>7. ASSUME NEW j \in 1..(l - 1) PROVE r[j] \in Range(s) \ {s[i]}
  <2>1. PICK k \in 1..l \ {i} : r[j] = s[k]
    BY <1>5
  <2> QED  BY <1>1, <1>2, <2>1 DEF Range
<1>8. IsInjective(r) /\ Range(r) \subseteq Range(s) \ {s[i]}
  BY <1>4, <1>6, <1>7 DEF IsInjective, Range
<1>9. PICK t \in Seq(X) :
        /\ t = <<s[i]>> \o RemoveAt(s, i) /\ DOMAIN t = DOMAIN s
        /\ t[1] = s[i] /\ \A j \in DOMAIN s : j # 1 => (j <= i => t[j] = s[j - 1]) /\ (j > i => t[j] = s[j])
  <2>1. PICK t \in Seq(X) : Moved(t, s, i)
    BY MovedToFront, Zenon
  <2> QED  BY <2>1, Zenon DEF Moved
<1>10. ASSUME NEW j \in 1..l
       PROVE  \E k \in 1..l : t[j] = s[k] /\ k = IF j = 1 THEN i ELSE IF j <= i THEN j - 1 ELSE j
  <2>1. CASE j = 1
    BY <1>1, <1>9, <2>1
  <2>2. CASE j # 1 /\ j <= i
    <3>1. j - 1 \in 1..l
      BY <1>1, <2>2
    <3> QED  BY <1>1, <1>9, <2>2, <3>1
  <2>3. CASE j # 1 /\ j > i
    <3>1. ~(j <= i)
      BY <1>1, <2>3
    <3> QED  BY <1>1, <1>9, <2>3, <3>1
  <2>4. j <= i \/ j > i
    BY <1>1
  <2> QED  BY <2>1, <2>2, <2>3, <2>4
<1>11. ASSUME NEW j \in 1..l, NEW k \in 1..l, t[j] = t[k] PROVE j = k
  <2>1. PICK m \in 1..l : t[j] = s[m] /\ m = IF j = 1 THEN i ELSE IF j <= i THEN j - 1 ELSE j
    BY <1>10
  <2>2. PICK n \in 1..l : t[k] = s[n] /\ n = IF k = 1 THEN i ELSE IF k <= i THEN k - 1 ELSE k
    BY <1>10
  <2>3. m = n
    BY <1>2, <1>11, <2>1, <2>2
  <2>4. j \in Nat /\ k \in Nat /\ i \in Nat
    BY <1>1
  <2> QED  BY <2>1, <2>2, <2>3, <2>4
<1>12. Range(t) \subseteq Range(s)
  <2>1. ASSUME NEW j \in DOMAIN t PROVE t[j] \in Range(s)
    <3>1. j \in 1..l
      BY <1>1, <1>9, <2>1
    <3>2. PICK k \in DOMAIN s : t[j] = s[k]
      BY <1>1, <1>10, <3>1
    <3> QED  BY <3>2 DEF Range
  <2> QED  BY <2>1 DEF Range
<1>13. IsInjective(t)
  <2>1. DOMAIN t = 1..l
    BY <1>1, <1>9
  <2> QED  BY <1>11, <2>1 DEF IsInjective
<1> QED  BY <1>3, <1>8, <1>9, <1>12, <1>13

LEMMA UpdateKeeps ==
  ASSUME NotifierAssumption, NotifierInv, NEW i \in DOMAIN server, Update(i), doing = "pulls"
  PROVE  NotifierInv'
<1>1. /\ server \in Seq(DOMAIN Pulls) /\ page \in Nat /\ page > 0 /\ dashboard = << >>
      /\ UNCHANGED <<shut, doing, page, kept, dashboard>>
      /\ touched' = touched \cup {server[i]} /\ server' = <<server[i]>> \o RemoveAt(server, i)
  BY DEF NotifierInv, Update
<1>2. /\ server' \in Seq(DOMAIN Pulls)
      /\ \A j \in DOMAIN server' :
           \/ server'[j] = server[i]
           \/ j \in DOMAIN server /\ server'[j] = server[j]
           \/ j - 1 \in DOMAIN server /\ server'[j] = server[j - 1]
  <2>1. PICK s \in Seq(DOMAIN Pulls) : s = server
    BY <1>1
  <2>2. i \in DOMAIN s
    BY <2>1
  <2>3. PICK t \in Seq(DOMAIN Pulls) :
          /\ t = <<s[i]>> \o RemoveAt(s, i) /\ DOMAIN t = DOMAIN s
          /\ t[1] = s[i] /\ \A j \in DOMAIN s : j # 1 => (j <= i => t[j] = s[j - 1]) /\ (j > i => t[j] = s[j])
    <3>1. PICK t \in Seq(DOMAIN Pulls) : Moved(t, s, i)
      BY <2>2, MovedToFront, Zenon
    <3> QED  BY <3>1, Zenon DEF Moved
  <2>4. t = server'
    BY <1>1, <2>1, <2>3
  <2>5. ASSUME NEW j \in DOMAIN s, j # 1 PROVE j - 1 \in DOMAIN s /\ (j <= i \/ j > i)
    BY <2>2, <2>5
  <2> QED  BY <2>1, <2>3, <2>4, <2>5
<1>3. ASSUME shut' = {}, NEW j \in DOMAIN server', server'[j] \notin touched', j <= (page' - 1) * PerPage
      PROVE  WasRead(server'[j])
  <2>1. (page - 1) * PerPage \in Int /\ j \in Nat
    <3>1. page - 1 \in Int /\ PerPage \in Int
      BY <1>1, PullNumbers
    <3> QED  BY <1>2, <3>1
  <2>2. PICK k \in DOMAIN server : server'[j] = server[k] /\ k <= j
    <3>1. server'[j] # server[i]
      BY <1>1, <1>3
    <3>2. \E k \in {j, j - 1} : k \in DOMAIN server /\ server'[j] = server[k]
      BY <1>2, <3>1
    <3> QED  BY <2>1, <3>2
  <2>3. k <= (page - 1) * PerPage
    <3>1. k \in Nat
      BY <1>1
    <3> QED  BY <1>1, <1>3, <2>1, <2>2, <3>1
  <2> QED  BY <1>1, <1>3, <2>2, <2>3 DEF NotifierInv
<1>4. ASSUME NEW p, WasRead(p) PROVE WasRead(p)'
  BY <1>1, <1>4 DEF WasRead
<1>5. UntouchedListed'
  BY <1>1 DEF UntouchedListed
<1>6. ASSUME shut' = {}, NEW j \in DOMAIN server', server'[j] \notin touched', j <= (page' - 1) * PerPage
      PROVE  WasRead(server[j])'
  <2>1. WasRead(server'[j])
    BY <1>3, <1>6
  <2> QED  BY <1>1, <2>1 DEF WasRead
<1> QED  BY <1>1, <1>2, <1>5, <1>6 DEF NotifierInv

LEMMA CloseKeeps ==
  ASSUME NotifierInv, NEW i \in DOMAIN server, Close(i), doing = "pulls"
  PROVE  NotifierInv'
<1>1. /\ server \in Seq(DOMAIN Pulls) /\ shut' # {} /\ server' = RemoveAt(server, i)
      /\ UNCHANGED <<touched, doing, page, kept, dashboard>>
  BY DEF NotifierInv, Close
<1>2. server' \in Seq(DOMAIN Pulls)
  BY <1>1, Removed
<1>3. UntouchedListed'
  BY <1>1 DEF UntouchedListed
<1> QED  BY <1>1, <1>2, <1>3 DEF NotifierInv

\* What was read of the pull requests nobody touched is what the page lists.
LEMMA WriteDashboardKeeps ==
  ASSUME NotifierAssumption, NotifierInv, WriteDashboard
  PROVE  NotifierInv'
<1>1. /\ doing \in {"decisions", "publish"} /\ doing' = "post" /\ dashboard' = <<PageContents>>
      /\ UNCHANGED <<server, touched, shut, page, kept>>
  BY DEF WriteDashboard
<1>2. ASSUME shut' = {}, NEW p \in Range(server') \ touched', Matches(p), NeedsAttention(p, Pulls[p].idle)
      PROVE  \E i \in DOMAIN Attention : Attention[i].pull = p
  <2>1. WasRead(p)
    BY <1>1, <1>2 DEF NotifierInv
  <2>2. PICK row \in Range(kept) : row = [pull |-> p, idle |-> Pulls[p].idle]
    BY <1>2, <2>1 DEF WasRead
  <2>3. row.pull = p /\ NeedsAttention(row.pull, row.idle)
    BY <1>2, <2>2
  <2>4. row \in Range(Attention)
    BY <2>3, AttentionRows DEF NotifierInv
  <2> QED  BY <2>3, <2>4 DEF Range
<1>3. dashboard'[1].rows = Attention
  BY <1>1 DEF PageContents
<1>4. UntouchedListed'
  <2>1. SUFFICES ASSUME shut' = {}, NEW p \in Range(server') \ touched', Matches(p), NeedsAttention(p, Pulls[p].idle)
                 PROVE  \E i \in DOMAIN dashboard'[1].rows : dashboard'[1].rows[i].pull = p
    BY DEF UntouchedListed
  <2> QED  BY <1>2, <1>3, <2>1
<1> QED  BY <1>1, <1>4 DEF NotifierInv

LEMMA NotifierStepKeeps ==
  ASSUME NotifierAssumption, NotifierInv, [NotifierStep]_notifierVars
  PROVE  NotifierInv'
<1>1. ASSUME UNCHANGED <<server, touched, shut, page, kept, dashboard>>,
             doing' = "pulls" => doing = "pulls", doing' \in {"decisions", "publish"} => doing' = doing
      PROVE  NotifierInv'
  BY <1>1 DEF NotifierInv, UntouchedListed, WasRead
<1>2. CASE ReadPage
  <2>1. CASE Roster = {}
    BY <1>1, <1>2, <2>1 DEF ReadPage
  <2>2. CASE Roster # {}
    BY <1>2, <2>2, ReadPageKeeps
  <2> QED  BY <2>1, <2>2
<1>3. CASE PullsFail
  BY <1>1, <1>3 DEF PullsFail
<1>4. CASE WriteDashboard
  BY <1>4, WriteDashboardKeeps
<1>5. ASSUME NEW answer \in {"read", "HTTP error", "no network"}, ReadDecision(answer) PROVE NotifierInv'
  <2>1. /\ UNCHANGED <<server, touched, shut, page, kept, dashboard>> /\ doing = "decisions"
        /\ doing' \in {"failed", doing}
    BY <1>5 DEF ReadDecision
  <2> QED  BY <1>1, <2>1
<1>6. ASSUME NEW verbose \in BOOLEAN, NEW taken \in BOOLEAN, Post(verbose, taken) PROVE NotifierInv'
  BY <1>1, <1>6 DEF Post
<1>7. ASSUME NEW i \in DOMAIN server, doing = "pulls", Update(i) \/ Close(i) PROVE NotifierInv'
  BY <1>7, UpdateKeeps, CloseKeeps
<1>8. CASE UNCHANGED notifierVars
  BY <1>1, <1>8 DEF notifierVars
<1> QED  BY <1>2, <1>3, <1>4, <1>5, <1>6, <1>7, <1>8 DEF NotifierStep

\* gh-notifier.py: pages shift under the reader, and yet the dashboard lists
\* every pull request that needs attention, nobody touched and none closed.
THEOREM UntouchedListedHolds == ASSUME NotifierAssumption PROVE NotifierSpec => []UntouchedListed
<1>1. InitNotifier => NotifierInv
  BY NotifierStart
<1>2. NotifierInv /\ [NotifierStep]_notifierVars => NotifierInv'
  BY NotifierStepKeeps
<1>3. NotifierInv => UntouchedListed
  BY DEF NotifierInv
<1> QED  BY <1>1, <1>2, <1>3, PTL DEF NotifierSpec

LEMMA NoElements == ASSUME NEW X PROVE << >> \in Seq(X)
OBVIOUS

\* Decision files are read from the list of those there are.
NotifierTypes == NotifierInv /\ NotifierTypeOK /\ unread \in Seq(DOMAIN Decisions)

LEMMA FilesListed ==
  ASSUME NotifierAssumption, NEW mainAnswers \in BOOLEAN
  PROVE  DecisionFiles(mainAnswers) \in Seq(DOMAIN Decisions)
<1>1. PICK files \in Seq(DOMAIN Decisions) : files = SetToSeq(DOMAIN Decisions)
  BY Listing DEF NotifierAssumption
<1>2. \A where : FilesOf(where) \in Seq(DOMAIN Decisions)
  BY <1>1, Kept DEF FilesOf
<1>3. PICK main \in Seq(DOMAIN Decisions), pulls \in Seq(DOMAIN Decisions) :
        main = FilesOf("main") /\ pulls = FilesOf("pull request")
  BY <1>2
<1>4. main \o pulls \in Seq(DOMAIN Decisions) /\ << >> \o pulls = pulls
  OBVIOUS
<1> QED  BY <1>3, <1>4 DEF DecisionFiles

LEMMA NotifierTypesStep ==
  ASSUME NotifierAssumption, NotifierTypes, [NotifierStep]_notifierVars
  PROVE  NotifierTypes'
<1>1. NotifierInv /\ NotifierInv'
  BY NotifierStepKeeps DEF NotifierTypes
<1>2. /\ server \in Seq(DOMAIN Pulls) /\ Range(server) \subseteq DOMAIN Pulls /\ IsInjective(server)
      /\ shut \cap Range(server) = {}
      /\ DOMAIN pending \subseteq {d[2] : d \in DOMAIN Decisions}
      /\ doing \in {"pulls", "decisions", "publish", "post", "done", "failed"}
      /\ unread \in Seq(DOMAIN Decisions)
  BY <1>1 DEF NotifierTypes, NotifierTypeOK, NotifierInv
<1>3. \A i \in DOMAIN kept' : kept'[i].pull \in DOMAIN Pulls
  <2>1. kept' \in Seq(PullRows)
    BY <1>1 DEF NotifierInv
  <2>2. \A i \in DOMAIN kept' : kept'[i] \in PullRows
    BY <2>1
  <2> QED  BY <2>2 DEF PullRows
<1>4. ASSUME UNCHANGED <<server, shut>>,
             DOMAIN pending' \subseteq {d[2] : d \in DOMAIN Decisions},
             doing' \in {"pulls", "decisions", "publish", "post", "done", "failed"},
             unread' \in Seq(DOMAIN Decisions)
      PROVE  NotifierTypes'
  BY <1>1, <1>2, <1>3, <1>4 DEF NotifierTypes, NotifierTypeOK
<1>5. CASE ReadPage
  <2>1. UNCHANGED <<server, shut, pending>> /\ doing' \in {"pulls", "decisions", "publish", "failed"}
    BY <1>2, <1>5 DEF ReadPage
  <2>2. unread' = unread \/ unread' = << >> \/ \E mainAnswers \in BOOLEAN : unread' = DecisionFiles(mainAnswers)
    BY <1>5 DEF ReadPage
  <2>3. unread' \in Seq(DOMAIN Decisions)
    <3>1. << >> \in Seq(DOMAIN Decisions)
      BY NoElements
    <3> QED  BY <1>2, <2>2, <3>1, FilesListed
  <2> QED  BY <1>2, <1>4, <2>1, <2>3
<1>6. CASE PullsFail
  BY <1>2, <1>4, <1>6 DEF PullsFail
<1>7. CASE WriteDashboard
  BY <1>2, <1>4, <1>7 DEF WriteDashboard
<1>8. ASSUME NEW answer \in {"read", "HTTP error", "no network"}, ReadDecision(answer) PROVE NotifierTypes'
  <2>1. PICK d \in DOMAIN Decisions, rest \in Seq(DOMAIN Decisions) : d = Head(unread) /\ rest = Tail(unread)
    <3>1. unread # << >>
      BY <1>8 DEF ReadDecision
    <3>2. Head(unread) \in DOMAIN Decisions /\ Tail(unread) \in Seq(DOMAIN Decisions)
      BY <1>2, <3>1, FirstLeaves
    <3> QED  BY <3>2
  <2>2. UNCHANGED <<server, shut>> /\ doing' \in {"failed", doing}
    BY <1>8 DEF ReadDecision
  <2>3. unread' = rest \/ unread' = << >>
    BY <1>8, <2>1 DEF ReadDecision
  <2>4. pending' = pending \/ DOMAIN pending' = DOMAIN pending \cup {d[2]}
    BY <1>8, <2>1 DEF ReadDecision
  <2>5. unread' \in Seq(DOMAIN Decisions)
    <3>1. << >> \in Seq(DOMAIN Decisions)
      BY NoElements
    <3> QED  BY <2>1, <2>3, <3>1
  <2>6. DOMAIN pending' \subseteq {e[2] : e \in DOMAIN Decisions}
    BY <1>2, <2>1, <2>4
  <2> QED  BY <1>2, <1>4, <2>2, <2>5, <2>6
<1>9. ASSUME NEW verbose \in BOOLEAN, NEW taken \in BOOLEAN, Post(verbose, taken) PROVE NotifierTypes'
  BY <1>2, <1>4, <1>9 DEF Post
<1>10. ASSUME NEW i \in DOMAIN server, Update(i) \/ Close(i) PROVE NotifierTypes'
  <2>1. UNCHANGED <<doing, unread, pending>>
    BY <1>10 DEF Update, Close
  <2>2. /\ IsInjective(RemoveAt(server, i)) /\ Range(RemoveAt(server, i)) \subseteq Range(server) \ {server[i]}
        /\ IsInjective(<<server[i]>> \o RemoveAt(server, i)) /\ Range(<<server[i]>> \o RemoveAt(server, i)) \subseteq Range(server)
    BY <1>2, StillOnce
  <2>3. Range(server') \subseteq DOMAIN Pulls /\ IsInjective(server') /\ shut' \cap Range(server') = {}
    <3>1. CASE Update(i)
      <4>1. server' = <<server[i]>> \o RemoveAt(server, i) /\ shut' = shut
        BY <3>1 DEF Update
      <4> QED  BY <1>2, <2>2, <4>1
    <3>2. CASE Close(i)
      <4>1. server' = RemoveAt(server, i) /\ shut' = shut \cup {server[i]}
        BY <3>2 DEF Close
      <4> QED  BY <1>2, <2>2, <4>1
    <3> QED  BY <1>10, <3>1, <3>2
  <2> QED  BY <1>1, <1>2, <1>3, <2>1, <2>3 DEF NotifierTypes, NotifierTypeOK
<1>11. CASE UNCHANGED notifierVars
  BY <1>2, <1>4, <1>11 DEF notifierVars
<1> QED  BY <1>5, <1>6, <1>7, <1>8, <1>9, <1>10, <1>11 DEF NotifierStep

\* Types of the daily job: the listing shows a pull request once, and none that
\* closed; decisions that are pending are among those that were found.
THEOREM NotifierTypeCorrect == ASSUME NotifierAssumption PROVE NotifierSpec => []NotifierTypeOK
<1>1. InitNotifier => NotifierTypes
  <2>1. SUFFICES ASSUME InitNotifier PROVE NotifierTypes
    OBVIOUS
  <2>2. NotifierInv
    BY <2>1, NotifierStart
  <2>3. server \in Seq(DOMAIN Pulls) /\ IsInjective(server)
    BY <2>1 DEF InitNotifier, NotifierAssumption
  <2>4. Range(server) \subseteq DOMAIN Pulls
    BY <2>3 DEF Range
  <2> QED  BY <2>1, <2>2, <2>3, <2>4 DEF InitNotifier, NotifierTypes, NotifierTypeOK
<1>2. NotifierTypes /\ [NotifierStep]_notifierVars => NotifierTypes'
  BY NotifierTypesStep
<1>3. NotifierTypes => NotifierTypeOK
  BY DEF NotifierTypes
<1> QED  BY <1>1, <1>2, <1>3, PTL DEF NotifierSpec

(***************************************************************************)
(* BugCorrelation                                                          *)
(***************************************************************************)
StepsEquation(items, g) ==
  g = [s \in SUBSET DOMAIN items |->
        IF s = {} THEN << >>
        ELSE IF Step(items[Max(s)]) \in ToSet(g[s \ {Max(s)}]) THEN g[s \ {Max(s)}]
             ELSE Append(g[s \ {Max(s)}], Step(items[Max(s)]))]

LEMMA StepsFold ==
  ASSUME NEW items
  PROVE  StepsInOrder(items) = (CHOOSE g : StepsEquation(items, g))[DOMAIN items]
BY Zenon DEF StepsInOrder, FoldLeft, MapThenFoldSet, StepsEquation

ClusterEquation(items, g) ==
  g = [s \in SUBSET DOMAIN items |->
        IF s = {} THEN << >> ELSE Place(g[s \ {Max(s)}], items[Max(s)])]

LEMMA ClusterFold ==
  ASSUME NEW items
  PROVE  ClusterBySimilarity(items) = (CHOOSE g : ClusterEquation(items, g))[DOMAIN items]
BY Zenon DEF ClusterBySimilarity, FoldLeft, MapThenFoldSet, ClusterEquation

JoinEquation(groups, g) ==
  g = [s \in SUBSET DOMAIN groups |->
        IF s = {} THEN << >> ELSE JoinByJira(g[s \ {Max(s)}], groups[Max(s)])]

LEMMA JoinFold ==
  ASSUME NEW groups
  PROVE  FoldLeft(JoinByJira, <<>>, groups) = (CHOOSE g : JoinEquation(groups, g))[DOMAIN groups]
BY Zenon DEF FoldLeft, MapThenFoldSet, JoinEquation

\* Each step occurs once, in a list of the steps of the items.
StepsOnce(X, items, order) ==
  /\ order \in Seq({Step(x) : x \in X})
  /\ \A j, k \in DOMAIN order : order[j] = order[k] => j = k
  /\ ToSet(order) = {Step(items[i]) : i \in DOMAIN items}

LEMMA StepsListed ==
  ASSUME NEW X, NEW items \in Seq(X)
  PROVE  StepsOnce(X, items, StepsInOrder(items))
<1> DEFINE V == {Step(x) : x \in X}
           B == Seq(V)
           F == [p \in B \X X |-> IF Step(p[2]) \in ToSet(p[1]) THEN p[1] ELSE Append(p[1], Step(p[2]))]
           SoFar(q, m) == /\ \A j, k \in DOMAIN q : q[j] = q[k] => j = k
                          /\ ToSet(q) = {Step(items[i]) : i \in 1..m}
           A == [m \in 0..Len(items) |-> {q \in B : SoFar(q, m)}]
<1>1. PICK n \in Nat : n = Len(items) /\ DOMAIN items = 1..n /\ \A i \in 1..n : items[i] \in X
  <2>1. Len(items) \in Nat /\ DOMAIN items = 1..Len(items) /\ \A i \in 1..Len(items) : items[i] \in X
    OBVIOUS
  <2> QED  BY <2>1
<1>2. /\ \A T \in SUBSET (1..n) : T # {} => Max(T) \in T
      /\ \A m \in 1..n : Max(1..m) = m /\ (1..m) \in SUBSET (1..n) /\ (1..m) \ {Max(1..m)} = 1..(m - 1)
  BY LastPlace, Zenon
<1>3. \E g : StepsEquation(items, g)
  <2>1. << >> \in B /\ F \in [B \X X -> B]
    <3>1. \A q \in B, x \in X : Append(q, Step(x)) \in B
      OBVIOUS
    <3> QED  BY <3>1
  <2>2. PICK g \in [SUBSET DOMAIN items -> B] : LeftFolding(items, << >>, F, g)
    <3> HIDE DEF B, F
    <3> QED  BY <2>1, LeftFoldExists
  <2>3. ASSUME NEW T \in SUBSET DOMAIN items, T # {}
        PROVE  g[T] = IF Step(items[Max(T)]) \in ToSet(g[T \ {Max(T)}]) THEN g[T \ {Max(T)}]
                      ELSE Append(g[T \ {Max(T)}], Step(items[Max(T)]))
    <3>1. g[T] = F[<<g[T \ {Max(T)}], items[Max(T)]>>]
      BY <2>2, <2>3 DEF LeftFolding
    <3>2. g[T \ {Max(T)}] \in B /\ items[Max(T)] \in X
      <4>1. T \ {Max(T)} \in SUBSET DOMAIN items /\ Max(T) \in 1..n
        BY <1>1, <1>2, <2>3
      <4> HIDE DEF B
      <4> QED  BY <1>1, <4>1
    <3> HIDE DEF B
    <3> QED  BY <3>1, <3>2
  <2>4. g[{}] = << >>
    BY <2>2 DEF LeftFolding
  <2>5. StepsEquation(items, g)
    <3> HIDE DEF B
    <3> QED  BY <2>3, <2>4 DEF StepsEquation
  <2> QED  BY <2>5
<1>4. PICK g : g = CHOOSE h : StepsEquation(items, h)
  OBVIOUS
<1>5. StepsEquation(items, g) /\ StepsInOrder(items) = g[1..n]
  BY <1>1, <1>3, <1>4, StepsFold
<1>6. g[{}] = << >> /\ \A m \in 1..n : g[1..m] = IF Step(items[m]) \in ToSet(g[1..(m - 1)]) THEN g[1..(m - 1)]
                                                ELSE Append(g[1..(m - 1)], Step(items[m]))
  <2>1. g[{}] = << >>
    BY <1>5 DEF StepsEquation
  <2>2. SUFFICES ASSUME NEW m \in 1..n
        PROVE  g[1..m] = IF Step(items[m]) \in ToSet(g[1..(m - 1)]) THEN g[1..(m - 1)]
                         ELSE Append(g[1..(m - 1)], Step(items[m]))
    BY <2>1
  <2>3. PICK T : T = 1..m
    OBVIOUS
  <2>4. T \in SUBSET DOMAIN items /\ T # {} /\ Max(T) = m /\ T \ {Max(T)} = 1..(m - 1)
    BY <1>1, <1>2, <2>3
  <2>5. g[T] = IF Step(items[Max(T)]) \in ToSet(g[T \ {Max(T)}]) THEN g[T \ {Max(T)}]
               ELSE Append(g[T \ {Max(T)}], Step(items[Max(T)]))
    BY <1>5, <2>4 DEF StepsEquation
  <2> QED  BY <2>3, <2>4, <2>5
<1>7. g[{}] \in A[0]
  <2>1. << >> \in B /\ DOMAIN << >> = {} /\ ToSet(<< >>) = {}
    BY DEF ToSet
  <2>2. {Step(items[i]) : i \in 1..0} = {}
    OBVIOUS
  <2>3. 0 \in 0..Len(items)
    BY <1>1
  <2> HIDE DEF B
  <2> QED  BY <1>6, <2>1, <2>2, <2>3
<1>8. ASSUME NEW m \in 1..n, g[1..(m - 1)] \in A[m - 1] PROVE g[1..m] \in A[m]
  <2>1. m \in 0..Len(items) /\ m - 1 \in 0..Len(items)
    BY <1>1
  <2>2. PICK q \in B : q = g[1..(m - 1)] /\ (\A j, k \in DOMAIN q : q[j] = q[k] => j = k)
                       /\ ToSet(q) = {Step(items[i]) : i \in 1..(m - 1)}
    BY <1>8, <2>1
  <2>3. PICK x : x = Step(items[m])
    OBVIOUS
  <2>4. {Step(items[i]) : i \in 1..m} = ToSet(q) \cup {x}
    <3>1. 1..m = (1..(m - 1)) \cup {m}
      OBVIOUS
    <3> QED  BY <2>2, <2>3, <3>1
  <2>5. CASE x \in ToSet(q)
    <3>1. g[1..m] = q
      BY <1>6, <2>2, <2>3, <2>5
    <3>2. ToSet(q) \cup {x} = ToSet(q)
      BY <2>5
    <3>3. SoFar(q, m)
      BY <2>2, <2>4, <3>2
    <3> HIDE DEF B, SoFar
    <3> QED  BY <2>1, <3>1, <3>3
  <2>6. CASE x \notin ToSet(q)
    <3>1. x \in V
      BY <1>1, <2>3
    <3> HIDE DEF V
    <3>2. PICK r \in B : r = Append(q, x)
      <4>1. Append(q, x) \in B
        BY <3>1
      <4> QED  BY <4>1
    <3>3. PICK l \in Nat : l = Len(q) /\ DOMAIN q = 1..l
      <4>1. Len(q) \in Nat /\ DOMAIN q = 1..Len(q)
        OBVIOUS
      <4> QED  BY <4>1
    <3>4. DOMAIN r = 1..(l + 1) /\ (\A i \in 1..l : r[i] = q[i]) /\ r[l + 1] = x
      BY <3>1, <3>2, <3>3
    <3>5. \A i \in 1..l : q[i] # x
      BY <2>6, <3>3 DEF ToSet
    <3>6. ASSUME NEW j \in DOMAIN r, NEW k \in DOMAIN r, r[j] = r[k] PROVE j = k
      <4>1. (j \in 1..l \/ j = l + 1) /\ (k \in 1..l \/ k = l + 1)
        BY <3>4
      <4>2. CASE j \in 1..l /\ k \in 1..l
        BY <2>2, <3>3, <3>4, <3>6, <4>2
      <4>3. CASE j = l + 1 \/ k = l + 1
        BY <3>4, <3>5, <3>6, <4>1, <4>3
      <4> QED  BY <4>1, <4>2, <4>3
    <3>7. ToSet(r) = ToSet(q) \cup {x}
      <4>1. 1..(l + 1) = (1..l) \cup {l + 1}
        OBVIOUS
      <4> QED  BY <3>3, <3>4, <4>1 DEF ToSet
    <3>8. g[1..m] = r
      BY <1>6, <2>2, <2>3, <2>6, <3>2
    <3>9. SoFar(r, m)
      BY <2>4, <3>6, <3>7
    <3> HIDE DEF B, SoFar
    <3> QED  BY <2>1, <3>8, <3>9
  <2> QED  BY <2>5, <2>6
<1>9. g[1..n] \in A[n]
  <2> HIDE DEF A
  <2> QED  BY <1>7, <1>8, PrefixInduction
<1>10. n \in 0..Len(items) /\ DOMAIN items = 1..n
  BY <1>1
<1>11. g[1..n] \in B /\ SoFar(g[1..n], n)
  <2> HIDE DEF B, SoFar
  <2> QED  BY <1>9, <1>10
<1>12. PICK q : q = g[1..n]
  OBVIOUS
<1> QED  BY <1>1, <1>5, <1>11, <1>12 DEF StepsOnce
\* Lists that are not empty.
Filled(X) == Seq(X) \ {<< >>}

LEMMA PlaceWeighs ==
  ASSUME NEW X, NEW groups \in Seq(Filled(X)), NEW item \in X, NEW w \in [X -> Nat]
  PROVE  /\ Place(groups, item) \in Seq(Filled(X))
         /\ Weight(Place(groups, item), Each(X, w)) = Weight(groups, Each(X, w)) + w[item]
<1>0. PICK W : W = Each(X, w)
  OBVIOUS
<1>1. W \in [Seq(X) -> Nat] /\ \A s \in Seq(X) : W[s] = Weight(s, w)
  BY <1>0, EachWeighs
<1>2. <<item>> \in Filled(X) /\ <<item>> \in Seq(X)
  BY DEF Filled
<1>3. groups \in Seq(Seq(X))
  BY DEF Filled
<1> DEFINE fits == {g \in DOMAIN groups : \E i \in DOMAIN groups[g] : <<item.text, groups[g][i].text>> \in Similar}
<1>4. CASE fits = {}
  <2>1. Place(groups, item) = Append(groups, <<item>>)
    BY <1>4 DEF Place
  <2>2. Append(groups, <<item>>) \in Seq(Filled(X))
    <3>1. PICK x \in Filled(X) : x = <<item>>
      BY <1>2
    <3>2. Append(groups, x) \in Seq(Filled(X))
      OBVIOUS
    <3> QED  BY <3>1, <3>2
  <2>3. Weight(Append(groups, <<item>>), W) = Weight(groups, W) + W[<<item>>]
    BY <1>1, <1>2, <1>3, WeightAppend
  <2>4. W[<<item>>] = w[item]
    BY <1>1, <1>2, WeightSingle
  <2> QED  BY <1>0, <2>1, <2>2, <2>3, <2>4
<1>5. CASE fits # {}
  <2>1. fits \subseteq Nat
    OBVIOUS
  <2>2. PICK k \in DOMAIN groups : k = Min(fits)
    <3>1. Min(fits) \in fits
      <4> HIDE DEF fits
      <4> QED  BY <1>5, <2>1, LeastPlace
    <3> QED  BY <3>1
  <2>3. groups[k] \in Seq(X) /\ groups[k] # << >>
    BY DEF Filled
  <2>4. Place(groups, item) = [groups EXCEPT ![k] = Append(groups[k], item)]
    BY <1>5, <2>2 DEF Place
  <2>5. PICK t \in Filled(X) : t = Append(groups[k], item)
    <3>1. PICK s \in Seq(X) : s = groups[k]
      BY <2>3
    <3>2. Append(s, item) \in Seq(X) /\ Append(s, item) # << >>
      <4>1. Append(s, item) \in Seq(X)
        OBVIOUS
      <4>2. Len(Append(s, item)) = Len(s) + 1 /\ Len(s) \in Nat /\ Len(<< >>) = 0
        OBVIOUS
      <4>3. Len(Append(s, item)) # Len(<< >>)
        BY <4>2
      <4> QED  BY <4>1, <4>3
    <3> QED  BY <3>1, <3>2 DEF Filled
  <2>6. PICK r \in Seq(Filled(X)) : r = [groups EXCEPT ![k] = t]
    <3>1. [groups EXCEPT ![k] = t] \in Seq(Filled(X))
      OBVIOUS
    <3> QED  BY <3>1
  <2>7. Weight(r, W) + W[groups[k]] = Weight(groups, W) + W[t]
    <3>1. t \in Seq(X)
      BY <2>5 DEF Filled
    <3>2. PICK Y : Y = Seq(X)
      OBVIOUS
    <3>3. groups \in Seq(Y) /\ t \in Y /\ k \in DOMAIN groups
      BY <1>3, <3>1, <3>2
    <3>4. W \in [Y -> Nat] /\ r \in Seq(Y)
      <4>1. r \in Seq(Seq(X))
        BY DEF Filled
      <4> QED  BY <1>1, <3>2, <4>1
    <3>5. DOMAIN r = DOMAIN groups /\ r[k] = t /\ \A i \in DOMAIN groups \ {k} : r[i] = groups[i]
      BY <2>6
    <3> HIDE DEF fits
    <3>6. Replaced(Y, groups, k, t, r, W)
      BY <3>3, <3>4, <3>5 DEF Replaced
    <3> QED  BY <3>6, WeightReplace
  <2>8. W[t] = W[groups[k]] + w[item] /\ W[groups[k]] \in Nat /\ w[item] \in Nat
    <3>1. Weight(Append(groups[k], item), w) = Weight(groups[k], w) + w[item]
      BY <2>3, WeightAppend
    <3>2. t \in Seq(X)
      BY <2>5 DEF Filled
    <3> QED  BY <1>1, <2>3, <2>5, <3>1, <3>2
  <2>9. Weight(r, W) \in Nat /\ Weight(groups, W) \in Nat
    <3>1. r \in Seq(Seq(X))
      BY DEF Filled
    <3> QED  BY <1>1, <1>3, <3>1, WeightNat
  <2>10. Weight(r, W) = Weight(groups, W) + w[item]
    <3>1. PICK a \in Nat : a = Weight(r, W)
      BY <2>9
    <3>2. PICK b \in Nat : b = Weight(groups, W)
      BY <2>9
    <3>3. PICK d \in Nat : d = W[groups[k]]
      BY <2>8
    <3>4. PICK e \in Nat : e = w[item]
      BY <2>8
    <3>5. a + d = b + (d + e)
      BY <2>7, <2>8, <3>1, <3>2, <3>3, <3>4
    <3>6. a = b + e
      BY <3>5
    <3> QED  BY <3>1, <3>2, <3>4, <3>6
  <2>11. Place(groups, item) = r
    BY <2>4, <2>5, <2>6
  <2> QED  BY <1>0, <2>10, <2>11
<1> QED  BY <1>4, <1>5

\* Clusters are not empty, and have what the items are, each as often.
LEMMA ClustersWeigh ==
  ASSUME NEW X, NEW items \in Seq(X), NEW w \in [X -> Nat]
  PROVE  /\ ClusterBySimilarity(items) \in Seq(Filled(X))
         /\ Weight(ClusterBySimilarity(items), Each(X, w)) = Weight(items, w)
<1>1. PICK n \in Nat : n = Len(items) /\ DOMAIN items = 1..n /\ \A i \in 1..n : items[i] \in X
  <2>1. Len(items) \in Nat /\ DOMAIN items = 1..Len(items) /\ \A i \in 1..Len(items) : items[i] \in X
    OBVIOUS
  <2> QED  BY <2>1
<1>2. /\ \A T \in SUBSET (1..n) : T # {} => Max(T) \in T
      /\ \A m \in 1..n : Max(1..m) = m /\ (1..m) \in SUBSET (1..n) /\ (1..m) \ {Max(1..m)} = 1..(m - 1)
  BY LastPlace, Zenon
<1>3. PICK W : W = Each(X, w)
  OBVIOUS
<1>4. PICK B : B = Seq(Filled(X))
  OBVIOUS
<1>5. \A b \in B, x \in X : Place(b, x) \in B /\ Weight(Place(b, x), W) = Weight(b, W) + w[x]
  BY <1>3, <1>4, PlaceWeighs
<1>6. << >> \in B
  BY <1>4
<1>7. \E g : ClusterEquation(items, g)
  <2> DEFINE F == [p \in B \X X |-> Place(p[1], p[2])]
  <2>1. F \in [B \X X -> B]
    BY <1>5
  <2>2. PICK g \in [SUBSET DOMAIN items -> B] : LeftFolding(items, << >>, F, g)
    <3> HIDE DEF F
    <3> QED  BY <1>6, <2>1, LeftFoldExists
  <2>3. ASSUME NEW T \in SUBSET DOMAIN items, T # {}
        PROVE  g[T] = Place(g[T \ {Max(T)}], items[Max(T)])
    <3>1. g[T] = F[<<g[T \ {Max(T)}], items[Max(T)]>>]
      BY <2>2, <2>3 DEF LeftFolding
    <3>2. T \ {Max(T)} \in SUBSET DOMAIN items /\ Max(T) \in 1..n
      BY <1>1, <1>2, <2>3
    <3>3. g[T \ {Max(T)}] \in B /\ items[Max(T)] \in X
      BY <1>1, <3>2
    <3> QED  BY <3>1, <3>3
  <2>4. g[{}] = << >>
    BY <2>2 DEF LeftFolding
  <2>5. ClusterEquation(items, g)
    BY <2>3, <2>4 DEF ClusterEquation
  <2> QED  BY <2>5
<1>8. PICK g : g = CHOOSE h : ClusterEquation(items, h)
  OBVIOUS
<1>9. ClusterEquation(items, g) /\ ClusterBySimilarity(items) = g[1..n]
  BY <1>1, <1>7, <1>8, ClusterFold
<1>10. g[{}] = << >>
  BY <1>9 DEF ClusterEquation
<1>11. ASSUME NEW m \in 1..n PROVE g[1..m] = Place(g[1..(m - 1)], items[m])
  <2>1. PICK T : T = 1..m
    OBVIOUS
  <2>2. T \in SUBSET DOMAIN items /\ T # {} /\ Max(T) = m /\ T \ {Max(T)} = 1..(m - 1)
    <3>1. T # {} /\ T \in SUBSET (1..n)
      <4>1. m \in T
        BY <2>1
      <4> QED  BY <1>2, <2>1, <4>1
    <3>2. Max(T) = m /\ T \ {Max(T)} = 1..(m - 1)
      BY <1>2, <2>1
    <3> QED  BY <1>1, <3>1, <3>2
  <2>3. g[T] = Place(g[T \ {Max(T)}], items[Max(T)])
    BY <1>9, <2>2 DEF ClusterEquation
  <2> QED  BY <2>1, <2>2, <2>3
<1>12. PICK f : f = [i \in 1..n |-> w[items[i]]]
  OBVIOUS
<1>13. (\A i \in 1..n : f[i] \in Int) /\ Weight(items, w) = SumFunctionOnSet(f, 1..n)
  <2>1. \A i \in DOMAIN items : f[i] = w[items[i]]
    BY <1>1, <1>12
  <2>2. (\A i \in DOMAIN items : f[i] \in Nat) /\ Weight(items, w) = SumFunctionOnSet(f, DOMAIN items)
    BY <2>1, WeightSum
  <2>3. DOMAIN items = 1..n
    BY <1>1
  <2>4. \A i \in 1..n : f[i] \in Nat
    BY <2>2, <2>3, Zenon
  <2>5. \A k \in Nat : k \in Int
    OBVIOUS
  <2> QED  BY <2>2, <2>3, <2>4, <2>5, Zenon
<1>14. PICK V : V = [b \in B |-> Weight(b, W)]
  OBVIOUS
<1>15. g[{}] \in B /\ V[g[{}]] = 0
  BY <1>6, <1>10, <1>14, WeightEmpty
<1>16. ASSUME NEW m \in 1..n, g[1..(m - 1)] \in B
       PROVE  g[1..m] \in B /\ V[g[1..m]] = V[g[1..(m - 1)]] + f[m]
  <2>1. PICK b \in B : b = g[1..(m - 1)]
    BY <1>16
  <2>2. Place(b, items[m]) \in B /\ Weight(Place(b, items[m]), W) = Weight(b, W) + w[items[m]]
    BY <1>1, <1>5
  <2>3. g[1..m] = Place(b, items[m])
    BY <1>11, <2>1
  <2> QED  BY <1>12, <1>14, <2>1, <2>2, <2>3
<1>17. g[1..n] \in B /\ V[g[1..n]] = SumFunctionOnSet(f, 1..n)
  <2>1. \A m \in 1..n : g[1..(m - 1)] \in B => g[1..m] \in B /\ V[g[1..m]] = V[g[1..(m - 1)]] + f[m]
    BY <1>16
  <2>2. \A i \in 1..n : f[i] \in Int
    BY <1>13
  <2>3. Grows(n, f, B, V, g)
    BY <1>15, <2>1, <2>2 DEF Grows
  <2> QED  BY <2>3, PrefixSum
<1> QED  BY <1>3, <1>4, <1>9, <1>13, <1>14, <1>17
\* Lists that are not empty, of elements of one step.
OneStep(X) == {q \in Filled(X) : \A i, j \in DOMAIN q : Step(q[i]) = Step(q[j])}

\* So are the groups, and they have what the items are, each as often.
LEMMA GroupsWeigh ==
  ASSUME NEW X, NEW items \in Seq(X), NEW w \in [X -> Nat]
  PROVE  /\ GroupBySignature(items) \in Seq(OneStep(X))
         /\ Weight(GroupBySignature(items), Each(X, w)) = Weight(items, w)
<1>1. PICK order : order = StepsInOrder(items)
  OBVIOUS
<1>2. /\ order \in Seq({Step(x) : x \in X})
      /\ \A j, k \in DOMAIN order : order[j] = order[k] => j = k
      /\ ToSet(order) = {Step(items[i]) : i \in DOMAIN items}
  <2>1. StepsOnce(X, items, order)
    BY <1>1, StepsListed
  <2> QED  BY <2>1 DEF StepsOnce
<1>3. PICK n \in Nat : n = Len(order) /\ DOMAIN order = 1..n
  <2>1. Len(order) \in Nat /\ DOMAIN order = 1..Len(order)
    BY <1>2
  <2> QED  BY <2>1
<1>4. PICK K : K = 1..n
  OBVIOUS
<1>5. IsFiniteSet(K) /\ DOMAIN order = K
  BY <1>3, <1>4, LastPlace
<1>6. PICK P : P = [k \in K |-> {item \in Range(items) : Step(item) = order[k]}]
  OBVIOUS
<1>7. PICK L : L = [k \in K |-> Keeping(items, P[k])]
  OBVIOUS
<1>8. \A k \in K : L[k] \in Seq(X) /\ Range(L[k]) = Range(items) \cap P[k]
  BY <1>7, Kept
<1>9. PICK C : C = [k \in K |-> ClusterBySimilarity(L[k])]
  OBVIOUS
<1>10. PICK W : W = Each(X, w)
  OBVIOUS
<1>11. \A k \in K : C[k] \in Seq(Filled(X)) /\ Weight(C[k], W) = Weight(L[k], w)
  BY <1>8, <1>9, <1>10, ClustersWeigh
<1>12. ASSUME NEW k \in K PROVE C[k] \in Seq(OneStep(X))
  <2>1. PICK Y : Y = {x \in X : Step(x) = order[k]}
    OBVIOUS
  <2>2. PICK s : s = L[k]
    OBVIOUS
  <2>3. s \in Seq(X) /\ \A i \in DOMAIN s : s[i] \in P[k]
    BY <1>8, <2>2 DEF Range
  <2>4. s \in Seq(Y)
    <3>1. Len(s) \in Nat /\ DOMAIN s = 1..Len(s) /\ \A i \in 1..Len(s) : s[i] \in X
      BY <2>3
    <3>2. \A i \in 1..Len(s) : s[i] \in Y
      BY <1>6, <2>1, <2>3, <3>1
    <3> QED  BY <2>3, <3>1, <3>2
  <2>5. PICK v : v = [y \in Y |-> 0]
    OBVIOUS
  <2>6. v \in [Y -> Nat]
    BY <2>5
  <2>7. ClusterBySimilarity(s) \in Seq(Filled(Y))
    BY <2>4, <2>6, ClustersWeigh
  <2>8. Filled(Y) \subseteq OneStep(X)
    <3>1. SUFFICES ASSUME NEW q \in Filled(Y) PROVE q \in OneStep(X)
      OBVIOUS
    <3>2. q \in Seq(Y) /\ q # << >>
      BY DEF Filled
    <3>3. \A i \in DOMAIN q : q[i] \in Y
      BY <3>2
    <3>4. q \in Seq(X)
      BY <2>1, <3>2
    <3>5. \A i, j \in DOMAIN q : Step(q[i]) = Step(q[j])
      BY <2>1, <3>3
    <3> QED  BY <3>2, <3>4, <3>5 DEF OneStep, Filled
  <2>9. PICK U, V : U = Filled(Y) /\ V = OneStep(X)
    OBVIOUS
  <2>10. \A q \in Seq(U) : q \in Seq(V)
    BY <2>8, <2>9
  <2> QED  BY <1>9, <2>2, <2>7, <2>9, <2>10
<1>13. C \in Seq(Seq(OneStep(X)))
  <2>1. PICK Z : Z = Seq(OneStep(X))
    OBVIOUS
  <2>2. C \in [1..n -> Z]
    BY <1>4, <1>9, <1>12, <2>1
  <2>3. C \in Seq(Z)
    BY <2>2
  <2> QED  BY <2>1, <2>3
<1>14. GroupBySignature(items) = FlattenSeq(C)
  <2>1. C = [s \in DOMAIN StepsInOrder(items) |->
               ClusterBySimilarity(Keeping(items, {item \in Range(items) : Step(item) = StepsInOrder(items)[s]}))]
    BY <1>1, <1>5, <1>6, <1>7, <1>9
  <2> QED  BY <2>1 DEF GroupBySignature
<1>15. FlattenSeq(C) \in Seq(OneStep(X))
  BY <1>13, Flattened
<1>16. PICK Y : Y = Seq(X)
  OBVIOUS
<1>17. W \in [Y -> Nat] /\ C \in Seq(Seq(Y))
  <2>1. \A q \in Seq(Filled(X)) : q \in Seq(Seq(X))
    BY DEF Filled
  <2>2. PICK Z : Z = Seq(Y)
    OBVIOUS
  <2>3. C \in [1..n -> Z]
    BY <1>4, <1>9, <1>11, <1>16, <2>1, <2>2
  <2>4. C \in Seq(Z)
    BY <2>3
  <2> QED  BY <1>10, <1>16, <2>2, <2>4, EachWeighs
<1>18. PICK V : V = Each(Y, W)
  OBVIOUS
<1>19. V \in [Seq(Y) -> Nat] /\ \A s \in Seq(Y) : V[s] = Weight(s, W)
  BY <1>17, <1>18, EachWeighs
<1>20. Weight(FlattenSeq(C), W) = Weight(C, V)
  BY <1>17, <1>18, WeightFlatten
<1>21. PICK f : f = [k \in K |-> Weight(L[k], w)]
  OBVIOUS
<1>22. Weight(C, V) = SumFunctionOnSet(f, K)
  <2>1. DOMAIN C = K
    BY <1>9
  <2>2. \A k \in DOMAIN C : f[k] = V[C[k]]
    <3>1. SUFFICES ASSUME NEW k \in K PROVE f[k] = V[C[k]]
      BY <2>1
    <3>2. C[k] \in Seq(Y)
      BY <1>11, <1>16 DEF Filled
    <3> QED  BY <1>11, <1>19, <1>21, <3>2
  <2>3. PICK Z : Z = Seq(Y)
    OBVIOUS
  <2>4. C \in Seq(Z) /\ V \in [Z -> Nat]
    BY <1>17, <1>19, <2>3
  <2>5. Weight(C, V) = SumFunctionOnSet(f, DOMAIN C)
    BY <2>2, <2>4, WeightSum
  <2> QED  BY <2>1, <2>5
<1>23. SumFunctionOnSet(f, K) = Weight(items, w)
  <2>1. \A j, k \in K : j # k => P[j] \cap P[k] = {}
    BY <1>2, <1>5, <1>6
  <2>2. \A i \in DOMAIN items : \E k \in K : items[i] \in P[k]
    <3>1. SUFFICES ASSUME NEW i \in DOMAIN items PROVE \E k \in K : items[i] \in P[k]
      OBVIOUS
    <3>2. Step(items[i]) \in ToSet(order)
      BY <1>2
    <3>3. PICK k \in K : order[k] = Step(items[i])
      BY <1>5, <3>2 DEF ToSet
    <3>4. items[i] \in Range(items)
      BY DEF Range
    <3> QED  BY <1>6, <3>3, <3>4
  <2>3. \A k \in K : f[k] = Weight(Keeping(items, P[k]), w)
    BY <1>7, <1>21
  <2> QED  BY <1>5, <2>1, <2>2, <2>3, WeightParts
<1> QED  BY <1>10, <1>14, <1>15, <1>20, <1>22, <1>23

\* What candidates are sorted by.
Rank(c) == 1000 * c.severity + 100 * Len(c.jobs) - c.sig

\* sorted() moves the candidates to other places, and that is all it does.
LEMMA ArrangedCandidates ==
  ASSUME NEW X, NEW rows \in Seq(X), \A x \in X : Rank(x) \in Int
  PROVE  /\ Arranged(rows, Precedes) \in Seq(X)
         /\ \E p \in Bijection(DOMAIN Arranged(rows, Precedes), DOMAIN rows) :
              \A i \in DOMAIN Arranged(rows, Precedes) : Arranged(rows, Precedes)[i] = rows[p[i]]
<1> DEFINE D     == DOMAIN rows
           R     == {r \in D \X D : Precedes(rows[r[1]], rows[r[2]]) \/ (r[1] < r[2] /\ ~Precedes(rows[r[2]], rows[r[1]]))}
           a(i)  == {k \in D : Precedes(rows[k], rows[i]) \/ (k < i /\ ~Precedes(rows[i], rows[k]))}
           nth(n) == CHOOSE i \in D : Cardinality(a(i)) = n - 1
           c     == Cardinality(D)
           p     == [m \in 1..c |-> CHOOSE i \in D : Cardinality({k \in D : <<k, i>> \in R}) = m - 1]
<1>1. /\ Len(rows) \in Nat /\ D = 1..Len(rows) /\ IsFiniteSet(D) /\ Cardinality(D) = Len(rows)
      /\ \A i \in D : rows[i] \in X
  <2>1. Len(rows) \in Nat /\ D = 1..Len(rows) /\ \A i \in D : rows[i] \in X
    OBVIOUS
  <2>2. PICK l \in Nat : l = Len(rows)
    BY <2>1
  <2>3. IsFiniteSet(1..l) /\ Cardinality(1..l) = l
    BY FS_Interval
  <2> HIDE DEF D
  <2> QED  BY <2>1, <2>2, <2>3
<1>2. Arranged(rows, Precedes) = [n \in D |-> rows[nth(n)]]
  BY DEF Arranged
<1>3. \A x, y, z \in X :
        /\ ~Precedes(x, x)
        /\ Precedes(x, y) => ~Precedes(y, x)
        /\ Precedes(x, y) /\ Precedes(y, z) => Precedes(x, z)
        /\ Precedes(x, z) => Precedes(x, y) \/ Precedes(y, z)
  <2>1. \A x, y \in X : Precedes(x, y) <=> Rank(x) > Rank(y)
    BY DEF Precedes, Rank
  <2>2. \A i, j, k \in Int : ~(i > i) /\ (i > j => ~(j > i)) /\ (i > j /\ j > k => i > k) /\ (i > k => i > j \/ j > k)
    OBVIOUS
  <2> QED  BY <2>1, <2>2
<1>4. \A i \in D : <<i, i>> \notin R
  BY <1>1, <1>3
<1>5. \A i, k \in D : i # k => <<i, k>> \in R \/ <<k, i>> \in R
  BY <1>1, <1>3
<1>6. \A i, k, l \in D : <<i, k>> \in R /\ <<k, l>> \in R => <<i, l>> \in R
  <2>1. SUFFICES ASSUME NEW i \in D, NEW k \in D, NEW l \in D, <<i, k>> \in R, <<k, l>> \in R PROVE <<i, l>> \in R
    OBVIOUS
  <2>2. i \in Nat /\ k \in Nat /\ l \in Nat
    BY <1>1
  <2>3. PICK x \in X, y \in X, z \in X : x = rows[i] /\ y = rows[k] /\ z = rows[l]
    BY <1>1
  <2>4. Precedes(x, y) \/ (i < k /\ ~Precedes(y, x))
    BY <2>1, <2>3
  <2>5. Precedes(y, z) \/ (k < l /\ ~Precedes(z, y))
    BY <2>1, <2>3
  <2>6. Precedes(x, z) \/ (i < l /\ ~Precedes(z, x))
    BY <1>3, <2>2, <2>4, <2>5
  <2> QED  BY <2>3, <2>6
<1>7. \A i \in D : a(i) = {k \in D : <<k, i>> \in R}
  OBVIOUS
<1>8. /\ c \in Nat /\ p \in [1..c -> D]
      /\ \A i \in D : \E m \in 1..c : p[m] = i
      /\ \A l, m \in 1..c : l < m => <<p[l], p[m]>> \in R
      /\ \A m \in 1..c : Cardinality({k \in D : <<k, p[m]>> \in R}) = m - 1
      /\ \A i, j \in D : Cardinality({k \in D : <<k, i>> \in R}) = Cardinality({k \in D : <<k, j>> \in R}) => i = j
  <2>1. IsFiniteSet(D)
    BY <1>1
  <2> HIDE DEF D, R
  <2> QED  BY <1>4, <1>5, <1>6, <2>1, Ranking
<1> HIDE DEF p, a, R
<1>9. ASSUME NEW n \in D PROVE nth(n) = p[n]
  <2>1. p[n] \in D /\ Cardinality(a(p[n])) = n - 1
    BY <1>1, <1>7, <1>8
  <2>2. nth(n) \in D /\ Cardinality(a(nth(n))) = n - 1
    BY <2>1
  <2> HIDE DEF nth
  <2> QED  BY <1>7, <1>8, <2>1, <2>2
<1> HIDE DEF nth
<1>10. \A n \in D : Arranged(rows, Precedes)[n] = rows[p[n]] /\ p[n] \in D
  BY <1>1, <1>2, <1>8, <1>9
<1>11. DOMAIN Arranged(rows, Precedes) = D
  BY <1>2
<1>12. PICK t : t = Arranged(rows, Precedes)
  OBVIOUS
<1>13. DOMAIN t = D /\ \A n \in D : t[n] = rows[p[n]] /\ p[n] \in D
  BY <1>10, <1>11, <1>12
<1>14. t \in Seq(X)
  <2>1. t = [n \in D |-> rows[p[n]]]
    BY <1>1, <1>2, <1>9, <1>12
  <2>2. \A n \in D : t[n] \in X
    BY <1>1, <1>13
  <2>3. t \in [1..Len(rows) -> X] /\ Len(rows) \in Nat
    BY <1>1, <2>1, <2>2
  <2> QED  BY <2>3
<1>15. p \in Bijection(D, D)
  <2>1. p \in [D -> D] /\ \A i \in D : \E m \in D : p[m] = i
    BY <1>1, <1>8
  <2>2. ASSUME NEW l \in D, NEW m \in D, p[l] = p[m] PROVE l = m
    <3>1. l \in Nat /\ m \in Nat /\ c = Len(rows) /\ D = 1..c
      BY <1>1
    <3>2. l < m => FALSE
      BY <1>4, <1>8, <2>1, <2>2, <3>1
    <3>3. m < l => FALSE
      BY <1>4, <1>8, <2>1, <2>2, <3>1
    <3> QED  BY <3>1, <3>2, <3>3
  <2> HIDE DEF D
  <2> QED  BY <2>1, <2>2 DEF Bijection, Injection, Surjection, IsInjective
<1> QED  BY <1>12, <1>13, <1>14, <1>15
\* The first of the heaviest places is one of the places.
LEMMA HeaviestFirst ==
  ASSUME NEW n \in Nat \ {0}, NEW a \in [1..n -> Int]
  PROVE  Min({i \in 1..n : \A j \in 1..n : a[i] >= a[j]}) \in 1..n
<1>1. PICK S : S = {a[i] : i \in 1..n}
  OBVIOUS
<1>2. IsFiniteSet(S) /\ S # {} /\ S \subseteq Int
  <2>1. IsFiniteSet(1..n)
    <3>1. 1 \in Int /\ n \in Int
      OBVIOUS
    <3> QED  BY <3>1, FS_Interval
  <2>2. a \in Surjection(1..n, S)
    BY <1>1 DEF Surjection
  <2>3. IsFiniteSet(S)
    BY <2>1, <2>2, FS_Surjection
  <2>4. 1 \in 1..n
    OBVIOUS
  <2> QED  BY <1>1, <2>3, <2>4
<1>3. PICK m \in S : \A k \in S : k <= m
  BY <1>2, GreatestNumber
<1>4. PICK h \in 1..n : a[h] = m
  BY <1>1, <1>3
<1>5. PICK T : T = {i \in 1..n : \A j \in 1..n : a[i] >= a[j]}
  OBVIOUS
<1>6. h \in T /\ T \subseteq Nat
  BY <1>1, <1>3, <1>4, <1>5
<1>7. Min(T) \in T
  BY <1>6, LeastPlace
<1> QED  BY <1>5, <1>7

\* The greatest severity is one of them.
LEMMA SeverityInRange ==
  ASSUME NEW X, NEW group \in Filled(X), \A x \in X : x.severity \in Severities
  PROVE  MaxSeverity(group) \in Severities
<1>1. PICK n \in Nat : n = Len(group) /\ DOMAIN group = 1..n /\ \A i \in 1..n : group[i] \in X
  <2>1. Len(group) \in Nat /\ DOMAIN group = 1..Len(group) /\ \A i \in 1..Len(group) : group[i] \in X
    BY DEF Filled
  <2> QED  BY <2>1
<1>2. n # 0
  <2>1. group \in Seq(X) /\ group # << >>
    BY DEF Filled
  <2> QED  BY <1>1, <2>1
<1>3. PICK S : S = {group[i].severity : i \in 1..n}
  OBVIOUS
<1>4. IsFiniteSet(S) /\ S # {} /\ S \subseteq Int /\ S \subseteq Severities
  <2>1. S \subseteq Severities
    BY <1>1, <1>3
  <2>2. IsFiniteSet(Severities)
    <3>1. 1 \in Int /\ 5 \in Int
      OBVIOUS
    <3> QED  BY <3>1, FS_Interval DEF Severities
  <2>3. IsFiniteSet(S)
    BY <2>1, <2>2, FS_Subset
  <2>4. 1 \in 1..n
    BY <1>2
  <2> QED  BY <1>3, <2>1, <2>3, <2>4 DEF Severities
<1>5. PICK m \in S : \A k \in S : k <= m
  BY <1>4, GreatestNumber
<1>6. Max(S) \in S
  <2>1. \A k \in S : m >= k
    BY <1>4, <1>5
  <2> QED  BY <2>1 DEF Max
<1>7. MaxSeverity(group) = Max(S)
  BY <1>1, <1>3 DEF MaxSeverity
<1> QED  BY <1>4, <1>6, <1>7

JobCandidates ==
  [source : BugSources, sig : Signatures, text : Nat, ref : Nat, variants : SUBSET Nat,
   severity : Severities, type : Layers, jobs : Filled(FailedJobs)]

\* What the jobs of a candidate weigh.
OfJobs(w) == [c \in JobCandidates |-> Weight(c.jobs, w)]

\* A group of failed jobs makes a candidate.
LEMMA CandidateTyped ==
  ASSUME CorrelationAssumption, NEW source \in BugSources, NEW group \in Filled(FailedJobs)
  PROVE  Candidate(source, group) \in JobCandidates
<1>1. PICK n \in Nat : n = Len(group) /\ DOMAIN group = 1..n /\ \A i \in 1..n : group[i] \in FailedJobs
  <2>1. Len(group) \in Nat /\ DOMAIN group = 1..Len(group) /\ \A i \in 1..Len(group) : group[i] \in FailedJobs
    BY DEF Filled
  <2> QED  BY <2>1
<1>2. n # 0
  <2>1. group \in Seq(FailedJobs) /\ group # << >>
    BY DEF Filled
  <2> QED  BY <1>1, <2>1
<1>3. PICK a : a = [i \in 1..n |-> JobWeight(group[i])]
  OBVIOUS
<1>4. \A i \in 1..n : JobWeight(group[i]) \in Int
  <2>1. \A x \in FailedJobs : x.severity \in 1..5 /\ x.name \in Nat
    BY DEF FailedJobs, Severities
  <2>2. \A i \in 1..5, k \in Nat : 10 * i + k \in Int
    OBVIOUS
  <2> QED  BY <1>1, <2>1, <2>2 DEF JobWeight
<1>5. a \in [1..n -> Int]
  BY <1>3, <1>4
<1>6. PICK rep \in FailedJobs : rep = Representative(group, JobWeight)
  <2>1. Min({i \in 1..n : \A j \in 1..n : a[i] >= a[j]}) \in 1..n
    BY <1>2, <1>5, HeaviestFirst
  <2>2. {i \in 1..n : \A j \in 1..n : a[i] >= a[j]}
          = {i \in DOMAIN group : \A j \in DOMAIN group : JobWeight(group[i]) >= JobWeight(group[j])}
    BY <1>1, <1>3
  <2>3. Representative(group, JobWeight) \in FailedJobs
    BY <1>1, <2>1, <2>2 DEF Representative
  <2> QED  BY <2>3
<1>7. MaxSeverity(group) \in Severities
  <2>1. \A x \in FailedJobs : x.severity \in Severities
    BY DEF FailedJobs
  <2> QED  BY <2>1, SeverityInRange
<1>8. FailureType(group) \in Layers
  BY <1>6 DEF FailureType, FailedJobs, Layers
<1>9. UNION {group[i].variants : i \in DOMAIN group} \in SUBSET Nat
  BY <1>1 DEF FailedJobs
<1> QED  BY <1>6, <1>7, <1>8, <1>9 DEF Candidate, JobCandidates, FailedJobs
LEMMA OfJobsWeighs ==
  ASSUME NEW w \in [FailedJobs -> Nat]
  PROVE  OfJobs(w) \in [JobCandidates -> Nat] /\ \A c \in JobCandidates : OfJobs(w)[c] = Weight(c.jobs, w)
<1>1. ASSUME NEW c \in JobCandidates PROVE Weight(c.jobs, w) \in Nat
  <2>1. c.jobs \in Seq(FailedJobs)
    BY DEF JobCandidates, Filled
  <2> QED  BY <2>1, WeightNat
<1> QED  BY <1>1 DEF OfJobs

\* A source's candidates are its own and have its failed jobs, each as often.
LEMMA CandidatesWeigh ==
  ASSUME CorrelationAssumption, NEW source \in BugSources, failed[source] \in Seq(FailedJobs)
  PROVE  /\ BuildCandidates(source) \in Seq(JobCandidates)
         /\ \A i \in DOMAIN BuildCandidates(source) : BuildCandidates(source)[i].source = source
         /\ \A w \in [FailedJobs -> Nat] : Weight(BuildCandidates(source), OfJobs(w)) = Weight(failed[source], w)
<1>1. PICK items \in Seq(FailedJobs) : items = failed[source]
  OBVIOUS
<1>2. PICK groups : groups = GroupBySignature(items)
  OBVIOUS
<1>3. /\ groups \in Seq(Filled(FailedJobs))
      /\ \A w \in [FailedJobs -> Nat] : Weight(groups, Each(FailedJobs, w)) = Weight(items, w)
  <2>1. PICK v : v = [y \in FailedJobs |-> 0]
    OBVIOUS
  <2>2. v \in [FailedJobs -> Nat]
    BY <2>1
  <2>3. groups \in Seq(OneStep(FailedJobs))
    BY <1>2, <2>2, GroupsWeigh
  <2>4. PICK A, F : A = OneStep(FailedJobs) /\ F = Filled(FailedJobs)
    OBVIOUS
  <2>5. A \subseteq F
    BY <2>4 DEF OneStep
  <2>6. \A q \in Seq(A) : q \in Seq(F)
    BY <2>5
  <2> QED  BY <1>2, <2>3, <2>4, <2>6, GroupsWeigh
<1>4. PICK n \in Nat : n = Len(groups) /\ DOMAIN groups = 1..n /\ \A i \in 1..n : groups[i] \in Filled(FailedJobs)
  <2>1. Len(groups) \in Nat /\ DOMAIN groups = 1..Len(groups) /\ \A i \in 1..Len(groups) : groups[i] \in Filled(FailedJobs)
    BY <1>3
  <2> QED  BY <2>1
<1>5. PICK built : built = [g \in 1..n |-> Candidate(source, groups[g])]
  OBVIOUS
<1>6. built \in Seq(JobCandidates)
  <2>1. \A g \in 1..n : Candidate(source, groups[g]) \in JobCandidates
    BY <1>4, CandidateTyped
  <2>2. PICK Y : Y = JobCandidates
    OBVIOUS
  <2>3. built \in [1..n -> Y]
    BY <1>5, <2>1, <2>2
  <2> QED  BY <2>2, <2>3
<1>7. PICK t : t = Arranged(built, Precedes)
  OBVIOUS
<1>8. BuildCandidates(source) = t
  BY <1>1, <1>2, <1>4, <1>5, <1>7 DEF BuildCandidates
<1>9. \A c \in JobCandidates : Rank(c) \in Int
  <2>1. ASSUME NEW c \in JobCandidates PROVE c.severity \in 1..5 /\ Len(c.jobs) \in Nat /\ c.sig \in Nat
    <3>1. c.severity \in Severities /\ c.sig \in Signatures /\ c.jobs \in Seq(FailedJobs)
      BY DEF JobCandidates, Filled
    <3>2. \A s \in Seq(FailedJobs) : Len(s) \in Nat
      OBVIOUS
    <3> QED  BY <3>1, <3>2 DEF CorrelationAssumption, Severities
  <2>2. \A i \in 1..5, j, k \in Nat : 1000 * i + 100 * j - k \in Int
    OBVIOUS
  <2> QED  BY <2>1, <2>2, SMTT(30) DEF Rank
<1>10. t \in Seq(JobCandidates) /\ \E p \in Bijection(DOMAIN t, DOMAIN built) : \A i \in DOMAIN t : t[i] = built[p[i]]
  BY <1>6, <1>7, <1>9, ArrangedCandidates
<1>11. PICK p \in Bijection(DOMAIN t, DOMAIN built) : \A i \in DOMAIN t : t[i] = built[p[i]]
  BY <1>10
<1>12. ASSUME NEW i \in DOMAIN t PROVE t[i].source = source
  <2>1. p[i] \in 1..n
    BY <1>5, <1>11 DEF Bijection, Injection
  <2>2. built[p[i]] = Candidate(source, groups[p[i]])
    BY <1>5, <2>1
  <2>3. t[i] = Candidate(source, groups[p[i]])
    BY <1>11, <2>2
  <2> QED  BY <2>3 DEF Candidate
<1>13. ASSUME NEW w \in [FailedJobs -> Nat] PROVE Weight(t, OfJobs(w)) = Weight(failed[source], w)
  <2>1. PICK U, W : U = OfJobs(w) /\ W = Each(FailedJobs, w)
    OBVIOUS
  <2>2. PICK X, Y : X = JobCandidates /\ Y = Filled(FailedJobs)
    OBVIOUS
  <2>3. U \in [X -> Nat] /\ \A c \in X : U[c] = Weight(c.jobs, w)
    BY <2>1, <2>2, OfJobsWeighs
  <2>4. W \in [Seq(FailedJobs) -> Nat] /\ \A s \in Seq(FailedJobs) : W[s] = Weight(s, w)
    BY <2>1, EachWeighs
  <2>5. Weight(t, U) = Weight(built, U)
    <3>1. t \in Seq(X) /\ built \in Seq(X)
      BY <1>6, <1>10, <2>2
    <3> QED  BY <1>11, <2>3, <3>1, WeightMoved
  <2>6. Weight(built, U) = Weight(groups, W)
    <3>1. PICK Z : Z = Seq(FailedJobs)
      OBVIOUS
    <3>2. groups \in Seq(Z) /\ W \in [Z -> Nat]
      BY <1>3, <2>4, <3>1 DEF Filled
    <3>3. built \in Seq(X) /\ DOMAIN built = DOMAIN groups
      BY <1>4, <1>5, <1>6, <2>2
    <3>4. ASSUME NEW i \in DOMAIN groups PROVE U[built[i]] = W[groups[i]]
      <4>1. built[i] = Candidate(source, groups[i]) /\ built[i] \in X /\ groups[i] \in Seq(FailedJobs)
        BY <1>4, <1>5, <2>2, CandidateTyped DEF Filled
      <4>2. built[i].jobs = groups[i]
        BY <4>1 DEF Candidate
      <4> QED  BY <2>3, <2>4, <4>1, <4>2
    <3>5. U \in [X -> Nat]
      BY <2>3
    <3>6. AlikeByPlace(Z, groups, W, X, built, U)
      BY <3>2, <3>3, <3>4, <3>5 DEF AlikeByPlace
    <3> QED  BY <3>6, WeightSame
  <2> QED  BY <1>1, <1>3, <2>1, <2>5, <2>6
<1> QED  BY <1>8, <1>10, <1>12, <1>13
\* A joined group shares its keys, and has some or one step.
Entries == {e \in [group : Filled(JobCandidates), keys : SUBSET Nat] :
              /\ \A m \in ToSet(e.group) : e.keys \subseteq accepted[m.sig]
              /\ e.keys # {} \/ \A a, b \in ToSet(e.group) : Step(a) = Step(b)}

OfGroups(v) == [e \in Entries |-> Weight(e.group, v)]

LEMMA OfGroupsWeighs ==
  ASSUME NEW v \in [JobCandidates -> Nat]
  PROVE  OfGroups(v) \in [Entries -> Nat] /\ \A e \in Entries : OfGroups(v)[e] = Weight(e.group, v)
<1>1. ASSUME NEW e \in Entries PROVE Weight(e.group, v) \in Nat
  <2>1. e.group \in Seq(JobCandidates)
    BY DEF Entries, Filled
  <2> QED  BY <2>1, WeightNat
<1> QED  BY <1>1 DEF OfGroups

\* A group that joins no other is an entry ...
LEMMA EntryMade ==
  ASSUME accepted \in [Signatures -> SUBSET Nat], NEW group \in OneStep(JobCandidates)
  PROVE  [group |-> group, keys |-> SharedKeys(group)] \in Entries
<1>1. group \in Filled(JobCandidates) /\ \A i, j \in DOMAIN group : Step(group[i]) = Step(group[j])
  BY DEF OneStep
<1>2. \A i \in DOMAIN group : group[i] \in JobCandidates
  BY <1>1 DEF Filled
<1>3. \A i \in DOMAIN group : accepted[group[i].sig] \in SUBSET Nat
  BY <1>2 DEF JobCandidates
<1>4. SharedKeys(group) \in SUBSET Nat
  BY <1>3 DEF SharedKeys
<1>5. \A i \in DOMAIN group : SharedKeys(group) \subseteq accepted[group[i].sig]
  BY DEF SharedKeys
<1>6. \A m \in ToSet(group) : \E i \in DOMAIN group : m = group[i]
  BY DEF ToSet
<1> QED  BY <1>1, <1>4, <1>5, <1>6 DEF Entries

\* ... and one that joins an entry makes a wider one.
LEMMA EntryWidened ==
  ASSUME accepted \in [Signatures -> SUBSET Nat], NEW group \in OneStep(JobCandidates), NEW e \in Entries,
         e.keys \cap SharedKeys(group) # {}
  PROVE  [group |-> e.group \o group, keys |-> e.keys \cap SharedKeys(group)] \in Entries
<1>1. e.group \in Seq(JobCandidates) /\ e.group # << >> /\ e.keys \in SUBSET Nat
  BY DEF Entries, Filled
<1>2. group \in Seq(JobCandidates)
  BY DEF OneStep, Filled
<1>3. PICK s \in Seq(JobCandidates) : s = e.group
  BY <1>1
<1>4. s \o group \in Seq(JobCandidates) /\ ToSet(s \o group) = ToSet(s) \cup ToSet(group)
  BY <1>2, ConcatSet
<1>5. s \o group # << >>
  <2>1. Len(s) \in Nat /\ Len(group) \in Nat /\ Len(s) # 0
    BY <1>1, <1>2, <1>3
  <2>2. Len(s \o group) = Len(s) + Len(group)
    BY <1>2
  <2>3. Len(s \o group) # 0
    BY <2>1, <2>2
  <2> QED  BY <2>3
<1>6. \A i \in DOMAIN group : SharedKeys(group) \subseteq accepted[group[i].sig]
  BY DEF SharedKeys
<1>7. \A m \in ToSet(group) : SharedKeys(group) \subseteq accepted[m.sig]
  BY <1>6 DEF ToSet
<1>8. \A m \in ToSet(s) : e.keys \subseteq accepted[m.sig]
  BY <1>3 DEF Entries
<1>9. \A m \in ToSet(s \o group) : e.keys \cap SharedKeys(group) \subseteq accepted[m.sig]
  BY <1>4, <1>7, <1>8
<1>10. e.keys \cap SharedKeys(group) \in SUBSET Nat
  BY <1>1
<1>11. s \o group \in Filled(JobCandidates)
  BY <1>4, <1>5 DEF Filled
<1> QED  BY <1>3, <1>9, <1>10, <1>11 DEF Entries

LEMMA JoinWeighs ==
  ASSUME accepted \in [Signatures -> SUBSET Nat], NEW acc \in Seq(Entries), NEW group \in OneStep(JobCandidates),
         NEW v \in [JobCandidates -> Nat]
  PROVE  /\ JoinByJira(acc, group) \in Seq(Entries)
         /\ Weight(JoinByJira(acc, group), OfGroups(v)) = Weight(acc, OfGroups(v)) + Weight(group, v)
<1>1. PICK W, Y, shared : W = OfGroups(v) /\ Y = Entries /\ shared = SharedKeys(group)
  OBVIOUS
<1>2. W \in [Y -> Nat] /\ \A e \in Y : W[e] = Weight(e.group, v)
  BY <1>1, OfGroupsWeighs
<1>3. acc \in Seq(Y) /\ group \in Seq(JobCandidates)
  BY <1>1 DEF OneStep, Filled
<1> DEFINE fits == {g \in DOMAIN acc : acc[g].keys \cap shared # {}}
<1>4. CASE fits = {}
  <2>1. PICK e \in Y : e = [group |-> group, keys |-> shared]
    BY <1>1, EntryMade
  <2>2. JoinByJira(acc, group) = Append(acc, e)
    BY <1>1, <1>4, <2>1 DEF JoinByJira
  <2>3. Append(acc, e) \in Seq(Y)
    BY <1>3
  <2>4. Weight(Append(acc, e), W) = Weight(acc, W) + W[e]
    BY <1>2, <1>3, WeightAppend
  <2>5. W[e] = Weight(group, v)
    BY <1>2, <2>1
  <2> QED  BY <1>1, <2>2, <2>3, <2>4, <2>5
<1>5. CASE fits # {}
  <2>1. fits \subseteq Nat
    BY <1>3
  <2>2. PICK k \in DOMAIN acc : k = Min(fits) /\ acc[k].keys \cap shared # {}
    <3>1. Min(fits) \in fits
      <4> HIDE DEF fits
      <4> QED  BY <1>5, <2>1, LeastPlace
    <3> QED  BY <3>1
  <2>3. PICK old \in Y : old = acc[k]
    BY <1>3
  <2>4. PICK e \in Y : e = [group |-> old.group \o group, keys |-> old.keys \cap shared]
    BY <1>1, <2>2, <2>3, EntryWidened
  <2>5. PICK r \in Seq(Y) : r = [acc EXCEPT ![k] = e]
    <3>1. [acc EXCEPT ![k] = e] \in Seq(Y)
      BY <1>3
    <3> QED  BY <3>1
  <2>6. DOMAIN r = DOMAIN acc /\ r[k] = e /\ \A i \in DOMAIN acc \ {k} : r[i] = acc[i]
    BY <1>3, <2>5
  <2>7. JoinByJira(acc, group) = r
    <3>1. JoinByJira(acc, group) = [acc EXCEPT ![k] = [group |-> @.group \o group, keys |-> @.keys \cap shared]]
      BY <1>1, <1>5, <2>2 DEF JoinByJira
    <3> QED  BY <2>3, <2>4, <2>5, <3>1
  <2>8. Weight(r, W) + W[old] = Weight(acc, W) + W[e]
    <3> HIDE DEF fits
    <3>1. W \in [Y -> Nat]
      BY <1>2
    <3>2. Replaced(Y, acc, k, e, r, W)
      BY <1>3, <2>6, <3>1 DEF Replaced
    <3>3. Weight(r, W) + W[acc[k]] = Weight(acc, W) + W[e]
      BY <3>2, WeightReplace
    <3> QED  BY <2>3, <3>3
  <2>9. W[e] = W[old] + Weight(group, v) /\ W[old] \in Nat /\ Weight(group, v) \in Nat
    <3>1. old.group \in Seq(JobCandidates)
      BY <1>1 DEF Entries, Filled
    <3>2. Weight(old.group \o group, v) = Weight(old.group, v) + Weight(group, v)
      BY <1>3, <3>1, WeightConcat
    <3>3. Weight(group, v) \in Nat
      BY <1>3, WeightNat
    <3> QED  BY <1>2, <2>4, <3>2, <3>3
  <2>10. Weight(r, W) \in Nat /\ Weight(acc, W) \in Nat
    BY <1>2, <1>3, WeightNat
  <2>11. Weight(r, W) = Weight(acc, W) + Weight(group, v)
    <3>1. PICK a \in Nat : a = Weight(r, W)
      BY <2>10
    <3>2. PICK b \in Nat : b = Weight(acc, W)
      BY <2>10
    <3>3. PICK c \in Nat : c = W[old]
      BY <2>9
    <3>4. PICK d \in Nat : d = Weight(group, v)
      BY <2>9
    <3>5. a + c = b + (c + d)
      BY <2>8, <2>9, <3>1, <3>2, <3>3, <3>4
    <3>6. a = b + d
      BY <3>5
    <3> QED  BY <3>1, <3>2, <3>4, <3>6
  <2> QED  BY <1>1, <2>7, <2>11
<1> QED  BY <1>4, <1>5

\* The joined groups have what the groups have, each as often.
LEMMA JoinedWeigh ==
  ASSUME accepted \in [Signatures -> SUBSET Nat], NEW items \in Seq(OneStep(JobCandidates)),
         NEW v \in [JobCandidates -> Nat]
  PROVE  /\ FoldLeft(JoinByJira, <<>>, items) \in Seq(Entries)
         /\ Weight(FoldLeft(JoinByJira, <<>>, items), OfGroups(v)) = Weight(items, Each(JobCandidates, v))
<1>0. PICK X, w : X = OneStep(JobCandidates) /\ w = [x \in X |-> Weight(x, v)]
  OBVIOUS
<1>99. items \in Seq(X) /\ w \in [X -> Nat] /\ \A x \in X : w[x] = Weight(x, v) /\ x \in Seq(JobCandidates)
  <2>1. ASSUME NEW x \in X PROVE x \in Seq(JobCandidates) /\ Weight(x, v) \in Nat
    <3>1. x \in Seq(JobCandidates)
      BY <1>0 DEF OneStep, Filled
    <3> QED  BY <3>1, WeightNat
  <2> QED  BY <1>0, <2>1
<1>1. PICK n \in Nat : n = Len(items) /\ DOMAIN items = 1..n /\ \A i \in 1..n : items[i] \in X
  <2>1. Len(items) \in Nat /\ DOMAIN items = 1..Len(items) /\ \A i \in 1..Len(items) : items[i] \in X
    BY <1>99
  <2> QED  BY <2>1
<1>2. /\ \A T \in SUBSET (1..n) : T # {} => Max(T) \in T
      /\ \A m \in 1..n : Max(1..m) = m /\ (1..m) \in SUBSET (1..n) /\ (1..m) \ {Max(1..m)} = 1..(m - 1)
  BY LastPlace, Zenon
<1>3. PICK W : W = OfGroups(v)
  OBVIOUS
<1>4. PICK B : B = Seq(Entries)
  OBVIOUS
<1>5. \A b \in B, x \in X : JoinByJira(b, x) \in B /\ Weight(JoinByJira(b, x), W) = Weight(b, W) + w[x]
  <2>1. SUFFICES ASSUME NEW b \in B, NEW x \in X
        PROVE  JoinByJira(b, x) \in B /\ Weight(JoinByJira(b, x), W) = Weight(b, W) + w[x]
    OBVIOUS
  <2>2. b \in Seq(Entries) /\ x \in OneStep(JobCandidates)
    BY <1>0, <1>4
  <2>3. /\ JoinByJira(b, x) \in Seq(Entries)
        /\ Weight(JoinByJira(b, x), OfGroups(v)) = Weight(b, OfGroups(v)) + Weight(x, v)
    BY <2>2, JoinWeighs
  <2> QED  BY <1>99, <1>3, <1>4, <2>3
<1>6. << >> \in B
  BY <1>4
<1>7. \E g : JoinEquation(items, g)
  <2> DEFINE F == [p \in B \X X |-> JoinByJira(p[1], p[2])]
  <2>1. F \in [B \X X -> B]
    BY <1>5
  <2>2. PICK g \in [SUBSET DOMAIN items -> B] : LeftFolding(items, << >>, F, g)
    <3> HIDE DEF F
    <3> QED  BY <1>99, <1>6, <2>1, LeftFoldExists
  <2>3. ASSUME NEW T \in SUBSET DOMAIN items, T # {}
        PROVE  g[T] = JoinByJira(g[T \ {Max(T)}], items[Max(T)])
    <3>1. g[T] = F[<<g[T \ {Max(T)}], items[Max(T)]>>]
      BY <2>2, <2>3 DEF LeftFolding
    <3>2. T \ {Max(T)} \in SUBSET DOMAIN items /\ Max(T) \in 1..n
      BY <1>1, <1>2, <2>3
    <3>3. g[T \ {Max(T)}] \in B /\ items[Max(T)] \in X
      BY <1>1, <3>2
    <3> QED  BY <3>1, <3>3
  <2>4. g[{}] = << >>
    BY <2>2 DEF LeftFolding
  <2>5. JoinEquation(items, g)
    BY <2>3, <2>4 DEF JoinEquation
  <2> QED  BY <2>5
<1>8. PICK g : g = CHOOSE h : JoinEquation(items, h)
  OBVIOUS
<1>9. JoinEquation(items, g) /\ FoldLeft(JoinByJira, <<>>, items) = g[1..n]
  BY <1>1, <1>7, <1>8, JoinFold
<1>10. g[{}] = << >>
  BY <1>9 DEF JoinEquation
<1>11. ASSUME NEW m \in 1..n PROVE g[1..m] = JoinByJira(g[1..(m - 1)], items[m])
  <2>1. PICK T : T = 1..m
    OBVIOUS
  <2>2. T \in SUBSET DOMAIN items /\ T # {} /\ Max(T) = m /\ T \ {Max(T)} = 1..(m - 1)
    <3>1. T # {} /\ T \in SUBSET (1..n)
      <4>1. m \in T
        BY <2>1
      <4> QED  BY <1>2, <2>1, <4>1
    <3>2. Max(T) = m /\ T \ {Max(T)} = 1..(m - 1)
      BY <1>2, <2>1
    <3> QED  BY <1>1, <3>1, <3>2
  <2>3. g[T] = JoinByJira(g[T \ {Max(T)}], items[Max(T)])
    BY <1>9, <2>2 DEF JoinEquation
  <2> QED  BY <2>1, <2>2, <2>3
<1>12. PICK f : f = [i \in 1..n |-> w[items[i]]]
  OBVIOUS
<1>13. (\A i \in 1..n : f[i] \in Int) /\ Weight(items, w) = SumFunctionOnSet(f, 1..n)
  <2>1. \A i \in DOMAIN items : f[i] = w[items[i]]
    BY <1>1, <1>12
  <2>2. (\A i \in DOMAIN items : f[i] \in Nat) /\ Weight(items, w) = SumFunctionOnSet(f, DOMAIN items)
    <3>1. items \in Seq(X)
      BY <1>99
    <3>2. w \in [X -> Nat]
      BY <1>99
    <3> QED  BY <2>1, <3>1, <3>2, WeightSum
  <2>3. DOMAIN items = 1..n
    BY <1>1
  <2>4. \A i \in 1..n : f[i] \in Nat
    BY <2>2, <2>3, Zenon
  <2>5. \A k \in Nat : k \in Int
    OBVIOUS
  <2> QED  BY <2>2, <2>3, <2>4, <2>5, Zenon
<1>14. PICK V : V = [b \in B |-> Weight(b, W)]
  OBVIOUS
<1>15. g[{}] \in B /\ V[g[{}]] = 0
  BY <1>6, <1>10, <1>14, WeightEmpty
<1>16. ASSUME NEW m \in 1..n, g[1..(m - 1)] \in B
       PROVE  g[1..m] \in B /\ V[g[1..m]] = V[g[1..(m - 1)]] + f[m]
  <2>1. PICK b \in B : b = g[1..(m - 1)]
    BY <1>16
  <2>2. JoinByJira(b, items[m]) \in B /\ Weight(JoinByJira(b, items[m]), W) = Weight(b, W) + w[items[m]]
    BY <1>1, <1>5
  <2>3. g[1..m] = JoinByJira(b, items[m])
    BY <1>11, <2>1
  <2> QED  BY <1>12, <1>14, <2>1, <2>2, <2>3
<1>17. g[1..n] \in B /\ V[g[1..n]] = SumFunctionOnSet(f, 1..n)
  <2>1. \A m \in 1..n : g[1..(m - 1)] \in B => g[1..m] \in B /\ V[g[1..m]] = V[g[1..(m - 1)]] + f[m]
    BY <1>16
  <2>2. \A i \in 1..n : f[i] \in Int
    BY <1>13
  <2>3. Grows(n, f, B, V, g)
    BY <1>15, <2>1, <2>2 DEF Grows
  <2> QED  BY <2>3, PrefixSum
<1>18. PICK I : I = Each(JobCandidates, v)
  OBVIOUS
<1>19. PICK Z : Z = Seq(JobCandidates)
  OBVIOUS
<1>20. I \in [Z -> Nat] /\ \A s \in Z : I[s] = Weight(s, v)
  BY <1>18, <1>19, EachWeighs
<1>21. AlikeByPlace(Z, items, I, X, items, w)
  <2>1. \A x \in X : x \in Z
    BY <1>99, <1>19
  <2>2. items \in Seq(Z)
    BY <1>99, <2>1
  <2>3. \A i \in DOMAIN items : items[i] \in X
    BY <1>99
  <2>4. \A i \in DOMAIN items : w[items[i]] = I[items[i]]
    BY <1>99, <1>20, <2>1, <2>3
  <2> QED  BY <1>99, <1>20, <2>2, <2>4 DEF AlikeByPlace
<1>22. Weight(items, w) = Weight(items, I)
  BY <1>21, WeightSame
<1> QED  BY <1>3, <1>4, <1>9, <1>13, <1>14, <1>17, <1>18, <1>22
\* Candidates that share their step or an accepted key.
Coherent(group) ==
  \/ \A a, b \in ToSet(group) : Step(a) = Step(b)
  \/ \E k \in Nat : \A m \in ToSet(group) : k \in accepted[m.sig]

MergedRecords == {MergedCandidate(g) : g \in {h \in Filled(JobCandidates) : Coherent(h)}}

\* What the jobs of a merged candidate weigh.
OfMerged(w) == [c \in MergedRecords |-> Weight(c.jobs, w)]

LEMMA FirstPlace ==
  ASSUME NEW X, NEW s \in Filled(X)
  PROVE  s \in Seq(X) /\ 1 \in DOMAIN s /\ \E n \in Nat \ {0} : DOMAIN s = 1..n /\ \A i \in 1..n : s[i] \in X
<1>1. s \in Seq(X) /\ s # << >>
  BY DEF Filled
<1>2. Len(s) \in Nat /\ DOMAIN s = 1..Len(s) /\ \A i \in 1..Len(s) : s[i] \in X
  BY <1>1
<1>3. Len(s) # 0
  BY <1>1
<1>4. PICK n \in Nat \ {0} : n = Len(s)
  BY <1>2, <1>3
<1>5. DOMAIN s = 1..n /\ \A i \in 1..n : s[i] \in X
  BY <1>2, <1>4
<1>6. 1 \in DOMAIN s
  BY <1>5
<1> QED  BY <1>1, <1>5, <1>6

LEMMA MergedJobsWeigh ==
  ASSUME NEW group \in Filled(JobCandidates)
  PROVE  /\ MergedCandidate(group).jobs \in Filled(FailedJobs)
         /\ \A w \in [FailedJobs -> Nat] : Weight(MergedCandidate(group).jobs, w) = Weight(group, OfJobs(w))
<1>1. PICK n \in Nat \ {0} : DOMAIN group = 1..n /\ \A i \in 1..n : group[i] \in JobCandidates
  BY FirstPlace
<1>2. PICK J : J = [i \in 1..n |-> group[i].jobs]
  OBVIOUS
<1>3. \A i \in 1..n : J[i] \in Filled(FailedJobs)
  BY <1>1, <1>2 DEF JobCandidates
<1>4. PICK Z : Z = Seq(FailedJobs)
  OBVIOUS
<1>5. J \in Seq(Z)
  <2>1. \A i \in 1..n : J[i] \in Z
    BY <1>3, <1>4 DEF Filled
  <2>2. J \in [1..n -> Z]
    BY <1>2, <2>1
  <2> QED  BY <2>2
<1>6. MergedCandidate(group).jobs = FlattenSeq(J)
  BY <1>1, <1>2 DEF MergedCandidate
<1>7. FlattenSeq(J) \in Seq(FailedJobs) /\ ToSet(FlattenSeq(J)) = UNION {ToSet(J[k]) : k \in DOMAIN J}
  BY <1>4, <1>5, Flattened
<1>8. FlattenSeq(J) # << >>
  <2>1. 1 \in DOMAIN J /\ 1 \in DOMAIN J[1]
    <3>1. 1 \in 1..n
      OBVIOUS
    <3> QED  BY <1>2, <1>3, <3>1, FirstPlace
  <2>2. J[1][1] \in ToSet(J[1])
    BY <2>1 DEF ToSet
  <2>3. ToSet(FlattenSeq(J)) # {}
    BY <1>7, <2>1, <2>2
  <2>4. ToSet(<< >>) = {}
    BY DEF ToSet
  <2> QED  BY <2>3, <2>4
<1>9. ASSUME NEW w \in [FailedJobs -> Nat] PROVE Weight(FlattenSeq(J), w) = Weight(group, OfJobs(w))
  <2>1. PICK W, U, X : W = Each(FailedJobs, w) /\ U = OfJobs(w) /\ X = JobCandidates
    OBVIOUS
  <2>2. W \in [Z -> Nat] /\ \A s \in Z : W[s] = Weight(s, w)
    BY <1>4, <2>1, EachWeighs
  <2>3. U \in [X -> Nat] /\ \A c \in X : U[c] = Weight(c.jobs, w)
    BY <2>1, OfJobsWeighs
  <2>4. Weight(FlattenSeq(J), w) = Weight(J, W)
    BY <1>4, <1>5, <2>1, WeightFlatten
  <2>5. AlikeByPlace(X, group, U, Z, J, W)
    <3>1. group \in Seq(X)
      BY <2>1, FirstPlace
    <3>2. DOMAIN J = DOMAIN group
      BY <1>1, <1>2
    <3>3. ASSUME NEW i \in DOMAIN group PROVE W[J[i]] = U[group[i]]
      <4>1. J[i] = group[i].jobs /\ J[i] \in Z /\ group[i] \in X
        BY <1>1, <1>2, <1>3, <1>4, <2>1 DEF Filled
      <4> QED  BY <2>2, <2>3, <4>1
    <3> QED  BY <1>5, <2>2, <2>3, <3>1, <3>2, <3>3 DEF AlikeByPlace
  <2>6. Weight(J, W) = Weight(group, U)
    BY <2>5, WeightSame
  <2> QED  BY <2>1, <2>4, <2>6
<1> QED  BY <1>6, <1>7, <1>8, <1>9 DEF Filled

\* A merged candidate is typed, and signed as one of its members.
LEMMA MergedTyped ==
  ASSUME CorrelationAssumption, NEW group \in Filled(JobCandidates)
  PROVE  /\ MergedCandidate(group).severity \in Severities
         /\ MergedCandidate(group).sig \in Signatures
         /\ MergedCandidate(group).type \in Layers
         /\ Rank(MergedCandidate(group)) \in Int
<1>1. PICK n \in Nat \ {0} : DOMAIN group = 1..n /\ \A i \in 1..n : group[i] \in JobCandidates
  BY FirstPlace
<1>2. PICK a : a = [i \in 1..n |-> CandidateWeight(group[i])]
  OBVIOUS
<1>3. \A c \in JobCandidates : c.severity \in 1..5 /\ Len(c.jobs) \in Nat /\ c.sig \in Signatures
  <2>1. \A c \in JobCandidates : c.severity \in 1..5 /\ c.jobs \in Seq(FailedJobs) /\ c.sig \in Signatures
    BY DEF JobCandidates, Filled, Severities
  <2>2. \A s \in Seq(FailedJobs) : Len(s) \in Nat
    OBVIOUS
  <2> QED  BY <2>1, <2>2
<1>4. \A i \in 1..n : CandidateWeight(group[i]) \in Int
  <2>1. \A i \in 1..5, j, k \in Nat : 1000 * i + 100 * j + k \in Int
    OBVIOUS
  <2>2. \A s \in Signatures : s \in Nat
    BY DEF CorrelationAssumption
  <2>3. SUFFICES ASSUME NEW i \in 1..n PROVE CandidateWeight(group[i]) \in Int
    OBVIOUS
  <2>4. PICK c \in JobCandidates : c = group[i]
    BY <1>1
  <2>5. c.severity \in 1..5 /\ Len(c.jobs) \in Nat /\ c.sig \in Nat
    BY <1>3, <2>2
  <2>6. 1000 * c.severity + 100 * Len(c.jobs) + c.sig \in Int
    <3>1. PICK x \in 1..5, y \in Nat, z \in Nat : x = c.severity /\ y = Len(c.jobs) /\ z = c.sig
      BY <2>5
    <3>2. 1000 * x + 100 * y + z \in Int
      OBVIOUS
    <3> QED  BY <3>1, <3>2
  <2> QED  BY <2>4, <2>6 DEF CandidateWeight
<1>5. a \in [1..n -> Int]
  BY <1>2, <1>4
<1>6. PICK rep \in JobCandidates : rep = Representative(group, CandidateWeight)
  <2>1. Min({i \in 1..n : \A j \in 1..n : a[i] >= a[j]}) \in 1..n
    BY <1>5, HeaviestFirst
  <2>2. {i \in 1..n : \A j \in 1..n : a[i] >= a[j]}
          = {i \in DOMAIN group : \A j \in DOMAIN group : CandidateWeight(group[i]) >= CandidateWeight(group[j])}
    BY <1>1, <1>2
  <2>3. Representative(group, CandidateWeight) \in JobCandidates
    BY <1>1, <2>1, <2>2 DEF Representative
  <2> QED  BY <2>3
<1>7. MaxSeverity(group) \in Severities
  <2>1. \A x \in JobCandidates : x.severity \in Severities
    BY DEF JobCandidates
  <2> QED  BY <2>1, SeverityInRange
<1>8. /\ MergedCandidate(group).severity \in Severities
      /\ MergedCandidate(group).sig \in Signatures
      /\ MergedCandidate(group).type \in Layers
  BY <1>6, <1>7 DEF MergedCandidate, JobCandidates
<1>9. Rank(MergedCandidate(group)) \in Int
  <2>1. PICK c : c = MergedCandidate(group)
    OBVIOUS
  <2>2. c.jobs \in Seq(FailedJobs)
    BY <2>1, MergedJobsWeigh DEF Filled
  <2>3. Len(c.jobs) \in Nat
    BY <2>2
  <2>4. c.severity \in 1..5 /\ c.sig \in Nat
    BY <1>8, <2>1 DEF Severities, CorrelationAssumption
  <2>5. \A i \in 1..5, j, k \in Nat : 1000 * i + 100 * j - k \in Int
    OBVIOUS
  <2> QED  BY <2>1, <2>3, <2>4, <2>5, SMTT(30) DEF Rank
<1> QED  BY <1>8, <1>9
LEMMA OfMergedWeighs ==
  ASSUME NEW w \in [FailedJobs -> Nat]
  PROVE  OfMerged(w) \in [MergedRecords -> Nat] /\ \A c \in MergedRecords : OfMerged(w)[c] = Weight(c.jobs, w)
<1>1. ASSUME NEW c \in MergedRecords PROVE Weight(c.jobs, w) \in Nat
  <2>1. PICK g \in Filled(JobCandidates) : c = MergedCandidate(g)
    BY DEF MergedRecords
  <2>2. c.jobs \in Seq(FailedJobs)
    BY <2>1, MergedJobsWeigh DEF Filled
  <2> QED  BY <2>2, WeightNat
<1> QED  BY <1>1 DEF OfMerged

\* The group of an entry is coherent.
LEMMA EntryCoherent ==
  ASSUME NEW e \in Entries
  PROVE  e.group \in Filled(JobCandidates) /\ Coherent(e.group)
<1>1. /\ e.group \in Filled(JobCandidates) /\ e.keys \in SUBSET Nat
      /\ \A m \in ToSet(e.group) : e.keys \subseteq accepted[m.sig]
      /\ e.keys # {} \/ \A a, b \in ToSet(e.group) : Step(a) = Step(b)
  BY DEF Entries
<1>2. CASE e.keys = {}
  BY <1>1, <1>2 DEF Coherent
<1>3. CASE e.keys # {}
  <2>1. PICK k \in Nat : k \in e.keys
    BY <1>1, <1>3
  <2>2. \A m \in ToSet(e.group) : k \in accepted[m.sig]
    BY <1>1, <2>1
  <2> QED  BY <1>1, <2>2 DEF Coherent
<1> QED  BY <1>2, <1>3

\* A list of lists by source.
LEMMA BySource ==
  ASSUME CorrelationAssumption, NEW X, NEW lists, \A s \in BugSources : lists[s] \in Seq(X)
  PROVE  LET L == [i \in DOMAIN SourceOrder |-> lists[SourceOrder[i]]]
         IN  /\ L \in Seq(Seq(X)) /\ FlattenSeq(L) \in Seq(X)
             /\ \A w \in [X -> Nat] : Weight(FlattenSeq(L), w) = Weight(L, Each(X, w))
<1>1. PICK L : L = [i \in DOMAIN SourceOrder |-> lists[SourceOrder[i]]]
  OBVIOUS
<1>2. SourceOrder \in Seq(BugSources)
  BY DEF CorrelationAssumption
<1>3. PICK n \in Nat : DOMAIN SourceOrder = 1..n /\ \A i \in 1..n : SourceOrder[i] \in BugSources
  <2>1. Len(SourceOrder) \in Nat /\ DOMAIN SourceOrder = 1..Len(SourceOrder)
        /\ \A i \in 1..Len(SourceOrder) : SourceOrder[i] \in BugSources
    BY <1>2
  <2> QED  BY <2>1
<1>4. PICK Z : Z = Seq(X)
  OBVIOUS
<1>5. L \in [1..n -> Z]
  BY <1>1, <1>3, <1>4
<1>6. L \in Seq(Z)
  BY <1>5
<1>7. FlattenSeq(L) \in Seq(X)
  BY <1>4, <1>6, Flattened
<1>8. \A w \in [X -> Nat] : Weight(FlattenSeq(L), w) = Weight(L, Each(X, w))
  BY <1>4, <1>6, WeightFlatten
<1> QED  BY <1>1, <1>4, <1>6, <1>7, <1>8

\* Merged candidates are coherent, and have the failed jobs of the candidates.
LEMMA MergeWeighs ==
  ASSUME CorrelationAssumption, accepted \in [Signatures -> SUBSET Nat],
         \A s \in BugSources : candidates[s] \in Seq(JobCandidates)
  PROVE  /\ MergeCandidates \in Seq(MergedRecords)
         /\ \A w \in [FailedJobs -> Nat] : Weight(MergeCandidates, OfMerged(w)) = Weight(AllCandidates, OfJobs(w))
<1>1. PICK all \in Seq(JobCandidates) : all = AllCandidates
  BY BySource DEF AllCandidates
<1>2. PICK groups : groups = GroupBySignature(all)
  OBVIOUS
<1>3. /\ groups \in Seq(OneStep(JobCandidates))
      /\ \A v \in [JobCandidates -> Nat] : Weight(groups, Each(JobCandidates, v)) = Weight(all, v)
  <2>1. PICK v : v = [y \in JobCandidates |-> 0]
    OBVIOUS
  <2>2. v \in [JobCandidates -> Nat]
    BY <2>1
  <2>3. groups \in Seq(OneStep(JobCandidates))
    BY <1>2, <2>2, GroupsWeigh
  <2> QED  BY <1>2, <2>3, GroupsWeigh
<1>4. PICK joined : joined = FoldLeft(JoinByJira, <<>>, groups)
  OBVIOUS
<1>5. /\ joined \in Seq(Entries)
      /\ \A v \in [JobCandidates -> Nat] : Weight(joined, OfGroups(v)) = Weight(all, v)
  <2>1. PICK v : v = [y \in JobCandidates |-> 0]
    OBVIOUS
  <2>2. v \in [JobCandidates -> Nat]
    BY <2>1
  <2>3. joined \in Seq(Entries)
    BY <1>3, <1>4, <2>2, JoinedWeigh
  <2> QED  BY <1>3, <1>4, <2>3, JoinedWeigh
<1>6. PICK n \in Nat : DOMAIN joined = 1..n /\ \A i \in 1..n : joined[i] \in Entries
  <2>1. Len(joined) \in Nat /\ DOMAIN joined = 1..Len(joined) /\ \A i \in 1..Len(joined) : joined[i] \in Entries
    BY <1>5
  <2> QED  BY <2>1
<1>7. PICK new : new = [i \in 1..n |-> MergedCandidate(joined[i].group)]
  OBVIOUS
<1>8. \A i \in 1..n : new[i] \in MergedRecords
  BY <1>6, <1>7, EntryCoherent DEF MergedRecords
<1>9. PICK M : M = MergedRecords
  OBVIOUS
<1>10. new \in Seq(M)
  <2>1. new \in [1..n -> M]
    BY <1>7, <1>8, <1>9
  <2> QED  BY <2>1
<1>11. PICK t : t = Arranged(new, Precedes)
  OBVIOUS
<1>12. MergeCandidates = t
  <2>1. MergeGroupsByJira(groups) = [i \in 1..n |-> joined[i].group]
    BY <1>4, <1>6 DEF MergeGroupsByJira
  <2>2. new = [i \in DOMAIN MergeGroupsByJira(groups) |-> MergedCandidate(MergeGroupsByJira(groups)[i])]
    BY <1>7, <2>1
  <2> QED  BY <1>1, <1>2, <1>11, <2>2 DEF MergeCandidates
<1>13. \A c \in M : Rank(c) \in Int
  BY <1>9, MergedTyped DEF MergedRecords
<1>14. t \in Seq(M) /\ \E p \in Bijection(DOMAIN t, DOMAIN new) : \A i \in DOMAIN t : t[i] = new[p[i]]
  BY <1>10, <1>11, <1>13, ArrangedCandidates
<1>15. ASSUME NEW w \in [FailedJobs -> Nat] PROVE Weight(t, OfMerged(w)) = Weight(all, OfJobs(w))
  <2>1. PICK U, v, W, E : U = OfMerged(w) /\ v = OfJobs(w) /\ W = OfGroups(v) /\ E = Entries
    OBVIOUS
  <2>2. U \in [M -> Nat] /\ \A c \in M : U[c] = Weight(c.jobs, w)
    BY <1>9, <2>1, OfMergedWeighs
  <2>3. v \in [JobCandidates -> Nat]
    BY <2>1, OfJobsWeighs
  <2>4. W \in [E -> Nat] /\ \A e \in E : W[e] = Weight(e.group, v)
    BY <2>1, <2>3, OfGroupsWeighs
  <2>5. Weight(t, U) = Weight(new, U)
    <3>1. PICK p \in Bijection(DOMAIN t, DOMAIN new) : \A i \in DOMAIN t : t[i] = new[p[i]]
      BY <1>14
    <3>2. t \in Seq(M) /\ new \in Seq(M)
      BY <1>10, <1>14
    <3>3. U \in [M -> Nat]
      BY <2>2
    <3> QED  BY <3>1, <3>2, <3>3, WeightMoved, ZenonT(30)
  <2>6. AlikeByPlace(E, joined, W, M, new, U)
    <3>1. joined \in Seq(E) /\ DOMAIN new = DOMAIN joined
      BY <1>5, <1>6, <1>7, <2>1
    <3>2. ASSUME NEW i \in DOMAIN joined PROVE U[new[i]] = W[joined[i]]
      <4>1. joined[i] \in E /\ new[i] \in M /\ new[i] = MergedCandidate(joined[i].group)
        BY <1>6, <1>7, <1>8, <1>9, <2>1
      <4>2. joined[i].group \in Filled(JobCandidates)
        BY <2>1, <4>1, EntryCoherent
      <4>3. Weight(new[i].jobs, w) = Weight(joined[i].group, v)
        BY <2>1, <4>1, <4>2, MergedJobsWeigh
      <4> QED  BY <2>2, <2>4, <4>1, <4>3
    <3> QED  BY <1>10, <2>2, <2>4, <3>1, <3>2 DEF AlikeByPlace
  <2>7. Weight(new, U) = Weight(joined, W)
    BY <2>6, WeightSame
  <2> QED  BY <1>5, <2>1, <2>3, <2>5, <2>7
<1> QED  BY <1>1, <1>9, <1>12, <1>14, <1>15
\* All sources together, the candidates have the failed jobs, each as often.
LEMMA SourcesWeigh ==
  ASSUME CorrelationAssumption, \A s \in BugSources : failed[s] \in Seq(FailedJobs),
         \A s \in BugSources : candidates[s] \in Seq(JobCandidates),
         NEW w \in [FailedJobs -> Nat], \A s \in BugSources : Weight(candidates[s], OfJobs(w)) = Weight(failed[s], w)
  PROVE  Weight(AllCandidates, OfJobs(w)) = Weight(AllJobs, w)
<1>1. PICK X, Y, v, V, W : X = Seq(JobCandidates) /\ Y = Seq(FailedJobs) /\ v = OfJobs(w)
                           /\ V = Each(JobCandidates, v) /\ W = Each(FailedJobs, w)
  OBVIOUS
<1>2. v \in [JobCandidates -> Nat]
  BY <1>1, OfJobsWeighs
<1>3. V \in [X -> Nat] /\ \A s \in X : V[s] = Weight(s, v)
  BY <1>1, <1>2, EachWeighs
<1>4. W \in [Y -> Nat] /\ \A s \in Y : W[s] = Weight(s, w)
  BY <1>1, EachWeighs
<1>5. PICK C : C = [i \in DOMAIN SourceOrder |-> candidates[SourceOrder[i]]]
  OBVIOUS
<1>6. PICK F : F = [i \in DOMAIN SourceOrder |-> failed[SourceOrder[i]]]
  OBVIOUS
<1>7. C \in Seq(X) /\ Weight(AllCandidates, v) = Weight(C, V)
  BY <1>1, <1>2, <1>5, BySource DEF AllCandidates
<1>8. F \in Seq(Y) /\ Weight(AllJobs, w) = Weight(F, W)
  BY <1>1, <1>6, BySource DEF AllJobs
<1>9. AlikeByPlace(Y, F, W, X, C, V)
  <2>1. DOMAIN C = DOMAIN F
    BY <1>5, <1>6
  <2>2. ASSUME NEW i \in DOMAIN F PROVE V[C[i]] = W[F[i]]
    <3>1. SourceOrder \in Seq(BugSources) /\ i \in DOMAIN SourceOrder
      BY <1>6 DEF CorrelationAssumption
    <3>2. PICK s \in BugSources : s = SourceOrder[i]
      BY <3>1
    <3>3. C[i] = candidates[s] /\ F[i] = failed[s]
      BY <1>5, <1>6, <3>1, <3>2
    <3>4. Weight(candidates[s], v) = Weight(failed[s], w) /\ candidates[s] \in X /\ failed[s] \in Y
      BY <1>1
    <3> QED  BY <1>3, <1>4, <3>3, <3>4
  <2> QED  BY <1>3, <1>4, <1>7, <1>8, <2>1, <2>2 DEF AlikeByPlace
<1>10. Weight(C, V) = Weight(F, W)
  BY <1>9, WeightSame
<1> QED  BY <1>1, <1>7, <1>8, <1>10

\* The candidates of a source, the merged candidates, and the decisions.
SourcesPrepared ==
  \A s \in BugSources :
    /\ candidates[s] \in Seq(JobCandidates)
    /\ \A i \in DOMAIN candidates[s] : candidates[s][i].source = s
    /\ pipeline # "prepare" => \A w \in [FailedJobs -> Nat] : Weight(candidates[s], OfJobs(w)) = Weight(failed[s], w)

MergedAll ==
  /\ merged \in Seq(MergedRecords)
  /\ pipeline \notin {"prepare", "merge"} =>
       \A w \in [FailedJobs -> Nat] : Weight(merged, OfMerged(w)) = Weight(AllJobs, w)

Decided ==
  IF pipeline \in {"prepare", "merge", "categorize"} THEN results = <<>>
  ELSE results = [i \in DOMAIN merged |-> [sig |-> merged[i].sig, decision |-> CategorizeCandidate(merged[i])]]

CorrelationInv ==
  /\ pipeline \in {"prepare", "merge", "categorize", "validate", "accepted", "rejected"}
  /\ failed \in [BugSources -> Seq(FailedJobs)]
  /\ accepted \in [Signatures -> SUBSET Nat] /\ fixed \in [Signatures -> SUBSET Nat]
  /\ \A s \in Signatures : IsFiniteSet(fixed[s])
  /\ SourcesPrepared /\ MergedAll /\ Decided

LEMMA Steady ==
  ASSUME UNCHANGED <<failed, accepted, fixed>>
  PROVE  /\ MergedRecords' = MergedRecords
         /\ \A w : OfMerged(w)' = OfMerged(w)
         /\ AllJobs' = AllJobs
BY DEF MergedRecords, MergedCandidate, Coherent, OfMerged, AllJobs

LEMMA CorrelationInitially == CorrelationAssumption /\ InitCorrelation => CorrelationInv
<1> SUFFICES ASSUME CorrelationAssumption, InitCorrelation PROVE CorrelationInv
  OBVIOUS
<1>1. /\ pipeline = "prepare" /\ results = <<>> /\ merged = <<>>
      /\ failed \in [BugSources -> Seq(FailedJobs)]
      /\ accepted \in [Signatures -> SUBSET Nat] /\ fixed \in [Signatures -> SUBSET Nat]
      /\ \A s \in Signatures : IsFiniteSet(fixed[s])
  BY DEF InitCorrelation, CorrelationAssumption
<1>2. \A s \in BugSources : candidates[s] = <<>>
  BY DEF InitCorrelation
<1>3. << >> \in Seq(JobCandidates) /\ DOMAIN << >> = {} /\ << >> \in Seq(MergedRecords)
  OBVIOUS
<1>4. SourcesPrepared
  BY <1>1, <1>2, <1>3 DEF SourcesPrepared
<1> QED  BY <1>1, <1>3, <1>4 DEF CorrelationInv, MergedAll, Decided
LEMMA CorrelationStepKeeps == CorrelationAssumption /\ CorrelationInv /\ [CorrelationStep]_correlationVars => CorrelationInv'
<1> SUFFICES ASSUME CorrelationAssumption, CorrelationInv, [CorrelationStep]_correlationVars PROVE CorrelationInv'
  OBVIOUS
<1>1. UNCHANGED <<failed, accepted, fixed>>
  BY DEF CorrelationStep, Prepare, Merge, CategorizeMerged, Validate, correlationVars
<1>2. /\ MergedRecords' = MergedRecords
      /\ \A w : OfMerged(w)' = OfMerged(w)
      /\ AllJobs' = AllJobs
  BY <1>1, Steady
<1>3. /\ failed \in [BugSources -> Seq(FailedJobs)]
      /\ accepted \in [Signatures -> SUBSET Nat] /\ fixed \in [Signatures -> SUBSET Nat]
      /\ \A s \in Signatures : IsFiniteSet(fixed[s])
      /\ pipeline \in {"prepare", "merge", "categorize", "validate", "accepted", "rejected"}
      /\ SourcesPrepared /\ MergedAll /\ Decided
  BY DEF CorrelationInv
<1>4. /\ failed' \in [BugSources -> Seq(FailedJobs)]
      /\ accepted' \in [Signatures -> SUBSET Nat] /\ fixed' \in [Signatures -> SUBSET Nat]
      /\ \A s \in Signatures : IsFiniteSet(fixed'[s])
      /\ pipeline' \in {"prepare", "merge", "categorize", "validate", "accepted", "rejected"}
  <2>1. pipeline' \in {"prepare", "merge", "categorize", "validate", "accepted", "rejected"}
    BY <1>3 DEF CorrelationStep, Prepare, Merge, CategorizeMerged, Validate, correlationVars
  <2> QED  BY <1>1, <1>3, <2>1
<1>5. SUFFICES SourcesPrepared' /\ MergedAll' /\ Decided'
  BY <1>4 DEF CorrelationInv
\* What a step that leaves them alone keeps.
<1>6. ASSUME UNCHANGED candidates, pipeline # "prepare" PROVE SourcesPrepared'
  BY <1>1, <1>3, <1>6 DEF SourcesPrepared
<1>7. ASSUME UNCHANGED merged, pipeline' \notin {"prepare", "merge"} => pipeline \notin {"prepare", "merge"}
      PROVE  MergedAll'
  BY <1>2, <1>3, <1>7 DEF MergedAll
<1>8. CASE Prepare
  <2>1. pipeline = "prepare" /\ pipeline' = "merge" /\ merged' = merged /\ results' = results
        /\ \A s \in BugSources : candidates'[s] = BuildCandidates(s)
    BY <1>8 DEF Prepare
  <2>2. SourcesPrepared'
    <3>1. \A s \in BugSources : failed[s] \in Seq(FailedJobs)
      BY <1>3
    <3>2. SUFFICES ASSUME NEW s \in BugSources
          PROVE  /\ candidates'[s] \in Seq(JobCandidates)
                 /\ \A i \in DOMAIN candidates'[s] : candidates'[s][i].source = s
                 /\ \A w \in [FailedJobs -> Nat] : Weight(candidates'[s], OfJobs(w)) = Weight(failed'[s], w)
      BY DEF SourcesPrepared
    <3>3. PICK t : t = BuildCandidates(s)
      OBVIOUS
    <3>4. /\ t \in Seq(JobCandidates) /\ \A i \in DOMAIN t : t[i].source = s
          /\ \A w \in [FailedJobs -> Nat] : Weight(t, OfJobs(w)) = Weight(failed[s], w)
      BY <3>1, <3>3, CandidatesWeigh
    <3> QED  BY <1>1, <2>1, <3>3, <3>4
  <2>3. Decided'
    BY <1>3, <2>1 DEF Decided
  <2> QED  BY <1>7, <2>1, <2>2, <2>3
<1>9. CASE Merge
  <2>1. pipeline = "merge" /\ pipeline' = "categorize" /\ candidates' = candidates /\ results' = results
        /\ merged' = MergeCandidates
    BY <1>9 DEF Merge
  <2>2. \A s \in BugSources : candidates[s] \in Seq(JobCandidates) /\ failed[s] \in Seq(FailedJobs)
    BY <1>3 DEF SourcesPrepared
  <2>3. MergedAll'
    <3>1. /\ MergeCandidates \in Seq(MergedRecords)
          /\ \A w \in [FailedJobs -> Nat] : Weight(MergeCandidates, OfMerged(w)) = Weight(AllCandidates, OfJobs(w))
      BY <1>3, <2>2, MergeWeighs
    <3>2. ASSUME NEW w \in [FailedJobs -> Nat] PROVE Weight(AllCandidates, OfJobs(w)) = Weight(AllJobs, w)
      <4>1. \A s \in BugSources : Weight(candidates[s], OfJobs(w)) = Weight(failed[s], w)
        BY <1>3, <2>1 DEF SourcesPrepared
      <4> QED  BY <2>2, <4>1, SourcesWeigh
    <3> QED  BY <1>2, <2>1, <3>1, <3>2 DEF MergedAll
  <2>4. Decided'
    BY <1>3, <2>1 DEF Decided
  <2> QED  BY <1>6, <2>1, <2>3, <2>4
<1>10. CASE CategorizeMerged
  <2>1. pipeline = "categorize" /\ pipeline' = "validate" /\ candidates' = candidates /\ merged' = merged
        /\ results' = [i \in DOMAIN merged |-> [sig |-> merged[i].sig, decision |-> CategorizeCandidate(merged[i])]]
    BY <1>10 DEF CategorizeMerged
  <2>2. Decided'
    BY <2>1 DEF Decided, CategorizeCandidate, MayPostdateFix
  <2> QED  BY <1>6, <1>7, <2>1, <2>2
<1>11. CASE Validate
  <2>1. pipeline = "validate" /\ pipeline' \in {"rejected", "accepted"} /\ candidates' = candidates
        /\ merged' = merged /\ results' = results
    BY <1>11 DEF Validate
  <2>2. Decided'
    BY <1>3, <2>1 DEF Decided
  <2> QED  BY <1>6, <1>7, <2>1, <2>2
<1>12. CASE UNCHANGED correlationVars
  <2>1. pipeline' = pipeline /\ candidates' = candidates /\ merged' = merged /\ results' = results /\ failed' = failed
    BY <1>12 DEF correlationVars
  <2>2. SourcesPrepared' /\ Decided'
    BY <1>3, <2>1 DEF SourcesPrepared, Decided
  <2> QED  BY <1>7, <2>1, <2>2
<1> QED  BY <1>8, <1>9, <1>10, <1>11, <1>12 DEF CorrelationStep

\* A merged candidate, from its group.
LEMMA MergedFields ==
  ASSUME CorrelationAssumption, CorrelationInv, NEW c \in MergedRecords
  PROVE  /\ c.severity \in Severities /\ c.jobs \in Filled(FailedJobs) /\ c.type \in Layers
         /\ c.duplicates \in SUBSET Nat
         /\ c.regressions \in SUBSET Nat /\ IsFiniteSet(c.regressions)
         /\ \A fix \in c.regressions : \E m \in ToSet(c.members) : fix \in fixed[m.sig]
         /\ \/ \A a, b \in ToSet(c.members) : Step(a) = Step(b)
            \/ \E k \in c.duplicates : \A m \in ToSet(c.members) : k \in accepted[m.sig]
<1>1. PICK g \in Filled(JobCandidates) : c = MergedCandidate(g) /\ Coherent(g)
  BY DEF MergedRecords
<1>2. PICK n \in Nat \ {0} : DOMAIN g = 1..n /\ \A i \in 1..n : g[i] \in JobCandidates
  BY FirstPlace
<1>3. \A i \in 1..n : g[i].sig \in Signatures
  BY <1>2 DEF JobCandidates
<1>4. c.severity \in Severities /\ c.jobs \in Filled(FailedJobs) /\ c.type \in Layers
  BY <1>1, MergedTyped, MergedJobsWeigh
<1>5. /\ c.members = g
      /\ c.duplicates = UNION {accepted[g[i].sig] : i \in 1..n}
      /\ c.regressions = UNION {fixed[g[i].sig] : i \in 1..n}
  BY <1>1, <1>2 DEF MergedCandidate
<1>6. /\ accepted \in [Signatures -> SUBSET Nat] /\ fixed \in [Signatures -> SUBSET Nat]
      /\ \A s \in Signatures : IsFiniteSet(fixed[s])
  BY DEF CorrelationInv
<1>7. c.duplicates \in SUBSET Nat /\ c.regressions \in SUBSET Nat
  BY <1>3, <1>5, <1>6
<1>8. IsFiniteSet(c.regressions)
  <2>1. PICK R : R = {fixed[g[i].sig] : i \in 1..n}
    OBVIOUS
  <2>2. IsFiniteSet(R)
    <3>1. IsFiniteSet(1..n)
      <4>1. 1 \in Int /\ n \in Int
        OBVIOUS
      <4> QED  BY <4>1, FS_Interval
    <3>2. PICK h : h = [i \in 1..n |-> fixed[g[i].sig]]
      OBVIOUS
    <3>3. h \in Surjection(1..n, R)
      BY <2>1, <3>2 DEF Surjection
    <3> QED  BY <3>1, <3>3, FS_Surjection
  <2>3. \A r \in R : IsFiniteSet(r)
    BY <1>3, <1>6, <2>1
  <2>4. IsFiniteSet(UNION R)
    BY <2>2, <2>3, FS_UNION
  <2> QED  BY <1>5, <2>1, <2>4
<1>9. \A fix \in c.regressions : \E m \in ToSet(c.members) : fix \in fixed[m.sig]
  <2>1. \A i \in 1..n : g[i] \in ToSet(c.members)
    BY <1>2, <1>5 DEF ToSet
  <2> QED  BY <1>5, <2>1
<1>10. \/ \A a, b \in ToSet(c.members) : Step(a) = Step(b)
       \/ \E k \in c.duplicates : \A m \in ToSet(c.members) : k \in accepted[m.sig]
  <2>1. CASE \A a, b \in ToSet(g) : Step(a) = Step(b)
    BY <1>5, <2>1
  <2>2. CASE \E k \in Nat : \A m \in ToSet(g) : k \in accepted[m.sig]
    <3>1. PICK k \in Nat : \A m \in ToSet(g) : k \in accepted[m.sig]
      BY <2>2
    <3>2. 1 \in 1..n /\ g[1] \in ToSet(g)
      BY <1>2 DEF ToSet
    <3>3. k \in c.duplicates
      BY <1>5, <3>1, <3>2
    <3> QED  BY <1>5, <3>1, <3>3
  <2> QED  BY <1>1, <2>1, <2>2 DEF Coherent
<1> QED  BY <1>4, <1>7, <1>8, <1>9, <1>10
LEMMA CorrelationAlways == ASSUME CorrelationAssumption PROVE CorrelationSpec => []CorrelationInv
<1>1. InitCorrelation => CorrelationInv
  BY CorrelationInitially
<1>2. CorrelationInv /\ [CorrelationStep]_correlationVars => CorrelationInv'
  BY CorrelationStepKeeps
<1> QED  BY <1>1, <1>2, PTL DEF CorrelationSpec

LEMMA MergedTogether ==
  ASSUME CorrelationAssumption, CorrelationInv, NEW w \in [FailedJobs -> Nat]
  PROVE  MergedJobs \in Seq(FailedJobs) /\ Weight(MergedJobs, w) = Weight(merged, OfMerged(w))
<1>1. PICK M : M = MergedRecords
  OBVIOUS
<1>2. merged \in Seq(M)
  BY <1>1 DEF CorrelationInv, MergedAll
<1>3. PICK n \in Nat : DOMAIN merged = 1..n /\ \A i \in 1..n : merged[i] \in M
  <2>1. Len(merged) \in Nat /\ DOMAIN merged = 1..Len(merged) /\ \A i \in 1..Len(merged) : merged[i] \in M
    BY <1>2
  <2> QED  BY <2>1
<1>4. PICK J, Z, W, U : /\ J = [i \in 1..n |-> merged[i].jobs] /\ Z = Seq(FailedJobs)
                        /\ W = Each(FailedJobs, w) /\ U = OfMerged(w)
  OBVIOUS
<1>5. \A i \in 1..n : merged[i].jobs \in Z
  <2>1. \A c \in M : c.jobs \in Filled(FailedJobs)
    BY <1>1, MergedFields
  <2> QED  BY <1>3, <1>4, <2>1 DEF Filled
<1>6. J \in Seq(Z)
  <2>1. J \in [1..n -> Z]
    BY <1>4, <1>5
  <2> QED  BY <2>1
<1>7. MergedJobs = FlattenSeq(J)
  BY <1>3, <1>4 DEF MergedJobs
<1>8. FlattenSeq(J) \in Seq(FailedJobs) /\ Weight(FlattenSeq(J), w) = Weight(J, W)
  BY <1>4, <1>6, Flattened, WeightFlatten
<1>9. W \in [Z -> Nat] /\ \A s \in Z : W[s] = Weight(s, w)
  BY <1>4, EachWeighs
<1>10. U \in [M -> Nat] /\ \A c \in M : U[c] = Weight(c.jobs, w)
  BY <1>1, <1>4, OfMergedWeighs
<1>11. AlikeByPlace(M, merged, U, Z, J, W)
  <2>1. DOMAIN J = DOMAIN merged
    BY <1>3, <1>4
  <2>2. \A i \in DOMAIN merged : W[J[i]] = U[merged[i]]
    BY <1>3, <1>4, <1>5, <1>9, <1>10
  <2> QED  BY <1>2, <1>6, <1>9, <1>10, <2>1, <2>2 DEF AlikeByPlace
<1>12. Weight(J, W) = Weight(merged, U)
  BY <1>11, WeightSame
<1> QED  BY <1>4, <1>7, <1>8, <1>12

LEMMA BelongsFromInv == CorrelationAssumption /\ CorrelationInv => EachJobWhereItBelongs
<1> SUFFICES ASSUME CorrelationAssumption, CorrelationInv PROVE EachJobWhereItBelongs
  OBVIOUS
<1>1. ASSUME pipeline \in {"categorize", "validate"}, NEW job PROVE Count(AllJobs, job) = Count(MergedJobs, job)
  <2>1. PICK w : w = Ones(FailedJobs, job)
    OBVIOUS
  <2>2. w \in [FailedJobs -> Nat]
    BY <2>1 DEF Ones
  <2>3. MergedJobs \in Seq(FailedJobs) /\ Weight(MergedJobs, w) = Weight(merged, OfMerged(w))
    BY <2>2, MergedTogether
  <2>4. Weight(merged, OfMerged(w)) = Weight(AllJobs, w)
    BY <1>1, <2>2 DEF CorrelationInv, MergedAll
  <2>5. AllJobs \in Seq(FailedJobs)
    <3>1. \A s \in BugSources : failed[s] \in Seq(FailedJobs)
      BY DEF CorrelationInv
    <3> QED  BY <3>1, BySource DEF AllJobs
  <2>6. Cardinality({i \in DOMAIN AllJobs : AllJobs[i] = job}) = Weight(AllJobs, w)
    BY <2>1, <2>5, WeightCount
  <2>7. Cardinality({i \in DOMAIN MergedJobs : MergedJobs[i] = job}) = Weight(MergedJobs, w)
    BY <2>1, <2>3, WeightCount
  <2> QED  BY <2>3, <2>4, <2>6, <2>7 DEF Count
<1>2. ASSUME NEW i \in DOMAIN merged
      PROVE  \/ \A a, b \in ToSet(merged[i].members) : Step(a) = Step(b)
             \/ \E k \in merged[i].duplicates : \A m \in ToSet(merged[i].members) : k \in accepted[m.sig]
  <2>1. PICK c \in MergedRecords : c = merged[i]
    BY DEF CorrelationInv, MergedAll
  <2> QED  BY <2>1, MergedFields
<1> QED  BY <1>1, <1>2 DEF EachJobWhereItBelongs

\* Neither grouping nor clustering nor merging loses a failed job or counts it
\* twice, and what is merged across steps shares an accepted key.
THEOREM EachJobWhereItBelongsHolds == ASSUME CorrelationAssumption PROVE CorrelationSpec => []EachJobWhereItBelongs
<1>1. CorrelationInv => EachJobWhereItBelongs
  BY BelongsFromInv
<1> QED  BY <1>1, CorrelationAlways, PTL

\* The decisions, one for each merged candidate.
LEMMA DecidedEach ==
  ASSUME CorrelationInv, NEW i \in DOMAIN results
  PROVE  i \in DOMAIN merged /\ merged[i] \in MergedRecords /\ results[i].decision = CategorizeCandidate(merged[i])
<1>1. merged \in Seq(MergedRecords) /\ Decided
  BY DEF CorrelationInv, MergedAll
<1>2. results = [k \in DOMAIN merged |-> [sig |-> merged[k].sig, decision |-> CategorizeCandidate(merged[k])]]
  <2>1. results # <<>>
    OBVIOUS
  <2> QED  BY <1>1, <2>1 DEF Decided
<1>3. i \in DOMAIN merged
  BY <1>2
<1>4. results[i] = [sig |-> merged[i].sig, decision |-> CategorizeCandidate(merged[i])]
  BY <1>2, <1>3
<1> QED  BY <1>1, <1>3, <1>4

LEMMA NotStaleFromInv == CorrelationAssumption /\ CorrelationInv => NewFailureNotStale
<1> SUFFICES ASSUME CorrelationAssumption, CorrelationInv, NEW i \in DOMAIN results,
                    results[i].decision.category = "stale_regression",
                    NEW job \in ToSet(merged[i].jobs)
             PROVE  job.finished # 0 /\ \E m \in ToSet(merged[i].members) : \E f \in fixed[m.sig] : job.finished <= f
  BY DEF NewFailureNotStale
<1>1. PICK c \in MergedRecords : c = merged[i] /\ CategorizeCandidate(c).category = "stale_regression"
  BY DecidedEach
<1>2. c.regressions # {} /\ ~MayPostdateFix(c)
  BY <1>1 DEF CategorizeCandidate, Decision
<1>3. c.regressions \in SUBSET Nat /\ IsFiniteSet(c.regressions) /\ c.jobs \in Seq(FailedJobs)
      /\ \A fix \in c.regressions : \E m \in ToSet(c.members) : fix \in fixed[m.sig]
  BY MergedFields DEF Filled
<1>4. PICK last \in c.regressions : last = Max(c.regressions)
  <2>1. PICK m \in c.regressions : \A k \in c.regressions : k <= m
    BY <1>2, <1>3, GreatestNumber
  <2>2. \A k \in c.regressions : m >= k
    BY <1>3, <2>1
  <2>3. Max(c.regressions) \in c.regressions
    BY <2>2 DEF Max
  <2> QED  BY <2>3
<1>5. PICK k \in DOMAIN c.jobs : job = c.jobs[k]
  BY <1>1 DEF ToSet
<1>6. job.finished # 0 /\ ~(job.finished > last)
  BY <1>2, <1>4, <1>5 DEF MayPostdateFix
<1>7. job.finished \in Nat /\ last \in Nat
  <2>1. c.jobs[k] \in FailedJobs
    BY <1>3, <1>5
  <2>2. \A x \in FailedJobs : x.finished \in Nat
    BY DEF FailedJobs
  <2> QED  BY <1>3, <1>4, <1>5, <2>1, <2>2
<1>8. job.finished <= last
  BY <1>6, <1>7
<1>9. PICK m \in ToSet(c.members) : last \in fixed[m.sig]
  BY <1>3
<1> QED  BY <1>1, <1>6, <1>8, <1>9

\* No failure that may be newer than every fix of the signatures it was merged
\* with is dismissed as stale.
THEOREM NewFailureNotStaleHolds == ASSUME CorrelationAssumption PROVE CorrelationSpec => []NewFailureNotStale
<1>1. CorrelationInv => NewFailureNotStale
  BY NotStaleFromInv
<1> QED  BY <1>1, CorrelationAlways, PTL

LEMMA CorrelationTypesFromInv == CorrelationAssumption /\ CorrelationInv => CorrelationTypeOK
<1> SUFFICES ASSUME CorrelationAssumption, CorrelationInv PROVE CorrelationTypeOK
  OBVIOUS
<1>1. pipeline \in {"prepare", "merge", "categorize", "validate", "accepted", "rejected"}
  BY DEF CorrelationInv
<1>2. ASSUME NEW s \in BugSources
      PROVE  /\ \A i \in DOMAIN failed[s] : failed[s][i] \in FailedJobs
             /\ \A i \in DOMAIN candidates[s] : candidates[s][i].source = s /\ candidates[s][i].type \in Layers
  <2>1. failed[s] \in Seq(FailedJobs) /\ candidates[s] \in Seq(JobCandidates)
        /\ \A i \in DOMAIN candidates[s] : candidates[s][i].source = s
    BY DEF CorrelationInv, SourcesPrepared
  <2>2. \A i \in DOMAIN candidates[s] : candidates[s][i] \in JobCandidates
    BY <2>1
  <2>3. \A c \in JobCandidates : c.type \in Layers
    BY DEF JobCandidates
  <2>4. \A i \in DOMAIN failed[s] : failed[s][i] \in FailedJobs
    BY <2>1
  <2> QED  BY <2>1, <2>2, <2>3, <2>4
<1>3. \A i \in DOMAIN merged : merged[i].severity \in Severities /\ merged[i].jobs # <<>>
  <2>1. \A i \in DOMAIN merged : merged[i] \in MergedRecords
    BY DEF CorrelationInv, MergedAll
  <2> QED  BY <2>1, MergedFields DEF Filled
<1>4. ASSUME NEW i \in DOMAIN results
      PROVE  results[i].decision \in [action : {"suggest", "linked", "skip"}, key : Nat,
                                      category : {"", "infrastructure", "stale_regression"}]
  <2>1. PICK c \in MergedRecords : results[i].decision = CategorizeCandidate(c)
    BY DecidedEach
  <2>2. c.duplicates # {} => Min(c.duplicates) \in Nat
    <3>1. c.duplicates \subseteq Nat
      BY MergedFields
    <3> QED  BY <3>1, LeastPlace
  <2>3. CategorizeCandidate(c) \in {Decision("skip", 0, "infrastructure"), Decision("linked", Min(c.duplicates), ""),
                                   Decision("skip", 0, "stale_regression"), Decision("suggest", 0, "")}
    BY DEF CategorizeCandidate
  <2>4. CategorizeCandidate(c) = Decision("linked", Min(c.duplicates), "") => c.duplicates # {}
    BY DEF CategorizeCandidate, Decision
  <2>5. PICK T : T = [action : {"suggest", "linked", "skip"}, key : Nat,
                      category : {"", "infrastructure", "stale_regression"}]
    OBVIOUS
  <2>6. \A a \in {"suggest", "linked", "skip"}, k \in Nat, h \in {"", "infrastructure", "stale_regression"} :
          Decision(a, k, h) \in T
    BY <2>5 DEF Decision
  <2>7. /\ Decision("skip", 0, "infrastructure") \in T /\ Decision("skip", 0, "stale_regression") \in T
        /\ Decision("suggest", 0, "") \in T /\ \A k \in Nat : Decision("linked", k, "") \in T
    BY <2>6
  <2>8. CategorizeCandidate(c) \in T
    BY <2>2, <2>3, <2>4, <2>7
  <2> QED  BY <2>1, <2>5, <2>8
<1> QED  BY <1>1, <1>2, <1>3, <1>4 DEF CorrelationTypeOK

\* The types of the correlation: severities and decisions are the known ones.
THEOREM CorrelationTypeCorrect == ASSUME CorrelationAssumption PROVE CorrelationSpec => []CorrelationTypeOK
<1>1. CorrelationInv => CorrelationTypeOK
  BY CorrelationTypesFromInv
<1> QED  BY <1>1, CorrelationAlways, PTL
=============================================================================
