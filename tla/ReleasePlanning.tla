---------------------------- MODULE ReleasePlanning ----------------------------
(***************************************************************************)
(* run-checks.py of edge-scrum: what the planning report computes of the   *)
(* features of a release, while the team works on them.  Story points are  *)
(* compared cross-multiplied, so that no fraction is rounded.              *)
(***************************************************************************)
EXTENDS Integers, FiniteSets, FiniteSetsExt

CONSTANTS
  Features,    \* numbers, their rank
  Stories,     \* numbers; story s of feature FeatureOf[s]
  FeatureOf,
  Bugs,        \* the stories that are bugs
  Members,     \* of the roster
  Guests,      \* who are not in it
  Nobody,
  Target,      \* story points of a member in a sprint (8 in the code)
  Velocity,    \* measured, of the team, or Unmeasured
  Sprints,     \* left, less holidays
  MaxSteps     \* bound on the steps of the team

Unmeasured == -1

PlanningAssumption ==
  /\ Features \subseteq Nat /\ IsFiniteSet(Features) /\ IsFiniteSet(Stories) /\ IsFiniteSet(Members)
  /\ FeatureOf \in [Stories -> Features] /\ Bugs \subseteq Stories
  /\ Members \cap Guests = {} /\ Nobody \notin Members \union Guests
  /\ {Target, Sprints, MaxSteps} \subseteq Nat /\ Target > 0 /\ Velocity \in Nat \union {Unmeasured}

VARIABLES
  feature,     \* its status, its priority and whether its epic is done
  story,       \* status, points, assignee, whether urgent and how long untouched
  steps

planningVars == <<feature, story, steps>>

(***************************************************************************)
(* Scope.  A done epic takes its stories out of the feature.               *)
(***************************************************************************)
Done(s)      == story[s].status = "Closed"
InScope(f)   == {s \in Stories : FeatureOf[s] = f /\ ~feature[f].epicDone}
OpenOf(f)    == {s \in InScope(f) : ~Done(s)}
HasEpics(f)  == ~feature[f].epicDone
Points(S)    == SumFunctionOnSet([s \in Stories |-> story[s].points], S)
Assigned(S)  == {s \in S : story[s].assignee # Nobody}

\* Mutant: work that is done is no evidence of work.
ActivityOpenOnly(f) ==
  \E s \in InScope(f) \ Bugs : story[s].status = "In Progress" \/ story[s].recent

\* A story that is worked on, done or touched of late; bugs prove nothing.
Activity(f) ==
  \E s \in InScope(f) \ Bugs : story[s].status \in {"In Progress", "Closed"} \/ story[s].recent

InFocus(f)  == feature[f].focus \/ feature[f].status = "Refinement"
Active(f)   == InFocus(f) /\ (feature[f].status # "New" \/ (HasEpics(f) /\ Activity(f)))
Dormant(f)  == InFocus(f) /\ ~Active(f)
ActiveFeatures == {f \in Features : Active(f)}

(***************************************************************************)
(* Data quality                                                            *)
(***************************************************************************)
Unpointed(f) == {s \in OpenOf(f) : story[s].points = 0}

Gate(f) ==
  LET open     == OpenOf(f)
      few      == Cardinality(Unpointed(f)) <= 2 /\ \E s \in InScope(f) : Done(s)
      bareEpic == InScope(f) \subseteq Bugs
  IN  IF ~HasEpics(f) \/ InScope(f) = {} THEN "FAIL"
      ELSE IF \/ \E s \in Unpointed(f) : story[s].urgent
              \/ (2 * Cardinality(Unpointed(f)) > Cardinality(open) /\ ~few)
              \/ bareEpic
           THEN "WARN" ELSE "PASS"

Assessed == {f \in ActiveFeatures : Gate(f) # "FAIL"}

(***************************************************************************)
(* Load and pace.  The pace of a member is the target, scaled to the       *)
(* measured velocity, shared between features as the member's points are.  *)
(***************************************************************************)
Pointed(S)    == {s \in Assigned(S) : story[s].points > 0}
LoadIn(p, F)  == Points({s \in Pointed(UNION {OpenOf(f) : f \in F}) : story[s].assignee = p})
Load(p)       == LoadIn(p, ActiveFeatures)
AboveGuideline(p) == p \in Members /\ 2 * LoadIn(p, Assessed) > 3 * Target * Sprints

TargetSum == Target * Cardinality(Members)
Pace      == IF Velocity = Unmeasured THEN Target * TargetSum ELSE Target * Velocity   \* over TargetSum

\* Mutant: a member has the whole pace for each feature.
ShareWhole(p, f) == IF p \in Members /\ LoadIn(p, {f}) > 0 THEN <<1, 1>> ELSE <<0, 1>>

\* The part of a member's pace that goes to a feature, as a fraction.
Share(p, f) ==
  IF p \in Members /\ LoadIn(p, {f}) > 0 THEN <<LoadIn(p, {f}), Load(p)>> ELSE <<0, 1>>

Workers(f)   == {story[s].assignee : s \in Pointed(OpenOf(f))}
Remaining(f) == Points(OpenOf(f))

\* remaining / (the pace of the members at it) > sprints, cross-multiplied.
TooLate(f) ==
  LET members == Workers(f) \cap Members
      loads   == MapThenFoldSet(LAMBDA x, y : x * y, 1, Load, LAMBDA S : CHOOSE x \in S : TRUE, members)
      pace(p) == Pace * Share(p, f)[1] * (loads \div Share(p, f)[2])
  IN  Remaining(f) * TargetSum * loads > Sprints * MapThenSumSet(pace, members)

TimelineRisk(f) ==
  IF Remaining(f) > 0 /\ (Workers(f) \cap Members = {} \/ Pace = 0) THEN "NO_CONTRIBUTORS"
  ELSE IF TooLate(f) THEN "HIGH" ELSE "OK"

(***************************************************************************)
(* Composite risk                                                          *)
(***************************************************************************)
Contributors(f) == {story[s].assignee : s \in Assigned(OpenOf(f))}
SoleOwner(f)    == Cardinality(Contributors(f)) = 1
Unassigned(f)   == OpenOf(f) \ Assigned(OpenOf(f)) # {}
UrgentBug(f)    == \E s \in OpenOf(f) \cap Bugs : story[s].urgent /\ story[s].assignee = Nobody

Signals(f) ==
  {x \in {"gate", "timeline", "assignment", "bugs"} :
     CASE x = "gate"       -> Gate(f) = "FAIL"
       [] x = "timeline"   -> f \in Assessed /\ TimelineRisk(f) # "OK"
       [] x = "assignment" -> SoleOwner(f) \/ Unassigned(f)
       [] x = "bugs"       -> UrgentBug(f)}

Risk(f) ==
  CASE Cardinality(Signals(f)) >= 3 -> "HIGH" [] Cardinality(Signals(f)) = 2 -> "MEDIUM" [] OTHER -> "LOW"

(***************************************************************************)
(* The cut line: assessed features by rank until the capacity is used.     *)
(***************************************************************************)
Capacity == IF Velocity = Unmeasured THEN TargetSum * Sprints ELSE Velocity * Sprints

UpTo(f) == SumFunctionOnSet([g \in Features |-> Remaining(g)], {g \in Assessed : g <= f})

\* Mutant: each feature is held against the whole capacity.
FitsAlone(f) == Remaining(f) <= Capacity

Fits(f) == UpTo(f) <= Capacity \/ Remaining(f) = 0
CutLine(f) == IF Fits(f) THEN "fits" ELSE IF UpTo(f) - Remaining(f) < Capacity THEN "partial" ELSE "over"

(***************************************************************************)
(* The team, in Jira                                                       *)
(***************************************************************************)
InitPlanning ==
  /\ feature \in [Features -> [status : {"New", "In Progress"}, focus : {TRUE}, epicDone : {FALSE}]]
  /\ story = [s \in Stories |-> [status |-> "To Do", points |-> 0, assignee |-> Nobody,
                                 urgent |-> s \in Bugs, recent |-> FALSE]]
  /\ steps = 0

TeamMoves == steps < MaxSteps /\ steps' = steps + 1

UpdateStory(s, changed) ==
  /\ TeamMoves /\ ~Done(s)
  /\ story' = [story EXCEPT ![s] = [changed EXCEPT !.recent = TRUE]]
  /\ UNCHANGED feature

StartStory(s) == story[s].status = "To Do" /\ UpdateStory(s, [story[s] EXCEPT !.status = "In Progress"])
CloseStory(s) == UpdateStory(s, [story[s] EXCEPT !.status = "Closed"])
Estimate(s)   == \E n \in {2, 5} : UpdateStory(s, [story[s] EXCEPT !.points = n])
Assign(s)     == \E p \in Members \union Guests : UpdateStory(s, [story[s] EXCEPT !.assignee = p])
FinishEpic(f) == TeamMoves /\ feature' = [feature EXCEPT ![f].epicDone = TRUE] /\ UNCHANGED story
Lower(f)     == TeamMoves /\ feature' = [feature EXCEPT ![f].focus = FALSE] /\ UNCHANGED story
Refine(f)    == /\ TeamMoves /\ feature[f].status = "New"
                /\ feature' = [feature EXCEPT ![f].status = "Refinement"] /\ UNCHANGED story
MonthPasses  == /\ TeamMoves /\ story' = [s \in Stories |-> [story[s] EXCEPT !.recent = FALSE]]
                /\ UNCHANGED feature

PlanningStep ==
  \/ MonthPasses
  \/ \E s \in Stories : StartStory(s) \/ CloseStory(s) \/ Estimate(s) \/ Assign(s)
  \/ \E f \in Features : FinishEpic(f) \/ Lower(f) \/ Refine(f)

PlanningSpec == InitPlanning /\ [][PlanningStep]_planningVars

(***************************************************************************)
(* Properties                                                              *)
(***************************************************************************)
\* The report has one risk and one place in the cut line for each feature.
PlanningTypeOK ==
  /\ steps \in 0..MaxSteps
  /\ \A f \in Assessed : Risk(f) \in {"LOW", "MEDIUM", "HIGH"} /\ CutLine(f) \in {"fits", "partial", "over"}
  /\ \A p \in Members : AboveGuideline(p) => LoadIn(p, Assessed) > 0

\* The report promises nothing twice: no member's pace is given to features
\* more than once, and what is in front of the cut line fits together.
NothingPromisedTwice ==
  /\ \A p \in Members :
       Load(p) > 0 =>
         SumFunctionOnSet([f \in Features |-> Share(p, f)[1] * (Load(p) \div Share(p, f)[2])], Assessed) <= Load(p)
  /\ SumFunctionOnSet([f \in Features |-> Remaining(f)], {f \in Assessed : Fits(f)}) <= Capacity

\* Time alone does not turn a feature that had work done into one nobody has
\* started, as long as its epic is open.
WorkDoneIsEvidence ==
  [][\A f \in Features :
       (Active(f) /\ ~Active(f)') =>
          \/ ~InFocus(f)' \/ ~HasEpics(f)'
          \/ ~\E s \in Stories \ Bugs : FeatureOf[s] = f /\ Done(s)']_planningVars
=============================================================================
