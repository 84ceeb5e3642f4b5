------------------------------ MODULE MCRelease ------------------------------
(***************************************************************************)
(* The tools of microshift-release: the release testing pull request, the  *)
(* evaluation of a z-stream version and the checks of its artifacts; and   *)
(* fix-test-bugs of microshift-ci.  They share nothing: in a behaviour one *)
(* of them moves, the others stay as they started.                         *)
(***************************************************************************)
EXTENDS ProwTesting, FixTestBugs, ReleaseEvaluation, ReleaseChecks, TLC

VARIABLE part

Ticket(status, resolution, labels) == [status |-> status, resolution |-> resolution, labels |-> labels]

SomeTickets ==
  {Ticket("In Progress", "none", {}), Ticket("In Progress", "none", {"release-required"}),
   Ticket("Verified", "none", {}), Ticket("Closed", "Done", {}), Ticket("Verified", "Won't Fix", {})}

Version(type, bootc, el10, major5) == [type |-> type, bootc |-> bootc, el10 |-> el10, major5 |-> major5]

SomeVersions ==
  {Version("XY", TRUE, TRUE, TRUE), Version("Z", TRUE, FALSE, FALSE), Version("RC", TRUE, TRUE, TRUE),
   Version("RC", TRUE, FALSE, FALSE), Version("Z", FALSE, FALSE, FALSE), Version("nightly", TRUE, TRUE, TRUE)}

\* Two groups, or a group that is the first bug of another.
TwoGroupings == {{{1, 2}, {3}}, {{1}}}

ASSUME ReleaseAssumption ==
  ProwAssumption /\ TrackerAssumption /\ ChecksAssumption /\ FixAssumption

vars == <<part, prowVars, evalVars, checksVars, fixVars>>

Init ==
  /\ part \in {"prow", "evaluation", "checks", "fix"}
  /\ InitProw
  /\ StartEvaluation /\ (part # "evaluation" => \A k \in DOMAIN jira : jira[k] = NoTracker)
  /\ InitChecks /\ (part # "checks" => version = Version("Z", TRUE, FALSE, FALSE))
  /\ InitFix

Next ==
  \/ part = "prow" /\ ProwStep /\ UNCHANGED <<part, evalVars, checksVars, fixVars>>
  \/ part = "evaluation" /\ Evaluate /\ UNCHANGED <<part, prowVars, checksVars, fixVars>>
  \/ part = "checks" /\ ChecksStep /\ UNCHANGED <<part, prowVars, evalVars, fixVars>>
  \/ part = "fix" /\ FixStep /\ UNCHANGED <<part, prowVars, evalVars, checksVars>>

Spec == Init /\ [][Next]_vars

\* Each about the part that moves: the others are as they started.
TypesOK ==
  /\ part = "prow"       => ProwTypeOK
  /\ part = "evaluation" => EvalTypeOK
  /\ part = "checks"     => ChecksTypeOK
  /\ part = "fix"        => FixTypeOK
=============================================================================
