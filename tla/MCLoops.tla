------------------------------ MODULE MCLoops -------------------------------
(***************************************************************************)
(* What goes on until something says stop: the launcher and the watch of   *)
(* edge-ocp-rc, the yolo-agent of pr-review, the handoff of next and the   *)
(* test runner of openshift-tests with its captures.  They share nothing:  *)
(* in a behaviour one of them moves, the others stay as they started.      *)
(***************************************************************************)
EXTENDS RcLaunch, Handoff, YoloAgent, TestRunner, TLC

VARIABLE part

\* A list of one job of each kind, and one in which a job was added before.
ThreeKinds == [regular |-> <<"arbiter">>, lvms |-> <<"lvms">>, upgrade |-> <<"upgrade">>]
Added      == [regular |-> <<"added", "arbiter">>, lvms |-> <<"lvms">>, upgrade |-> << >>]

TwoLists == {ThreeKinds, Added}

\* Test 3 replaces a node; the name of test 2 contains that of test 1.  One
\* payload lists the rotation test in "all", the other forgets it there.
ListingOf(all) ==
  [s \in {"two-node", "certrotation", "parallel", "all"} |->
    CASE s = "two-node" -> {1, 3} [] s = "certrotation" -> {2} [] s = "parallel" -> {} [] s = "all" -> all]

SuiteCall(profile, suite, filter, repeat, interactive, captures) ==
  [kind |-> "suite", profile |-> profile, suite |-> suite, filter |-> filter, repeat |-> repeat,
   interactive |-> interactive, captures |-> captures, stop |-> FALSE, focuses |-> {}]

TestCall(repeat, stop) ==
  [SuiteCall("none", {}, {}, repeat, FALSE, TRUE) EXCEPT !.kind = "test", !.stop = stop, !.focuses = {1, 2}]

Plain == SuiteCall("none", {}, {}, 1, FALSE, TRUE)

CommandLines ==
  {SuiteCall(p, {}, {}, 1, FALSE, TRUE) : p \in {"e2e", "ra-verification", "dualreplica", "upgrade"}} \cup
  {Plain, SuiteCall("recovery", {}, {}, 2, FALSE, TRUE), SuiteCall("cert-rotation", {"all"}, {2, 3}, 1, FALSE, FALSE),
   SuiteCall("ra-verification", {}, {}, 1, TRUE, TRUE), SuiteCall("upgrade", {}, {1}, 1, FALSE, FALSE),
   TestCall(1, FALSE), TestCall(2, TRUE)}

TwoListings == {ListingOf(1..3), ListingOf({1, 3})}
NamesWithin == <<{1, 2}, {2}, {3}>>

ASSUME LoopsAssumption ==
  RcAssumption /\ YoloAssumption /\ HandoffAssumption /\ RunnerAssumption

vars == <<part, rcVars, yoloVars, handoffVars, runnerVars>>

Init ==
  /\ part \in {"rc", "yolo", "next", "tests"}
  /\ InitRc /\ (part # "rc" => files = ThreeKinds)
  /\ InitYolo /\ (part # "yolo" => ~setup.headless /\ setup.max = 0 /\ ~setup.include /\ checks = {"pass"})
  /\ InitHandoff
  /\ InitRunner /\ (part # "tests" => call = Plain /\ listing = ListingOf(1..3))

InRc(step) == part = "rc" /\ step /\ UNCHANGED <<part, yoloVars, handoffVars, runnerVars>>

Next ==
  \/ InRc(RcStep)
  \/ part = "yolo" /\ YoloStep /\ UNCHANGED <<part, rcVars, handoffVars, runnerVars>>
  \/ part = "next" /\ HandoffStep /\ UNCHANGED <<part, rcVars, yoloVars, runnerVars>>
  \/ part = "tests" /\ RunnerStep /\ UNCHANGED <<part, rcVars, yoloVars, handoffVars>>

Finishes(e) == e \in DOMAIN execs /\ \E result \in Results : Finish(e, result)
InCycle     == part = "yolo" /\ Cycle /\ UNCHANGED <<part, rcVars, handoffVars, runnerVars>>

Spec ==
  /\ Init /\ [][Next]_vars
  /\ WF_vars(InCycle)
  /\ WF_vars(InRc(LauncherStep)) /\ WF_vars(InRc(PollAll))
  /\ \A e \in 1..2 : WF_vars(InRc(Finishes(e)))

\* Each about the part that moves: the others are as they started.
TypesOK ==
  /\ part = "rc"    => RcTypeOK
  /\ part = "yolo"  => YoloTypeOK
  /\ part = "next"  => HandoffTypeOK
  /\ part = "tests" => RunnerTypeOK
RepetitionEnds == WatchEnds /\ LoopEnds
=============================================================================
