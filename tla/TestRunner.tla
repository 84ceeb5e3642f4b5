------------------------------ MODULE TestRunner ------------------------------
(***************************************************************************)
(* openshift-tests: run-suite.sh and run-test.sh choose tests, run them    *)
(* one selection after the other and keep captures (oc, ssh and libvirt    *)
(* followers in sessions of their own) alive around each.  The operator's  *)
(* Ctrl-C reaches the runner and the command it waits for, but no capture; *)
(* a TERM reaches the runner alone, whose trap waits for that command, and *)
(* runs at once between two commands.  The trap of the end is not run      *)
(* again when a signal ends the shell inside it.                           *)
(* A selection is a set of tests; tests are numbered in sorted order.      *)
(***************************************************************************)
EXTENDS Integers, Sequences, FiniteSets, FiniteSetsExt, SequencesExt

CONSTANTS
  Tests,          \* what the binary knows
  Replacement,    \* "needing manual recovery is replaced"
  DualReplica,    \* tests of that feature gate
  Containing,     \* [Tests -> SUBSET Tests]: whose names contain this one's
  Listings,       \* what the suites of a payload may list
  Calls,          \* command lines
  Captures        \* 1..n, in the order of run-all-captures.sh

Suites   == {"two-node", "certrotation", "parallel", "all"}
Profiles == {"none", "e2e", "recovery", "ra-verification", "dualreplica", "cert-rotation", "upgrade"}

RunnerAssumption ==
  /\ Tests \subseteq Nat /\ Captures \subseteq Nat
  /\ Replacement \subseteq Tests /\ DualReplica \subseteq Tests
  /\ \A t \in Tests : t \in Containing[t]
  /\ Listings \subseteq [Suites -> SUBSET Tests]
  /\ Calls \subseteq [kind : {"suite", "test"}, profile : Profiles, suite : SUBSET Suites,
                     filter : SUBSET Tests, repeat : Nat \ {0}, focuses : SUBSET Tests,
                     interactive : BOOLEAN, captures : BOOLEAN, stop : BOOLEAN]

VARIABLES
  call,        \* the command line
  listing,     \* suite -> its tests
  stage,       \* what the runner is doing
  plan,        \* selections still to run
  asking,      \* tests an interactive suite has not offered yet
  ran,         \* tests that were executed
  lines,       \* of summary.tsv, one per completed run
  capFile,     \* CAP_PID_FILE is set
  alive,       \* captures running: <<number of the run, capture>>
  recorded,    \* pids in the file of the current start
  forked,      \* launched, its pid not written yet
  term,        \* a TERM waits for the foreground command
  lost, torn   \* pids a Ctrl-C kept from the file; a signal cut a stop short

runnerVars == <<call, listing, stage, plan, asking, ran, lines, capFile, alive, recorded, forked, term, lost, torn>>
captureVars == <<capFile, alive, recorded, forked, term, lost, torn>>

NoProfile == [suite |-> "two-node", discover |-> {}, filter |-> Tests, exclude |-> {}, upgrade |-> FALSE]

\* resolve_profile.
Profile(name) ==
  CASE name = "none"            -> NoProfile
    [] name = "e2e"             -> [NoProfile EXCEPT !.suite = "parallel"]
    [] name = "recovery"        -> NoProfile
    [] name = "ra-verification" -> [NoProfile EXCEPT !.suite = "all", !.discover = {"certrotation", "two-node"},
                                                     !.exclude = Replacement]
    [] name = "dualreplica"     -> [NoProfile EXCEPT !.suite = "all", !.filter = DualReplica]
    [] name = "cert-rotation"   -> [NoProfile EXCEPT !.suite = "certrotation"]
    [] name = "upgrade"         -> [NoProfile EXCEPT !.suite = "all", !.upgrade = TRUE]

\* "explicit flags win"; a flag that was not given is the empty set or "".
Suite    == IF call.suite = {} THEN Profile(call.profile).suite ELSE CHOOSE s \in call.suite : TRUE
Filter   == IF call.filter = {} THEN Profile(call.profile).filter ELSE call.filter
Discover == IF Profile(call.profile).discover = {} THEN {Suite} ELSE Profile(call.profile).discover
Wanted   == ((UNION {listing[s] : s \in Discover}) \cap Filter) \ Profile(call.profile).exclude

\* Mutant: only unions of suites are pinned.
PinUnions == Cardinality(Discover) > 1

UseFile ==
  Cardinality(Discover) > 1 \/ Profile(call.profile).exclude # {} \/ Filter # Tests

Upgrade == Profile(call.profile).upgrade
Repeated(selection) == [i \in 1..call.repeat |-> selection]

\* The selections of run-test.sh: one run of all when nothing can stop it
\* early, else test by test.
TestPlan(focuses) ==
  IF call.repeat = 1 /\ ~call.stop
  THEN <<focuses>>
  ELSE FlattenSeq(Repeated([i \in 1..Cardinality(focuses) |-> {SetToSortSeq(focuses, LAMBDA a, b : a < b)[i]}]))

\* What the binary executes: --file pins names, --run takes every name that
\* contains the focus, neither takes the whole suite.
Executed(selection) ==
  IF call.kind = "suite" /\ ~call.interactive
  THEN IF Upgrade THEN {} ELSE IF UseFile THEN selection \cap listing[Suite] ELSE listing[Suite]
  ELSE listing[Suite] \cap UNION {Containing[t] : t \in selection}

InitRunner ==
  /\ call \in Calls /\ listing \in Listings
  /\ stage = "discover" /\ plan = << >> /\ asking = {} /\ ran = {} /\ lines = 0
  /\ capFile = FALSE /\ alive = {} /\ recorded = {} /\ forked = {}
  /\ term = FALSE /\ lost = {} /\ torn = FALSE

\* From the arguments to the first selection, with the pre-flight of --file.
Prepare ==
  /\ stage = "discover"
  /\ \/ /\ call.kind = "test"
        /\ plan' = TestPlan(call.focuses) /\ stage' = "next" /\ asking' = {}
     \/ /\ call.kind = "suite" /\ Upgrade
        /\ IF call.filter # {} \/ call.repeat > 1 \/ call.interactive
           THEN stage' = "exit" /\ plan' = << >>
           ELSE stage' = "next" /\ plan' = <<{}>>
        /\ asking' = {}
     \/ /\ call.kind = "suite" /\ ~Upgrade
        /\ IF (\E s \in Discover : listing[s] = {}) \/ Wanted = {}
              \/ (~call.interactive /\ UseFile /\ ~(Wanted \subseteq listing[Suite]))
           THEN stage' = "exit" /\ plan' = << >> /\ asking' = {}
           ELSE IF call.interactive
           THEN stage' = "prompt" /\ plan' = << >> /\ asking' = Wanted
           ELSE stage' = "next" /\ plan' = Repeated(Wanted) /\ asking' = {}
  /\ UNCHANGED <<call, listing, ran, lines, captureVars>>

\* "Run this test?" and "Continue to next test?".
Prompt ==
  /\ stage = "prompt"
  /\ \/ stage' = "exit" /\ UNCHANGED <<plan, asking>>
     \/ /\ asking # {} /\ asking' = asking \ {Min(asking)}
        /\ \/ stage' = "next" /\ plan' = Repeated({Min(asking)})
           \/ stage' = (IF asking' = {} THEN "exit" ELSE "prompt") /\ UNCHANGED plan
  /\ UNCHANGED <<call, listing, ran, lines, captureVars>>

\* start_captures names the file before it launches anything.
NextRun ==
  /\ stage = "next" /\ plan # << >>
  /\ stage' = (IF call.captures THEN "starting" ELSE "testing")
  /\ capFile' = call.captures /\ recorded' = {}
  /\ UNCHANGED <<call, listing, plan, asking, ran, lines, alive, forked, term, lost, torn>>

PlanDone ==
  /\ stage = "next" /\ plan = << >>
  /\ stage' = (IF asking # {} THEN "prompt" ELSE "exit")
  /\ UNCHANGED <<call, listing, plan, asking, ran, lines, captureVars>>

Run(c) == <<lines, c>>
Unlaunched == {c \in Captures : Run(c) \notin recorded}

\* setsid ... &, then the pid goes to the file.
Launch ==
  /\ stage = "starting" /\ forked = {} /\ Unlaunched # {}
  /\ forked' = {Run(Min(Unlaunched))} /\ alive' = alive \cup forked'
  /\ UNCHANGED <<call, listing, stage, plan, asking, ran, lines, capFile, recorded, term, lost, torn>>

WritePid ==
  /\ stage = "starting" /\ forked # {}
  /\ recorded' = recorded \cup forked /\ forked' = {}
  /\ UNCHANGED <<call, listing, stage, plan, asking, ran, lines, capFile, alive, term, lost, torn>>

\* run-all-captures.sh returns; a failure of it ends the runner (set -e).
StartReturns(ok) ==
  /\ stage = "starting" /\ forked = {} /\ (ok => Unlaunched = {})
  /\ stage' = (IF ok /\ ~term THEN "testing" ELSE "exit")
  /\ UNCHANGED <<call, listing, plan, asking, ran, lines, captureVars>>

CaptureEnds(p) ==
  /\ p \in alive /\ alive' = alive \ {p}
  /\ UNCHANGED <<call, listing, stage, plan, asking, ran, lines, capFile, recorded, forked, term, lost, torn>>

\* The exit status of the binary is data: the loop goes on.
RunTests(result) ==
  /\ stage = "testing"
  /\ ran' = ran \cup Executed(Head(plan))
  /\ stage' = (IF term THEN "exit" ELSE "stop")
  /\ plan' = IF result = "FAIL" /\ call.stop THEN << >> ELSE Tail(plan)
  /\ UNCHANGED <<call, listing, asking, lines, captureVars>>

\* stop_captures, after a run and in the trap of the runner's end, forgets the
\* file first.
StopOver ==
  IF stage \in {"exit", "quitting"} \/ term
  THEN stage' = "done" /\ UNCHANGED lines
  ELSE stage' = "next" /\ lines' = lines + 1

StopAt(stages) ==
  /\ stage \in stages
  /\ IF capFile THEN stage' = (IF stage = "stop" THEN "call" ELSE "lastCall") /\ UNCHANGED lines ELSE StopOver
  /\ capFile' = FALSE
  /\ UNCHANGED <<call, listing, plan, asking, ran, alive, recorded, forked, term, lost, torn>>

\* Mutant: the runner's end has no trap.
StopUntrapped ==
  \/ StopAt({"stop"})
  \/ stage = "exit" /\ stage' = "done" /\ UNCHANGED <<call, listing, plan, asking, ran, lines, captureVars>>

StopCaptures == StopAt({"stop", "exit"})

\* stop-all-captures.sh sends TERM to every group, waits, and kills those that
\* are still there.
TermCaptures ==
  /\ stage \in {"call", "lastCall"}
  /\ stage' = (IF stage = "call" THEN "stopping" ELSE "quitting")
  /\ \E stubborn \in SUBSET (alive \cap recorded) : alive' = alive \ (recorded \ stubborn)
  /\ UNCHANGED <<call, listing, plan, asking, ran, lines, capFile, recorded, forked, term, lost, torn>>

KillCaptures ==
  /\ stage \in {"stopping", "quitting"}
  /\ alive' = alive \ recorded /\ StopOver
  /\ UNCHANGED <<call, listing, plan, asking, ran, capFile, recorded, forked, term, lost, torn>>

\* The runner is to stop the captures, but has not called the script: a signal
\* finds the file forgotten, or the trap of the end under way.
BeforeScript == stage \in {"call", "lastCall"} \/ (stage = "exit" /\ capFile)

Ended == IF stage \in {"exit", "lastCall", "quitting"} THEN "done" ELSE "exit"

\* Ctrl-C: the foreground command dies and the trap exits.
Interrupt ==
  /\ stage # "done" /\ stage' = Ended
  /\ lost' = lost \cup forked /\ forked' = {}
  /\ torn' = (torn \/ BeforeScript \/ stage \in {"stopping", "quitting"})
  /\ UNCHANGED <<call, listing, plan, asking, ran, lines, capFile, alive, recorded, term>>

\* TERM to the runner: when the foreground command is over, or at once.
Terminate ==
  /\ stage # "done"
  /\ IF stage \in {"starting", "testing", "stopping", "quitting"}
     THEN term' = TRUE /\ UNCHANGED <<stage, torn>>
     ELSE stage' = Ended /\ torn' = (torn \/ BeforeScript) /\ UNCHANGED term
  /\ UNCHANGED <<call, listing, plan, asking, ran, lines, capFile, alive, recorded, forked, lost>>

RunnerStep ==
  \/ Prepare \/ Prompt \/ NextRun \/ PlanDone \/ Launch \/ WritePid
  \/ (\E ok \in BOOLEAN : StartReturns(ok))
  \/ (\E p \in alive : CaptureEnds(p))
  \/ (\E result \in {"PASS", "FAIL"} : RunTests(result))
  \/ StopCaptures \/ TermCaptures \/ KillCaptures \/ Interrupt \/ Terminate

RunnerSpec == InitRunner /\ [][RunnerStep]_runnerVars

RunnerTypeOK ==
  /\ stage \in {"discover", "prompt", "next", "starting", "testing", "stop", "call", "stopping",
               "exit", "lastCall", "quitting", "done"}
  /\ recorded \cup forked \cup lost \cup alive \subseteq (0..lines) \X Captures
  /\ ran \subseteq Tests /\ asking \subseteq Tests

\* "Save before launch so an interrupted or partial startup is cleaned up":
\* when the runner has ended, by itself or by signals at any point, no
\* capture goes on, but one whose pid a Ctrl-C kept from the file, and those
\* of a stop that was cut short: by a Ctrl-C that kills stop-all-captures.sh,
\* or by any signal after stop_captures has forgotten the file (or the trap of
\* the end has begun) and before the script is called.
CapturesStopped == stage = "done" /\ ~torn => alive \subseteq lost

\* A batch run executes the tests that were discovered, filtered and not
\* excluded, all of them and no other: the node replacement that a profile
\* leaves out does not come back with the superset the profile runs.
RanWhatWasSelected ==
  call.kind = "suite" /\ ~call.interactive /\ ~Upgrade => ran \in {{}, Wanted}
=============================================================================
