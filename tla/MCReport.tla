------------------------------- MODULE MCReport -------------------------------
(***************************************************************************)
(* Tools that gather, keep and report: the work directory of the doctor    *)
(* and its bug search, the planning report of edge-scrum, the notes of a   *)
(* workspace project, the daily dashboard of gh-notifier and the timing    *)
(* cache of payload-monitor, the payloads it collects and what it makes of *)
(* them, and the sweeps and reports of the watchman.  They share nothing:  *)
(* in a behaviour one of them moves, the others stay as they started.      *)
(***************************************************************************)
EXTENDS DoctorWorkdir, Watchman, PayloadTiming, ReleasePlanning, PayloadReport, ProjectNotes, BugSearch,
        PrNotifier, MCBugCorrelation, TLC

CONSTANTS r1, rebase, b1, b2, b3

VARIABLE part

\* Watchman: one instance in the first of two regions.
FirstRegion == <<1>>
OneHour     == <<1>>

\* One release with two builds that may fail, and its rebase pull request
\* with one.
OneRelease == <<r1>>
SomeBuilds == [s \in {r1, rebase} |-> IF s = r1 THEN {b1, b2} ELSE {b3}]

\* A run without --stages, the list of the usage text, and two short ones.
AllStages  == {<<"prepare", "analyze", "bugs", "finalize">>, <<"analyze", "finalize">>,
               <<"prepare", "finalize">>, <<"bugs", "finalize">>}

\* Two stories in the first feature, one of them a bug, and one in the second.
TwoInFirst == <<1, 1, 2>>

\* Pages of two of the 100 in the code.  The second pull request carries an
\* excluded label, the fourth is by somebody outside the roster, the fifth
\* needs no attention.  Decision 1 is accepted on main and proposed again by
\* a pull request; decision 2 is proposed by both.
Pull(author, labels, age, idle) ==
  [author |-> author, labels |-> labels, age |-> age, idle |-> idle, draft |-> FALSE]

SomePulls == <<Pull("ann", {"lgtm"}, 9, 9), Pull("bob", {"lgtm", "hold"}, 9, 9), Pull("bob", {"lgtm"}, 9, 0),
               Pull("eve", {}, 9, 9), Pull("ann", {"lgtm"}, 1, 1)>>
SomeOrders  == {<<5, 3, 1>>, <<4, 2, 1>>}
TeamAlias   == [a \in {"team"} |-> {"bob"}]
OneAccepted == [d \in {"main", "pull request"} \X {1, 2} |-> d # <<"main", 1>>]

\* Timing: one build of the three is looked back at.  The second run has no
\* time stamp.
JobOfRun == <<"sno", "tnf">>
FirstRun == <<1, 0>>

\* A job in the newest three of four payloads of one version, where it informs
\* or blocks, passes, fails or is absent, and in one payload of another.
Payload(terminal, shown) == [terminal |-> terminal, jobs |-> [j \in {"sno"} |-> shown]]
Informing(result) == [type |-> "informing", result |-> result]
Blocking(result)  == [type |-> "blocking", result |-> result]
NotRun            == [type |-> "none", result |-> "none"]

NoPayloads == [s \in {"new", "old"} |-> << >>]

PayloadHistories ==
  {NoPayloads} \cup
  {[s \in {"new", "old"} |->
      IF s = "old" THEN <<Payload(TRUE, o)>>
      ELSE <<Payload(FALSE, Informing("P")), Payload(TRUE, a), Payload(TRUE, b), Payload(TRUE, c)>>] :
     a \in {Informing("F"), Informing("S"), Blocking("F")}, b \in {Informing("F"), Informing("S"), Blocking("F"), NotRun},
     c \in {Informing("F"), Blocking("F")}, o \in {Informing("F"), Blocking("F"), Informing("S")}}

TwoStreams == <<"new", "old">>

\* Besides the failures of MCBugCorrelation, jobs whose analysis named no error.
Unnamed == Failure(0, 1, 1, 0, 1, "test", 1, 1)

WithUnnamed ==
  Failures \cup {[s \in {"release", "rebase"} |-> IF s = "release" THEN <<Unnamed>> \o more ELSE << >>] :
                  more \in {<< >>} \cup {<<a>> : a \in OneOf(2)}}

\* Two labelled bugs, pages of one.  The signature of the first candidate has
\* an OCP ID and four words, one too many; that of the second has one word.
Words(ws) == {<<"word", w>> : w \in ws}

SomeSearches ==
  {<<<< >>>>,
   <<<<[terms |-> <<<<"ocp", 7>>, <<"word", 1>>, <<"word", 2>>, <<"word", 3>>, <<"word", 4>>>>, ids |-> <<7>>]>>,
     <<[terms |-> <<<<"word", 2>>>>, ids |-> << >>]>>>>}

SomeTexts ==
  {Words({1, 2}), Words({1}), Words({2, 3, 4}), Words({3}) \cup {<<"bare", 7>>}, {<<"ocp", 7>>, <<"bare", 7>>}}

ASSUME ReportAssumption ==
  /\ WorkdirAssumption /\ CorrelationAssumption /\ PlanningAssumption
  /\ NotesAssumption /\ NotifierAssumption /\ TimingAssumption /\ WatchmanAssumption
  /\ MonitorAssumption /\ BugSearchAssumption

vars         == <<part, workdirVars, correlationVars, planningVars, notesVars, notifierVars, timingVars, watchmanVars,
                  monitorVars, bugSearchVars>>

Init ==
  /\ part \in {"workdir", "bugs", "planning", "notes", "notifier", "timing", "watchman", "monitor", "queries"}
  /\ InitWorkdir
  /\ InitCorrelation
  /\ part # "bugs" => /\ \A s \in BugSources : failed[s] = << >>
                      /\ \A s \in Signatures : accepted[s] = {} /\ fixed[s] = {}
  /\ InitPlanning /\ (part # "planning" => \A f \in DOMAIN feature : feature[f].status = "New")
  /\ InitNotes
  /\ InitNotifier /\ (part # "notifier" => ~friday /\ server = <<4, 2, 1>>)
  /\ InitTiming
  /\ InitWatchman
  /\ InitMonitor /\ (part # "monitor" => history = NoPayloads)
  /\ \/ part = "queries"
     \/ part # "queries" /\ asked = <<<< >>>> /\ wording = [b \in 1..2 |-> Words({1})] /\ standing = [b \in 1..2 |-> "open"]
  /\ InitBugSearch

Next ==
  \/ part = "workdir" /\ WorkdirStep
     /\ UNCHANGED <<part, correlationVars, planningVars, notesVars, notifierVars, timingVars, watchmanVars, monitorVars, bugSearchVars>>
  \/ part = "bugs" /\ CorrelationStep
     /\ UNCHANGED <<part, workdirVars, planningVars, notesVars, notifierVars, timingVars, watchmanVars, monitorVars, bugSearchVars>>
  \/ part = "planning" /\ PlanningStep
     /\ UNCHANGED <<part, workdirVars, correlationVars, notesVars, notifierVars, timingVars, watchmanVars, monitorVars, bugSearchVars>>
  \/ part = "notes" /\ NotesStep
     /\ UNCHANGED <<part, workdirVars, correlationVars, planningVars, notifierVars, timingVars, watchmanVars, monitorVars, bugSearchVars>>
  \/ part = "notifier" /\ NotifierStep
     /\ UNCHANGED <<part, workdirVars, correlationVars, planningVars, notesVars, timingVars, watchmanVars, monitorVars, bugSearchVars>>
  \/ part = "timing" /\ TimingStep
     /\ UNCHANGED <<part, workdirVars, correlationVars, planningVars, notesVars, notifierVars, watchmanVars, monitorVars, bugSearchVars>>
  \/ part = "watchman" /\ WatchmanStep
     /\ UNCHANGED <<part, workdirVars, correlationVars, planningVars, notesVars, notifierVars, timingVars, monitorVars, bugSearchVars>>
  \/ part = "monitor" /\ MonitorStep
     /\ UNCHANGED <<part, workdirVars, correlationVars, planningVars, notesVars, notifierVars, timingVars, watchmanVars, bugSearchVars>>
  \/ part = "queries" /\ BugSearchStep
     /\ UNCHANGED <<part, workdirVars, correlationVars, planningVars, notesVars, notifierVars, timingVars, watchmanVars, monitorVars>>

Spec == Init /\ [][Next]_vars

\* Each about the part that moves: the others are as they started.
TypesOK ==
  /\ part = "workdir"  => WorkdirTypeOK
  /\ part = "bugs"     => CorrelationTypeOK
  /\ part = "planning" => PlanningTypeOK
  /\ part = "notes"    => NotesTypeOK
  /\ part = "notifier" => NotifierTypeOK
  /\ part = "timing"   => TimingTypeOK
  /\ part = "watchman" => WatchmanTypeOK
  /\ part = "monitor"  => MonitorTypeOK
  /\ part = "queries"  => BugSearchTypeOK
=============================================================================
