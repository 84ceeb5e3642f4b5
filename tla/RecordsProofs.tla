---------------------------- MODULE RecordsProofs ----------------------------
(***************************************************************************)
(* Theorems about what is recorded by runs that overlap, repeat and fail.  *)
(* The watchman, for any number of instances, invocations and regions and  *)
(* any times the assumption allows: the types, and that the watermark      *)
(* passes no event that Slack was not told of (PassedIsTold).  The timing  *)
(* cache of payload-monitor, for any runs, jobs and number of builds: the  *)
(* types, and that a measured duration is kept (MeasuredKept).  The work   *)
(* directory of the doctor, for any releases, builds and number of runs:   *)
(* the types, that a run which stops publishes nothing                     *)
(* (AbortPublishesNothing), and that no release looks clean that is not    *)
(* (NoFalseClean).  And about the union of these with the planning report, *)
(* the notes, the dashboard, the monitor and the bugs: it behaves like     *)
(* each of them, and has its types.                                        *)
(***************************************************************************)
EXTENDS MCReport, ReportProofs, SequenceTheorems, FiniteSetTheorems, WellFoundedInduction, TLAPS

(***************************************************************************)
(* The watchman                                                            *)
(***************************************************************************)
Events == [instance : Instances, at : Nat, ok : BOOLEAN, missedBy : SUBSET Reports]

ReportRecords ==
  [at : {"off", "read", "query", "post", "write", "over"}, start : Int, end : Nat,
   events : SUBSET Events, asked : BOOLEAN, posted : BOOLEAN]

SweepRecords ==
  [at : {"off", "describe", "stop", "record", "over"}, began : Nat, region : Nat,
   chosen : SUBSET Instances, accepted : SUBSET Instances, left : SUBSET Instances,
   stamp : Int]

WatchmanTypes ==
  /\ clock \in 0..LastTime /\ watermark \in -1..LastTime
  /\ sweep \in [Sweeps -> SweepRecords] /\ report \in [Reports -> ReportRecords]
  /\ table \subseteq Events /\ told \subseteq Events /\ first \subseteq Int
  /\ \A s \in Sweeps : sweep[s].left \subseteq sweep[s].chosen /\ sweep[s].stamp \in -1..clock
  /\ \A r \in Reports : report[r].end <= clock
  /\ \A e \in table \cup told : e.at <= clock
  /\ \A r \in Reports : \A e \in report[r].events : e.at <= clock

\* A report that has read its watermark and not yet moved it.
Reading(r) == report[r].at \in {"query", "post", "write"}

Within(r, e) == report[r].start <= e.at /\ e.at < report[r].end

Covered(e) == e \in told \/ \E r \in e.missedBy : report[r].posted

CoveredUpTo(time) ==
  \A e \in table, start \in first : start <= e.at /\ e.at < time => Covered(e)

\* What the flags of a report say about its step.
Flags ==
  \A r \in Reports :
    /\ report[r].posted => report[r].asked /\ report[r].at \in {"write", "over"}
    /\ report[r].at = "post" => report[r].asked
    /\ report[r].at = "write" => report[r].posted

\* No report outlives the Lambda timeout.
InTime == \A r \in Reports : UnderWay(report[r]) => clock <= report[r].end + Lifetime

\* Before there is a watermark a report looks back one week.
FirstWeek ==
  /\ first = {} <=> watermark = -1
  /\ first = {} => \A r \in Reports : Reading(r) => report[r].start = report[r].end - Week

\* Behind every watermark, past or present, is a report that Slack accepted.
AcceptedBySlack(time) == \E q \in Reports : report[q].posted /\ time <= report[q].end

MarkAccepted ==
  first # {} =>
    AcceptedBySlack(watermark) /\ \A r \in Reports : Reading(r) => AcceptedBySlack(report[r].start)

\* The events of its window that a report does not hold, or has not told, were
\* written after it asked the table.
WindowHeld ==
  \A r \in Reports, e \in table : Within(r, e) =>
    /\ report[r].at = "post" => e \in report[r].events \/ r \in e.missedBy
    /\ report[r].at = "write" => e \in told \/ r \in e.missedBy

BehindCovered ==
  /\ CoveredUpTo(watermark)
  /\ \A r \in Reports : Reading(r) => CoveredUpTo(report[r].start)

WatchmanInv ==
  WatchmanTypes /\ Flags /\ InTime /\ FirstWeek /\ MarkAccepted /\ WindowHeld /\ BehindCovered

LEMMA WatchmanInit ==
  ASSUME WatchmanAssumption
  PROVE  InitWatchman => WatchmanInv
<1> USE DEF WatchmanAssumption, InitWatchman, WatchmanInv, WatchmanTypes
<1>1. Asleep \in SweepRecords /\ Unasked \in ReportRecords
  BY DEF Asleep, Unasked, SweepRecords, ReportRecords
<1>2. InitWatchman => WatchmanTypes
  BY <1>1 DEF Asleep, Unasked
<1>3. InitWatchman => Flags /\ InTime /\ FirstWeek
  BY DEF Flags, InTime, FirstWeek, Unasked, UnderWay, Reading
<1>4. InitWatchman => MarkAccepted /\ WindowHeld /\ BehindCovered
  BY DEF MarkAccepted, WindowHeld, BehindCovered, CoveredUpTo
<1> QED
  BY <1>2, <1>3, <1>4

(***************************************************************************)
(* WatchmanTypes                                                                   *)
(***************************************************************************)
SweepTyped(rec) ==
  /\ rec \in SweepRecords /\ rec.left \subseteq rec.chosen /\ rec.stamp \in -1..clock

ReportTyped(rec) ==
  /\ rec \in ReportRecords /\ rec.end <= clock /\ \A e \in rec.events : e.at <= clock

\* A step of one sweep keeps the types when the new record is typed.
LEMMA SweepMoves ==
  ASSUME WatchmanTypes, NEW s \in Sweeps, NEW rec, SweepTyped(rec),
         sweep' = [sweep EXCEPT ![s] = rec],
         UNCHANGED <<clock, table, watermark, report, told, first>>
  PROVE  WatchmanTypes'
  BY DEF WatchmanTypes, SweepTyped

\* So does a step of one report.
LEMMA ReportMoves ==
  ASSUME WatchmanTypes, NEW r \in Reports, NEW rec, ReportTyped(rec),
         report' = [report EXCEPT ![r] = rec],
         UNCHANGED <<clock, sweep, table>>,
         watermark' \in -1..LastTime, first' \subseteq Int,
         told' \subseteq Events, \A e \in told' : e.at <= clock
  PROVE  WatchmanTypes'
  BY DEF WatchmanTypes, ReportTyped

LEMMA StopUpdate ==
  ASSUME NEW rec \in SweepRecords, NEW n \in Nat
  PROVE  LET stop == [rec EXCEPT !.at = "stop", !.region = n, !.left = {}, !.stamp = -1]
         IN  /\ stop \in SweepRecords /\ stop.left = {} /\ stop.stamp = -1
<1> DEFINE one == [rec EXCEPT !.at = "stop"]
           two == [one EXCEPT !.region = n]
           three == [two EXCEPT !.left = {}]
           four == [three EXCEPT !.stamp = -1]
<1>1. one \in SweepRecords
  BY DEF SweepRecords
<1>2. two \in SweepRecords
  <2> HIDE DEF one
  <2> QED BY <1>1 DEF SweepRecords
<1>3. three \in SweepRecords /\ three.left = {}
  <2> HIDE DEF two
  <2> QED BY <1>2 DEF SweepRecords
<1>4. four \in SweepRecords /\ four.left = {} /\ four.stamp = -1
  <2> HIDE DEF three
  <2> QED BY <1>3 DEF SweepRecords
<1>5. four = [rec EXCEPT !.at = "stop", !.region = n, !.left = {}, !.stamp = -1]
  OBVIOUS
<1> QED
  BY <1>4, <1>5

LEMMA NextRegionTyped ==
  ASSUME WatchmanAssumption, WatchmanTypes, NEW s \in Sweeps
  PROVE  SweepTyped(NextRegion(s))
<1> DEFINE rec == sweep[s]
           next == [rec EXCEPT !.at = "stop", !.region = @ + 1, !.left = {}, !.stamp = -1]
<1>1. clock \in Nat /\ rec \in SweepRecords
  BY DEF WatchmanTypes
<1>2. SweepTyped(Slept)
  BY <1>1 DEF SweepTyped, Slept, Asleep, SweepRecords
<1>3. SweepTyped(next)
  <2>1. rec.region + 1 \in Nat
    BY <1>1 DEF SweepRecords
  <2>2. next \in SweepRecords /\ next.left = {} /\ next.stamp = -1
    <3> HIDE DEF rec
    <3> QED
      BY <1>1, <2>1, StopUpdate, Zenon
  <2> HIDE DEF next
  <2> QED
    BY <1>1, <2>2 DEF SweepTyped
<1> QED
  BY <1>2, <1>3 DEF NextRegion

LEMMA SweepTypes ==
  ASSUME WatchmanAssumption, WatchmanTypes, NEW s \in Sweeps,
         \/ BeginSweep(s) \/ Stamp(s) \/ SweepDies(s)
         \/ \E answered \in BOOLEAN : DescribeRegion(s, answered)
         \/ \E reached, stopped \in SUBSET Here(s) : StopRegion(s, reached, stopped)
  PROVE  WatchmanTypes'
<1> DEFINE rec == sweep[s]
<1>1. clock \in Nat /\ rec \in SweepRecords /\ sweep \in [Sweeps -> SweepRecords]
      /\ rec.left \subseteq rec.chosen /\ rec.stamp \in -1..clock
  BY DEF WatchmanTypes
<1>2. CASE BeginSweep(s)
  <2> DEFINE new == [rec EXCEPT !.at = "describe", !.began = clock]
  <2>1. SweepTyped(new)
    BY <1>1 DEF SweepTyped, SweepRecords
  <2>2. sweep' = [sweep EXCEPT ![s] = new]
    BY <1>1, <1>2 DEF BeginSweep
  <2> QED
    BY <2>1, <2>2, <1>2, SweepMoves DEF BeginSweep
<1>3. CASE Stamp(s)
  <2> DEFINE new == [rec EXCEPT !.stamp = clock]
  <2>1. SweepTyped(new)
    BY <1>1 DEF SweepTyped, SweepRecords
  <2>2. sweep' = [sweep EXCEPT ![s] = new]
    BY <1>1, <1>3 DEF Stamp
  <2> QED
    BY <2>1, <2>2, <1>3, SweepMoves DEF Stamp
<1>4. CASE SweepDies(s)
  <2>1. SweepTyped(Slept)
    BY <1>1 DEF SweepTyped, Slept, Asleep, SweepRecords
  <2> QED
    BY <2>1, <1>4, SweepMoves DEF SweepDies
<1>5. ASSUME NEW answered \in BOOLEAN, DescribeRegion(s, answered)
      PROVE  WatchmanTypes'
  <2> DEFINE here == {i \in Instances : answered /\ RegionOf[i] = sweep[s].region /\ ShouldShutdown(i)}
             last == sweep[s].region = LastRegion
             c == rec.chosen \cup here
             then == IF last THEN "stop" ELSE "describe"
             n == IF last THEN 1 ELSE rec.region + 1
             new == [rec EXCEPT !.chosen = c, !.at = then, !.region = n]
  <2>1. sweep' = [sweep EXCEPT ![s] = new]
    BY <1>1, <1>5 DEF DescribeRegion
  <2>2. c \in SUBSET Instances /\ rec.chosen \subseteq c
    BY <1>1 DEF SweepRecords
  <2>3. n \in Nat /\ then \in {"describe", "stop"}
    BY <1>1 DEF SweepRecords
  <2>4. /\ new \in SweepRecords /\ new.left = rec.left /\ new.stamp = rec.stamp
        /\ new.chosen = c
    <3> HIDE DEF rec, c, then, n
    <3> QED
      BY ONLY <1>1, <2>2, <2>3 DEF SweepRecords
  <2>5. SweepTyped(new)
    <3> HIDE DEF c, new
    <3> QED
      BY <1>1, <2>2, <2>4 DEF SweepTyped
  <2> HIDE DEF c, then, n, new
  <2> QED
    BY <2>1, <2>5, <1>5, SweepMoves DEF DescribeRegion
<1>6. ASSUME NEW reached \in SUBSET Here(s), NEW stopped \in SUBSET Here(s),
             StopRegion(s, reached, stopped)
      PROVE  WatchmanTypes'
  <2> DEFINE new == [rec EXCEPT !.at = "record", !.accepted = reached, !.left = Here(s)]
  <2>1. Here(s) \subseteq rec.chosen /\ Here(s) \subseteq Instances
    BY <1>1 DEF Here, SweepRecords
  <2>2. SweepTyped(new)
    BY <1>1, <2>1 DEF SweepTyped, SweepRecords
  <2>3. \/ sweep' = [sweep EXCEPT ![s] = NextRegion(s)]
        \/ sweep' = [sweep EXCEPT ![s] = new]
    BY <1>6, Zenon DEF StopRegion
  <2>4. UNCHANGED <<clock, table, watermark, report, told, first>>
    BY <1>6 DEF StopRegion
  <2> HIDE DEF new
  <2> QED
    BY <2>2, <2>3, <2>4, NextRegionTyped, SweepMoves
<1> QED
  BY <1>2, <1>3, <1>4, <1>5, <1>6

LEMMA ReportEnds ==
  ASSUME NEW rec \in ReportRecords, NEW z \in Int
  PROVE  /\ [rec EXCEPT !.at = "over", !.start = z] \in ReportRecords
         /\ [rec EXCEPT !.at = "over", !.start = z].end = rec.end
         /\ [rec EXCEPT !.at = "over", !.start = z].events = rec.events
  BY DEF ReportRecords

LEMMA EventLeaves ==
  ASSUME NEW rec \in SweepRecords, NEW l \in SUBSET Instances
  PROVE  LET left == [rec EXCEPT !.left = l, !.stamp = -1]
         IN  /\ left \in SweepRecords /\ left.left = l
             /\ left.chosen = rec.chosen /\ left.stamp = -1
<1> DEFINE one == [rec EXCEPT !.left = l]
           two == [one EXCEPT !.stamp = -1]
<1>1. one \in SweepRecords /\ one.left = l /\ one.chosen = rec.chosen
  BY DEF SweepRecords
<1>2. /\ two \in SweepRecords /\ two.left = l
      /\ two.chosen = rec.chosen /\ two.stamp = -1
  <2> HIDE DEF one
  <2> QED
    BY <1>1 DEF SweepRecords
<1>3. two = [rec EXCEPT !.left = l, !.stamp = -1]
  OBVIOUS
<1> QED
  BY <1>2, <1>3

LEMMA ReportTypes ==
  ASSUME WatchmanAssumption, WatchmanTypes, NEW r \in Reports,
         \/ BeginReport(r) \/ ReadWatermark(r) \/ QueryEvents(r)
         \/ PostDigest(r) \/ WriteWatermark(r) \/ ReportFails(r)
  PROVE  /\ WatchmanTypes'
         /\ \A q \in Reports \ {r} : report'[q] = report[q]
<1> DEFINE rec == report[r]
<1>1. /\ clock \in Nat /\ rec \in ReportRecords /\ report \in [Reports -> ReportRecords]
      /\ rec.end <= clock /\ \A e \in rec.events : e.at <= clock
  BY DEF WatchmanTypes
<1>2. /\ watermark \in -1..LastTime /\ first \subseteq Int /\ table \subseteq Events /\ clock <= LastTime
      /\ told \subseteq Events /\ \A e \in table \cup told : e.at <= clock
  BY DEF WatchmanTypes
<1>3. ReportTyped([Unasked EXCEPT !.at = "over"])
  <2>1. Unasked \in ReportRecords /\ Unasked.end = 0 /\ Unasked.events = {}
    BY DEF Unasked, ReportRecords
  <2>2. [Unasked EXCEPT !.at = "over"] \in ReportRecords
        /\ [Unasked EXCEPT !.at = "over"].end = 0 /\ [Unasked EXCEPT !.at = "over"].events = {}
    BY ONLY <2>1 DEF ReportRecords
  <2> QED
    BY <1>1, <2>2 DEF ReportTyped
<1>4. CASE BeginReport(r)
  <2> DEFINE new == [rec EXCEPT !.at = "read", !.end = clock]
  <2>1. ReportTyped(new)
    <3>1. new \in ReportRecords /\ new.end = clock /\ new.events = rec.events
      <4> HIDE DEF rec
      <4> QED
        BY ONLY <1>1 DEF ReportRecords
    <3> HIDE DEF new
    <3> QED
      BY <1>1, <3>1 DEF ReportTyped
  <2>2. report' = [report EXCEPT ![r] = new]
    BY <1>1, <1>4 DEF BeginReport
  <2> HIDE DEF new
  <2> QED
    BY <1>1, <1>2, <2>1, <2>2, <1>4, ReportMoves DEF BeginReport
<1>5. CASE ReadWatermark(r)
  <2> DEFINE start == IF watermark = -1 THEN rec.end - Week ELSE watermark
             new == [rec EXCEPT !.start = start, !.at = "query"]
  <2>1. start \in Int
    BY <1>1, <1>2 DEF ReportRecords, WatchmanAssumption
  <2>2. ReportTyped(new)
    <3> HIDE DEF start
    <3> QED
      BY <1>1, <2>1 DEF ReportTyped, ReportRecords
  <2>3. \/ report' = [report EXCEPT ![r] = [Unasked EXCEPT !.at = "over"]]
        \/ report' = [report EXCEPT ![r] = new]
    BY <1>1, <1>5 DEF ReadWatermark
  <2> HIDE DEF new
  <2> QED
    BY <1>1, <1>2, <1>3, <2>2, <2>3, <1>5, ReportMoves DEF ReadWatermark
<1>6. CASE QueryEvents(r)
  <2> DEFINE found == {e \in table : report[r].start <= e.at /\ e.at < report[r].end}
             new == [rec EXCEPT !.at = "post", !.asked = TRUE, !.events = found]
  <2>1. found \subseteq Events /\ \A e \in found : e.at <= clock
    BY <1>2
  <2>2. report' = [report EXCEPT ![r] = new]
    BY <1>1, <1>6 DEF QueryEvents
  <2> HIDE DEF found
  <2>3. ReportTyped(new)
    BY <1>1, <2>1 DEF ReportTyped, ReportRecords
  <2> HIDE DEF new
  <2> QED
    BY <1>1, <1>2, <2>2, <2>3, <1>6, ReportMoves DEF QueryEvents
<1>7. CASE PostDigest(r)
  <2> DEFINE new == [rec EXCEPT !.at = "write", !.posted = TRUE, !.events = {}]
  <2>1. ReportTyped(new)
    BY <1>1 DEF ReportTyped, ReportRecords
  <2>2. report' = [report EXCEPT ![r] = new]
    BY <1>1, <1>7 DEF PostDigest
  <2>3. told' \subseteq Events /\ \A e \in told' : e.at <= clock
    BY <1>1, <1>2, <1>7 DEF PostDigest, ReportRecords
  <2> HIDE DEF new
  <2> QED
    BY <1>1, <1>2, <2>1, <2>2, <2>3, <1>7, ReportMoves DEF PostDigest
<1>8. ReportTyped([rec EXCEPT !.at = "over", !.start = 0])
  <2> DEFINE new == [rec EXCEPT !.at = "over", !.start = 0]
  <2>1. new \in ReportRecords /\ new.end = rec.end /\ new.events = rec.events
    <3>1. 0 \in Int
      OBVIOUS
    <3> QED
      BY <1>1, <3>1, ReportEnds, Zenon
  <2> HIDE DEF new
  <2>2. ReportTyped(new)
    BY <1>1, <2>1 DEF ReportTyped
  <2> QED
    BY <2>2 DEF new
<1>9. CASE WriteWatermark(r)
  <2>1. watermark' \in -1..LastTime
    BY <1>1, <1>2, <1>9 DEF WriteWatermark, Mark, ReportRecords, WatchmanAssumption
  <2>2. first' \subseteq Int
    BY <1>1, <1>2, <1>9 DEF WriteWatermark, ReportRecords
  <2>3. report' = [report EXCEPT ![r] = [rec EXCEPT !.at = "over", !.start = 0]]
    BY <1>1, <1>9 DEF WriteWatermark
  <2> QED
    BY <1>1, <1>2, <1>8, <2>1, <2>2, <2>3, <1>9, ReportMoves DEF WriteWatermark
<1>10. CASE ReportFails(r)
  <2>1. \/ report' = [report EXCEPT ![r] = [Unasked EXCEPT !.at = "over"]]
        \/ report' = [report EXCEPT ![r] = [rec EXCEPT !.at = "over", !.start = 0]]
    BY <1>1, <1>10 DEF ReportFails
  <2> QED
    BY <1>1, <1>2, <1>3, <1>8, <2>1, <1>10, ReportMoves DEF ReportFails
<1> QED
  BY <1>4, <1>5, <1>6, <1>7, <1>9, <1>10

LEMMA RecordEventTypes ==
  ASSUME WatchmanAssumption, WatchmanTypes, NEW s \in Sweeps, NEW i \in sweep[s].left,
         NEW written \in BOOLEAN, RecordEvent(s, i, written)
  PROVE  WatchmanTypes'
<1> DEFINE rec == sweep[s]
           event == [instance |-> i, at |-> rec.stamp, ok |-> i \in rec.accepted,
                     missedBy |-> AskedBefore(rec.stamp)]
           l == rec.left \ {i}
           new == [rec EXCEPT !.left = l, !.stamp = -1]
<1>1. /\ clock \in Nat /\ rec \in SweepRecords /\ sweep \in [Sweeps -> SweepRecords]
      /\ rec.left \subseteq rec.chosen /\ rec.stamp \in -1..clock
  BY DEF WatchmanTypes
<1>2. event \in Events /\ event.at <= clock
  <2>1. i \in Instances /\ rec.stamp \in 0..clock /\ AskedBefore(rec.stamp) \subseteq Reports
    BY <1>1 DEF SweepRecords, RecordEvent, AskedBefore
  <2> HIDE DEF rec
  <2> QED
    BY <2>1, <1>1 DEF Events
<1>3. SweepTyped(new)
  <2>1. l \in SUBSET Instances
    BY <1>1 DEF SweepRecords
  <2>2. /\ new \in SweepRecords /\ new.left = l
        /\ new.chosen = rec.chosen /\ new.stamp = -1
    <3> HIDE DEF rec, l
    <3> QED
      BY <1>1, <2>1, EventLeaves, Zenon
  <2> HIDE DEF new
  <2> QED
    BY <1>1, <2>2 DEF SweepTyped
<1>4. \/ sweep' = [sweep EXCEPT ![s] = NextRegion(s)]
      \/ sweep' = [sweep EXCEPT ![s] = new]
  BY <1>1 DEF RecordEvent
<1>5. \E rec2 : sweep' = [sweep EXCEPT ![s] = rec2] /\ SweepTyped(rec2)
  <2> HIDE DEF new
  <2> QED
    BY <1>3, <1>4, NextRegionTyped
<1>6. table' \subseteq table \cup {event}
  BY DEF RecordEvent
<1>7. UNCHANGED <<clock, watermark, report, told, first>>
  BY DEF RecordEvent
<1> HIDE DEF event
<1> QED
  BY <1>2, <1>5, <1>6, <1>7 DEF WatchmanTypes, SweepTyped

LEMMA TypesNext ==
  ASSUME WatchmanAssumption
  PROVE  WatchmanTypes /\ [WatchmanStep]_watchmanVars => WatchmanTypes'
<1> SUFFICES ASSUME WatchmanTypes, [WatchmanStep]_watchmanVars PROVE WatchmanTypes'
  OBVIOUS
<1>1. CASE Tick
  <2>1. clock \in Nat /\ LastTime \in Nat /\ clock' \in 0..LastTime /\ clock <= clock'
    BY <1>1 DEF WatchmanTypes, Tick, WatchmanAssumption
  <2>2. UNCHANGED <<sweep, report, table, watermark, told, first>>
    BY <1>1 DEF Tick
  <2>3. \A s \in Sweeps : sweep[s].left \subseteq sweep[s].chosen /\ sweep[s].stamp \in -1..clock'
    BY <2>1 DEF WatchmanTypes
  <2>4. \A r \in Reports : report[r].end \in Nat /\ \A e \in report[r].events : e.at \in Nat
    BY DEF WatchmanTypes, ReportRecords, Events
  <2>5. /\ \A r \in Reports : report[r].end <= clock'
        /\ \A e \in table \cup told : e.at <= clock'
        /\ \A r \in Reports : \A e \in report[r].events : e.at <= clock'
    BY <2>1, <2>4 DEF WatchmanTypes, Events
  <2> QED
    BY <2>1, <2>2, <2>3, <2>5 DEF WatchmanTypes
<1>2. CASE \E i \in Instances : Restart(i)
  BY <1>2 DEF WatchmanTypes, Restart
<1>3. CASE \E e \in table : Expire(e)
  BY <1>3 DEF WatchmanTypes, Expire
<1>4. CASE UNCHANGED watchmanVars
  BY <1>4 DEF WatchmanTypes, watchmanVars
<1> QED
  BY <1>1, <1>2, <1>3, <1>4, SweepTypes, ReportTypes, RecordEventTypes DEF WatchmanStep

(***************************************************************************)
(* The reports                                                             *)
(***************************************************************************)
\* A step that leaves the reports, the table and what was told alone keeps
\* what is said of them.
LEMMA ReportsStill ==
  ASSUME Flags, FirstWeek, MarkAccepted, WindowHeld, BehindCovered,
         UNCHANGED <<table, watermark, report, told, first>>
  PROVE  Flags' /\ FirstWeek' /\ MarkAccepted' /\ WindowHeld' /\ BehindCovered'
<1>1. Flags'
  BY DEF Flags
<1>2. FirstWeek'
  BY DEF FirstWeek, Reading
<1>3. MarkAccepted'
  BY DEF MarkAccepted, AcceptedBySlack, Reading
<1>4. WindowHeld'
  BY DEF WindowHeld, Within
<1>5. BehindCovered'
  BY DEF BehindCovered, CoveredUpTo, Covered, Reading
<1> QED
  BY <1>1, <1>2, <1>3, <1>4, <1>5

LEMMA ExpireKeeps ==
  ASSUME WatchmanInv, NEW e \in table, Expire(e)
  PROVE  Flags' /\ FirstWeek' /\ MarkAccepted' /\ WindowHeld' /\ BehindCovered'
<1>0. table' \subseteq table /\ UNCHANGED <<watermark, report, told, first>>
  BY DEF Expire
<1> USE <1>0 DEF WatchmanInv
<1>1. Flags'
  BY DEF Flags
<1>2. FirstWeek'
  BY DEF FirstWeek, Reading
<1>3. MarkAccepted'
  BY DEF MarkAccepted, AcceptedBySlack, Reading
<1>4. WindowHeld'
  BY DEF WindowHeld, Within
<1>5. BehindCovered'
  BY DEF BehindCovered, CoveredUpTo, Covered, Reading
<1> QED
  BY <1>1, <1>2, <1>3, <1>4, <1>5

\* A late event is one that every report has missed whose time held it.
LEMMA LateEvent ==
  ASSUME WatchmanInv, NEW time \in Int, AcceptedBySlack(time), NEW e,
         e.at \in Int, e.missedBy = AskedBefore(e.at), e.at < time
  PROVE  Covered(e)
<1>1. PICK q \in Reports : report[q].posted /\ time <= report[q].end
  BY DEF AcceptedBySlack
<1>2. report[q].asked /\ report[q].end \in Nat
  BY <1>1 DEF WatchmanInv, Flags, WatchmanTypes, ReportRecords
<1>3. q \in e.missedBy
  BY <1>1, <1>2 DEF AskedBefore
<1> QED
  BY <1>1, <1>3 DEF Covered

LEMMA RecordEventKeeps ==
  ASSUME WatchmanAssumption, WatchmanInv, NEW s \in Sweeps, NEW i \in sweep[s].left,
         NEW written \in BOOLEAN, RecordEvent(s, i, written)
  PROVE  Flags' /\ FirstWeek' /\ MarkAccepted' /\ WindowHeld' /\ BehindCovered'
<1> DEFINE event == [instance |-> i, at |-> sweep[s].stamp, ok |-> i \in sweep[s].accepted,
                     missedBy |-> AskedBefore(sweep[s].stamp)]
<1>1. UNCHANGED <<clock, watermark, report, told, first>> /\ table' \subseteq table \cup {event}
  BY DEF RecordEvent
<1>2. event.at = sweep[s].stamp /\ event.missedBy = AskedBefore(event.at)
  OBVIOUS
<1>3. event.at \in Int
  BY DEF WatchmanInv, WatchmanTypes, SweepRecords
<1> HIDE DEF event
<1>4. Flags'
  BY <1>1 DEF WatchmanInv, Flags
<1>5. FirstWeek'
  BY <1>1 DEF WatchmanInv, FirstWeek, Reading
<1>6. MarkAccepted'
  BY <1>1 DEF WatchmanInv, MarkAccepted, AcceptedBySlack, Reading
<1>7. WindowHeld'
  <2> SUFFICES ASSUME NEW r \in Reports, NEW e \in table', Within(r, e)
               PROVE  /\ report[r].at = "post" => e \in report[r].events \/ r \in e.missedBy
                      /\ report[r].at = "write" => e \in told \/ r \in e.missedBy
    BY <1>1 DEF WindowHeld, Within
  <2>1. CASE e \in table
    BY <2>1 DEF WatchmanInv, WindowHeld
  <2>2. CASE e = event
    <3>1. report[r].asked => r \in e.missedBy
      BY <2>2, <1>2 DEF Within, AskedBefore
    <3>2. report[r].at \in {"post", "write"} => report[r].asked
      BY DEF WatchmanInv, Flags
    <3> QED
      BY <3>1, <3>2
  <2> QED
    BY <2>1, <2>2, <1>1
<1>8. ASSUME NEW time \in Int, CoveredUpTo(time), first # {} => AcceptedBySlack(time)
      PROVE  \A e \in table', start \in first : start <= e.at /\ e.at < time => Covered(e)
  BY <1>1, <1>2, <1>3, <1>8, LateEvent DEF CoveredUpTo
<1>9. BehindCovered'
  <2>1. watermark \in Int /\ \A r \in Reports : report[r].start \in Int
    BY DEF WatchmanInv, WatchmanTypes, ReportRecords
  <2>2. \A e \in table', start \in first : start <= e.at /\ e.at < watermark => Covered(e)
    BY <2>1, <1>8 DEF WatchmanInv, BehindCovered, MarkAccepted
  <2>3. \A r \in Reports : Reading(r) =>
          \A e \in table', start \in first : start <= e.at /\ e.at < report[r].start => Covered(e)
    BY <2>1, <1>8 DEF WatchmanInv, BehindCovered, MarkAccepted
  <2> QED
    BY <1>1, <2>2, <2>3 DEF BehindCovered, CoveredUpTo, Covered, Reading
<1> QED
  BY <1>4, <1>5, <1>6, <1>7, <1>9

\* A report that neither reads nor moves the watermark: what reached Slack
\* stays told, and no report reads from an earlier time than before.
LEMMA QuietReport ==
  ASSUME WatchmanInv, NEW r \in Reports,
         \A q \in Reports \ {r} : report'[q] = report[q],
         UNCHANGED <<table, watermark, first>>, told \subseteq told',
         report[r].posted => report'[r].posted /\ report'[r].end = report[r].end,
         Reading(r)' => Reading(r) /\ report'[r].start = report[r].start
                                   /\ report'[r].end = report[r].end
  PROVE  FirstWeek' /\ MarkAccepted' /\ BehindCovered'
<1>1. \A q \in Reports : report[q].posted => report'[q].posted /\ report'[q].end = report[q].end
  OBVIOUS
<1>2. \A q \in Reports : Reading(q)' => Reading(q) /\ report'[q].start = report[q].start
                                                 /\ report'[q].end = report[q].end
  BY DEF Reading
<1>3. \A time : AcceptedBySlack(time) => \E q \in Reports : report'[q].posted /\ time <= report'[q].end
  BY <1>1 DEF AcceptedBySlack
<1>4. FirstWeek'
  BY <1>2 DEF WatchmanInv, FirstWeek
<1>5. MarkAccepted'
  BY <1>2, <1>3 DEF WatchmanInv, MarkAccepted, AcceptedBySlack
<1>6. \A e \in table : Covered(e) => Covered(e)'
  BY <1>1 DEF Covered, WatchmanInv, WatchmanTypes, Events
<1>7. BehindCovered'
  BY <1>2, <1>6 DEF WatchmanInv, BehindCovered, CoveredUpTo
<1> QED
  BY <1>4, <1>5, <1>7

LEMMA OtherReportsKeep ==
  ASSUME Flags, WindowHeld, InTime, NEW r \in Reports,
         \A q \in Reports \ {r} : report'[q] = report[q],
         UNCHANGED <<clock, table>>, told \subseteq told',
         report'[r].posted => report'[r].asked /\ report'[r].at \in {"write", "over"},
         report'[r].at = "post" => report'[r].asked,
         report'[r].at = "write" => report'[r].posted,
         report'[r].at \notin {"off", "over"} => clock <= report'[r].end + Lifetime,
         \A e \in table : Within(r, e)' =>
           /\ report'[r].at = "post" => e \in report'[r].events \/ r \in e.missedBy
           /\ report'[r].at = "write" => e \in told' \/ r \in e.missedBy
  PROVE  Flags' /\ WindowHeld' /\ InTime'
<1>1. Flags'
  BY DEF Flags
<1>2. WindowHeld'
  BY DEF WindowHeld, Within
<1>3. InTime'
  BY DEF InTime, UnderWay
<1> QED
  BY <1>1, <1>2, <1>3

LEMMA ReportKeeps ==
  ASSUME WatchmanAssumption, WatchmanInv, NEW r \in Reports,
         \/ BeginReport(r) \/ QueryEvents(r) \/ PostDigest(r) \/ ReportFails(r)
  PROVE  WatchmanInv'
<1> DEFINE rec == report[r]
           new == report'[r]
<1>1. WatchmanTypes' /\ \A q \in Reports \ {r} : report'[q] = report[q]
  BY ReportTypes DEF WatchmanInv
<1>2. rec \in ReportRecords /\ report \in [Reports -> ReportRecords] /\ clock \in Nat /\ Lifetime \in Nat
  BY DEF WatchmanInv, WatchmanTypes, WatchmanAssumption
<1>3. /\ rec.posted => rec.asked /\ rec.at \in {"write", "over"}
      /\ rec.at = "write" => rec.posted
      /\ rec.at = "post" => rec.asked
      /\ rec.at \notin {"off", "over"} => clock <= rec.end + Lifetime
  BY DEF WatchmanInv, Flags, InTime, UnderWay
<1>4. UNCHANGED <<clock, table, watermark, first>> /\ told \subseteq told'
  BY DEF BeginReport, QueryEvents, PostDigest, ReportFails
<1>5. CASE BeginReport(r)
  <2>1. /\ new.at = "read" /\ new.end = clock /\ new.posted = rec.posted /\ new.asked = rec.asked
        /\ ~rec.posted
    BY <1>2, <1>3, <1>5 DEF BeginReport, ReportRecords
  <2>2. Flags' /\ WindowHeld' /\ InTime'
    BY <1>1, <1>2, <1>4, <2>1, OtherReportsKeep DEF WatchmanInv
  <2>3. FirstWeek' /\ MarkAccepted' /\ BehindCovered'
    BY <1>1, <1>4, <2>1, QuietReport DEF Reading
  <2> QED
    BY <1>1, <2>2, <2>3 DEF WatchmanInv
<1>6. CASE QueryEvents(r)
  <2>1. /\ rec.at = "query" /\ new.at = "post" /\ new.end = rec.end /\ new.start = rec.start
        /\ new.posted = rec.posted /\ new.asked /\ ~rec.posted
        /\ new.events = {e \in table : rec.start <= e.at /\ e.at < rec.end}
    BY <1>2, <1>3, <1>6 DEF QueryEvents, ReportRecords
  <2>2. \A e \in table : Within(r, e)' => e \in new.events
    BY <1>4, <2>1 DEF Within
  <2>3. Flags' /\ WindowHeld' /\ InTime'
    BY <1>1, <1>3, <1>4, <2>1, <2>2, OtherReportsKeep DEF WatchmanInv
  <2>4. FirstWeek' /\ MarkAccepted' /\ BehindCovered'
    BY <1>1, <1>4, <2>1, QuietReport DEF Reading
  <2> QED
    BY <1>1, <2>3, <2>4 DEF WatchmanInv
<1>7. CASE PostDigest(r)
  <2>1. /\ rec.at = "post" /\ new.at = "write" /\ new.end = rec.end /\ new.start = rec.start
        /\ new.posted /\ new.asked = rec.asked /\ told' = told \cup rec.events
    BY <1>2, <1>7 DEF PostDigest, ReportRecords
  <2>2. \A e \in table : Within(r, e)' => e \in told' \/ r \in e.missedBy
    BY <2>1 DEF Within, WatchmanInv, WindowHeld
  <2>3. Flags' /\ WindowHeld' /\ InTime'
    BY <1>1, <1>3, <1>4, <2>1, <2>2, OtherReportsKeep DEF WatchmanInv
  <2>4. FirstWeek' /\ MarkAccepted' /\ BehindCovered'
    BY <1>1, <1>4, <2>1, QuietReport DEF Reading
  <2> QED
    BY <1>1, <2>3, <2>4 DEF WatchmanInv
<1>8. CASE ReportFails(r)
  <2>1. /\ new.at = "over"
        /\ rec.posted => new.posted /\ new.asked /\ new.end = rec.end
        /\ new.posted => rec.posted
    BY <1>2, <1>3, <1>8 DEF ReportFails, ReportRecords, Unasked
  <2>2. Flags' /\ WindowHeld' /\ InTime'
    BY <1>1, <1>3, <1>4, <2>1, OtherReportsKeep DEF WatchmanInv
  <2>3. FirstWeek' /\ MarkAccepted' /\ BehindCovered'
    BY <1>1, <1>4, <2>1, QuietReport DEF Reading
  <2> QED
    BY <1>1, <2>2, <2>3 DEF WatchmanInv
<1> QED
  BY <1>5, <1>6, <1>7, <1>8

\* A report starts where the last accepted one ended, or a week back.
LEMMA ReadWatermarkKeeps ==
  ASSUME WatchmanAssumption, WatchmanInv, NEW r \in Reports, ReadWatermark(r)
  PROVE  WatchmanInv'
<1> DEFINE rec == report[r]
           new == report'[r]
<1>1. WatchmanTypes' /\ \A q \in Reports \ {r} : report'[q] = report[q]
  BY ReportTypes DEF WatchmanInv
<1>2. /\ rec \in ReportRecords /\ report \in [Reports -> ReportRecords] /\ clock \in Nat
      /\ Lifetime \in Nat /\ watermark \in Int
  <2>1. report \in [Reports -> ReportRecords] /\ clock \in 0..LastTime /\ watermark \in -1..LastTime
    BY DEF WatchmanInv, WatchmanTypes
  <2>2. LastTime \in Nat /\ Lifetime \in Nat
    BY DEF WatchmanAssumption
  <2> QED
    BY <2>1, <2>2
<1>3. ~rec.posted /\ clock <= rec.end + Lifetime
  BY DEF WatchmanInv, Flags, InTime, UnderWay, ReadWatermark
<1>4. UNCHANGED <<clock, table, watermark, first, told>>
  BY DEF ReadWatermark
<1>5. \/ new.at = "over" /\ ~new.posted
      \/ /\ new.at = "query" /\ new.end = rec.end /\ ~new.posted
         /\ new.start = IF watermark = -1 THEN rec.end - Week ELSE watermark
  BY <1>2, <1>3 DEF ReadWatermark, ReportRecords, Unasked
<1>6. Flags' /\ WindowHeld' /\ InTime'
  BY <1>1, <1>3, <1>4, <1>5, OtherReportsKeep DEF WatchmanInv
<1>7. \A q \in Reports : report[q].posted => report'[q].posted /\ report'[q].end = report[q].end
  BY <1>1, <1>3
<1>8. \A time : AcceptedBySlack(time) => \E q \in Reports : report'[q].posted /\ time <= report'[q].end
  BY <1>7 DEF AcceptedBySlack
<1>9. Reading(r)' => /\ watermark = -1 => first = {} /\ new.start = new.end - Week
                     /\ watermark # -1 => first # {} /\ new.start = watermark
  BY <1>5 DEF WatchmanInv, FirstWeek, Reading
<1>10. \A q \in Reports \ {r} : Reading(q)' <=> Reading(q)
  BY <1>1 DEF Reading
<1>11. FirstWeek'
  BY <1>1, <1>4, <1>9, <1>10 DEF WatchmanInv, FirstWeek
<1>12. MarkAccepted'
  BY <1>1, <1>4, <1>8, <1>9, <1>10 DEF WatchmanInv, MarkAccepted, AcceptedBySlack
<1>13. \A e \in table : Covered(e) => Covered(e)'
  BY <1>4, <1>7 DEF Covered, WatchmanInv, WatchmanTypes, Events
<1>14. BehindCovered'
  BY <1>1, <1>4, <1>9, <1>10, <1>13 DEF WatchmanInv, BehindCovered, CoveredUpTo
<1> QED
  BY <1>1, <1>6, <1>11, <1>12, <1>14 DEF WatchmanInv

\* The watermark moves to the end of a report that Slack accepted.  The first
\* that moves it also covers what the others, which look back a week, begin
\* behind: none began more than the timeout, so a week, after it.
LEMMA WriteWatermarkKeeps ==
  ASSUME WatchmanAssumption, WatchmanInv, NEW r \in Reports, WriteWatermark(r)
  PROVE  WatchmanInv'
<1> DEFINE rec == report[r]
           new == report'[r]
<1>1. WatchmanTypes' /\ \A q \in Reports \ {r} : report'[q] = report[q]
  BY ReportTypes DEF WatchmanInv
<1>2. /\ rec \in ReportRecords /\ report \in [Reports -> ReportRecords] /\ clock \in Nat
      /\ Lifetime \in Nat /\ watermark \in Int /\ Week \in Nat /\ Lifetime <= Week
  BY DEF WatchmanInv, WatchmanTypes, WatchmanAssumption
<1>3. /\ rec.at = "write" /\ rec.posted /\ rec.asked /\ Reading(r) /\ clock <= rec.end + Lifetime
      /\ rec.end \in Nat /\ rec.start \in Int
  BY <1>2 DEF WatchmanInv, Flags, InTime, UnderWay, WriteWatermark, Reading, ReportRecords
<1>4. /\ UNCHANGED <<clock, table, told>> /\ watermark' = rec.end
      /\ first' = IF first = {} THEN {rec.start} ELSE first
  BY DEF WriteWatermark, Mark
<1>5. new.at = "over" /\ new.posted /\ new.asked /\ new.end = rec.end
  BY <1>2, <1>3 DEF WriteWatermark, ReportRecords
<1>6. Flags' /\ WindowHeld' /\ InTime'
  BY <1>1, <1>4, <1>5, OtherReportsKeep DEF WatchmanInv
<1>7. \A q \in Reports : (report'[q].posted <=> report[q].posted) /\ report'[q].end = report[q].end
  BY <1>1, <1>3, <1>5
<1>8. ~Reading(r)' /\ \A q \in Reports \ {r} : Reading(q)' => Reading(q) /\ report'[q].start = report[q].start
  BY <1>1, <1>5 DEF Reading
<1>9. \A e \in table : Within(r, e) => Covered(e)
  BY <1>3 DEF WatchmanInv, WindowHeld, Covered
<1>10. \A e \in table : e.at \in Int /\ e.missedBy \subseteq Reports
  BY DEF WatchmanInv, WatchmanTypes, Events
<1>11. \A e \in table : Covered(e) => Covered(e)'
  BY <1>4, <1>7, <1>10 DEF Covered
<1>12. first = {} => \A q \in Reports : Reading(q) => report[q].start <= rec.end
  <2> SUFFICES ASSUME first = {}, NEW q \in Reports, Reading(q) PROVE report[q].start <= rec.end
    OBVIOUS
  <2>1. report[q].start = report[q].end - Week /\ report[q].end \in Nat /\ report[q].end <= clock
    BY DEF WatchmanInv, FirstWeek, WatchmanTypes, ReportRecords
  <2> QED
    BY <1>2, <1>3, <2>1
<1>13. first' # {} /\ FirstWeek'
  <2>1. first' # {}
    <3>1. CASE first = {}
      BY <3>1, <1>4
    <3>2. CASE first # {}
      BY <3>2, <1>4
    <3> QED
      BY <3>1, <3>2
  <2>2. watermark' # -1
    BY <1>3, <1>4
  <2> QED
    BY <2>1, <2>2 DEF FirstWeek
<1>14. MarkAccepted'
  <2>1. report'[r].posted /\ rec.end <= report'[r].end /\ first' # {}
    BY <1>3, <1>5, <1>13
  <2>2. ASSUME NEW q \in Reports, Reading(q)'
        PROVE  \E p \in Reports : report'[p].posted /\ report'[q].start <= report'[p].end
    <3>1. q # r /\ Reading(q) /\ report'[q].start = report[q].start
      BY <2>2, <1>8
    <3>2. CASE first = {}
      BY <3>1, <3>2, <1>5, <1>12
    <3>3. CASE first # {}
      BY <3>1, <3>3, <1>7 DEF WatchmanInv, MarkAccepted, AcceptedBySlack
    <3> QED
      BY <3>2, <3>3
  <2> QED
    BY <1>4, <2>1, <2>2 DEF MarkAccepted, AcceptedBySlack
<1>15. ASSUME NEW e \in table, NEW start \in first', start <= e.at, e.at < rec.end
       PROVE  Covered(e)
  <2>1. CASE rec.start <= e.at
    BY <2>1, <1>9, <1>15 DEF Within
  <2>2. CASE e.at < rec.start
    <3>1. start \in first
      BY <2>2, <1>4, <1>10, <1>3, <1>15
    <3> QED
      BY <2>2, <3>1, <1>3, <1>15 DEF WatchmanInv, BehindCovered, CoveredUpTo
  <2> QED
    BY <2>1, <2>2, <1>3, <1>10
<1>16. BehindCovered'
  <2>1. CoveredUpTo(watermark)'
    BY <1>4, <1>11, <1>15 DEF CoveredUpTo
  <2>2. ASSUME NEW q \in Reports, Reading(q)', NEW e \in table, NEW start \in first',
               start <= e.at, e.at < report'[q].start
        PROVE  Covered(e)
    <3>1. q # r /\ Reading(q) /\ report'[q].start = report[q].start
      BY <2>2, <1>8
    <3>2. CASE first = {}
      <4>1. e.at < rec.end
        <5>1. report[q].start \in Int
          BY DEF WatchmanInv, WatchmanTypes, ReportRecords
        <5> QED
          BY <5>1, <3>1, <3>2, <1>3, <1>10, <1>12, <2>2
      <4> QED
        BY <4>1, <1>15, <2>2
    <3>3. CASE first # {}
      BY <3>1, <3>3, <2>2, <1>4 DEF WatchmanInv, BehindCovered, CoveredUpTo
    <3> QED
      BY <3>2, <3>3
  <2> QED
    BY <1>4, <1>11, <2>1, <2>2 DEF BehindCovered, CoveredUpTo
<1> QED
  BY <1>1, <1>6, <1>13, <1>14, <1>16 DEF WatchmanInv

LEMMA WatchmanNext ==
  ASSUME WatchmanAssumption
  PROVE  WatchmanInv /\ [WatchmanStep]_watchmanVars => WatchmanInv'
<1> SUFFICES ASSUME WatchmanInv, [WatchmanStep]_watchmanVars PROVE WatchmanInv'
  OBVIOUS
<1>1. WatchmanTypes'
  BY TypesNext DEF WatchmanInv
<1>2. CASE Tick
  <2>1. UNCHANGED <<table, watermark, report, told, first>>
    BY <1>2 DEF Tick
  <2>2. InTime'
    BY <1>2 DEF Tick, InTime, UnderWay, WatchmanInv, WatchmanTypes, ReportRecords, WatchmanAssumption
  <2> QED
    BY <1>1, <2>1, <2>2, ReportsStill DEF WatchmanInv
<1>3. ASSUME UNCHANGED <<clock, report>> PROVE InTime'
  BY <1>3 DEF WatchmanInv, InTime, UnderWay
<1>4. CASE \E i \in Instances : Restart(i)
  BY <1>1, <1>3, <1>4, ReportsStill DEF WatchmanInv, Restart
<1>5. CASE \E e \in table : Expire(e)
  BY <1>1, <1>3, <1>5, ExpireKeeps DEF WatchmanInv, Expire
<1>6. ASSUME NEW s \in Sweeps,
             \/ BeginSweep(s) \/ Stamp(s) \/ SweepDies(s)
             \/ (\E answered \in BOOLEAN : DescribeRegion(s, answered))
             \/ (\E reached, stopped \in SUBSET Here(s) : StopRegion(s, reached, stopped))
      PROVE  WatchmanInv'
  <2>1. UNCHANGED <<clock, table, watermark, report, told, first>>
    BY <1>6 DEF BeginSweep, Stamp, SweepDies, DescribeRegion, StopRegion
  <2> QED
    BY <1>1, <1>3, <2>1, ReportsStill DEF WatchmanInv
<1>7. ASSUME NEW s \in Sweeps, NEW i \in sweep[s].left, NEW written \in BOOLEAN,
             RecordEvent(s, i, written)
      PROVE  WatchmanInv'
  BY <1>1, <1>3, <1>7, RecordEventKeeps DEF WatchmanInv, RecordEvent
<1>8. CASE UNCHANGED watchmanVars
  BY <1>1, <1>3, <1>8, ReportsStill DEF WatchmanInv, watchmanVars
<1> QED
  BY <1>2, <1>4, <1>5, <1>6, <1>7, <1>8,
     ReportKeeps, ReadWatermarkKeeps, WriteWatermarkKeeps DEF WatchmanStep

LEMMA WatchmanInvariant ==
  ASSUME WatchmanAssumption
  PROVE  WatchmanSpec => []WatchmanInv
  BY WatchmanInit, WatchmanNext, PTL DEF WatchmanSpec

\* The types; an event is told only after the table was asked for it, and
\* nothing is stamped in the future.
THEOREM WatchmanTypeCorrect ==
  ASSUME WatchmanAssumption
  PROVE  WatchmanSpec => []WatchmanTypeOK
<1>1. WatchmanInv => WatchmanTypeOK
  <2> SUFFICES ASSUME WatchmanInv PROVE WatchmanTypeOK
    OBVIOUS
  <2>1. \A e \in table \cup told : e.instance \in Instances /\ e.at \in 0..clock
    BY DEF WatchmanInv, WatchmanTypes, Events
  <2> QED
    BY <2>1 DEF WatchmanInv, WatchmanTypes, Flags, WatchmanTypeOK
<1> QED
  BY <1>1, WatchmanInvariant, PTL

\* "If a report fails, the next one catches up", for any number of reports
\* that fail, overlap or are repeated: the watermark passes no event of the
\* table that Slack was not told of.
THEOREM PassedIsToldHolds ==
  ASSUME WatchmanAssumption
  PROVE  WatchmanSpec => []PassedIsTold
<1>1. WatchmanInv => PassedIsTold
  BY DEF WatchmanInv, BehindCovered, CoveredUpTo, Covered, PassedIsTold
<1> QED
  BY <1>1, WatchmanInvariant, PTL

(***************************************************************************)
(* The timing cache of payload-monitor                                     *)
(***************************************************************************)
TimingTypes ==
  TimingTypeOK /\ artifact \in [MonitorBuilds -> [torn : BOOLEAN, cache : SUBSET Caches]]

\* An artifact is of a build that is over, and holds one cache at most.
PublishedIsOver ==
  \A b \in MonitorBuilds :
    /\ artifact[b] # Nothing => at[b] = "over"
    /\ \A c, d \in artifact[b].cache : c = d

\* What a build started from is over, too, and does not change any more.
SeedOver ==
  \A b \in MonitorBuilds : seeded[b] # 0 => at[b] \notin {"absent", "started"} /\ at[seeded[b]] = "over"

\* Cached runs have a time stamp: those without are not recent.
Dated ==
  \A b \in MonitorBuilds : \A c \in artifact[b].cache \cup {memory[b]} : \A r \in c.has : Started[r] # 0

\* The recent runs of one cache are in the other, with their durations.
Survives(old, new, date) ==
  \A r \in old.has : date - Started[r] <= Days => r \in new.has /\ (r \in old.timed => r \in new.timed)

\* The memory of a build that goes on is what it started from, then that and more.
MemoryKept ==
  \A b \in MonitorBuilds : seeded[b] # 0 =>
    \A old \in artifact[seeded[b]].cache :
      /\ at[b] = "seeded" => memory[b] = old
      /\ at[b] = "saved" => Survives(old, memory[b], collected[b])

TimingInv == TimingTypes /\ PublishedIsOver /\ SeedOver /\ Dated /\ MemoryKept /\ MeasuredKept

LEMMA TimingInit ==
  ASSUME TimingAssumption
  PROVE  InitTiming => TimingInv
<1> SUFFICES ASSUME InitTiming PROVE TimingInv
  OBVIOUS
<1>1. Cold \in Caches /\ Cold.has = {}
  BY DEF Cold, Caches
<1>2. Nothing \in [torn : BOOLEAN, cache : SUBSET Caches] /\ Nothing.cache = {}
  BY DEF Nothing
<1> QED
  BY <1>1, <1>2 DEF TimingAssumption, InitTiming, TimingInv, TimingTypes, TimingTypeOK, PublishedIsOver, SeedOver,
     Dated, MemoryKept, MeasuredKept

\* The greatest of some builds is one of them.
LEMMA GreatestIsIn ==
  ASSUME TimingAssumption, NEW S \in SUBSET MonitorBuilds, S # {}
  PROVE  Max(S) \in S
<1> USE DEF TimingAssumption, MonitorBuilds
<1> DEFINE less == OpToRel(<, Nat)
           T    == {LastBuild - b : b \in S}
<1>1. \E x \in T : \A y \in T : <<y, x>> \notin less
  <2>1. T \in SUBSET Nat /\ T # {}
    <3>1. \A b \in S : b \in 1..LastBuild /\ LastBuild - b \in Nat
      OBVIOUS
    <3> QED
      BY <3>1
  <2> HIDE DEF less, T
  <2>2. IsWellFoundedOn(less, Nat)
    BY NatLessThanWellFounded DEF less
  <2> QED
    BY <2>1, <2>2, WFMin
<1>2. PICK m \in S : \A y \in T : <<y, LastBuild - m>> \notin less
  BY <1>1
<1>3. ASSUME NEW b \in S, ~(m >= b) PROVE FALSE
  <2>1. LastBuild - b \in Nat /\ LastBuild - m \in Nat /\ LastBuild - b < LastBuild - m
    BY <1>3
  <2>2. <<LastBuild - b, LastBuild - m>> \in less
    BY <2>1 DEF OpToRel
  <2> QED
    BY <1>2, <2>2
<1>4. \E x \in S : \A y \in S : x >= y
  BY <1>3
<1> QED
  BY <1>4 DEF Max

\* A build starts from the one cache of the newest artifact it finds, or cold.
LEMMA SeedKeeps ==
  ASSUME TimingAssumption, TimingInv, NEW b \in MonitorBuilds,
         NEW unreachable \in SUBSET MonitorBuilds, Seed(b, unreachable)
  PROVE  TimingInv'
<1> USE DEF TimingInv, TimingTypes, TimingTypeOK
<1> DEFINE found == {c \in Previous(b) \ unreachable : artifact[c] # Nothing}
<1>1. /\ at[b] = "started" /\ at' = [at EXCEPT ![b] = "seeded"]
      /\ UNCHANGED <<today, collected, artifact>>
  BY DEF Seed
<1>2. seeded[b] = 0 /\ artifact[b] = Nothing
  BY <1>1 DEF SeedOver, PublishedIsOver
<1>3. CASE UNCHANGED <<seeded, memory>>
  <2>1. \A c \in MonitorBuilds : seeded'[c] # 0 => c # b /\ seeded[c] # b
    BY <1>1, <1>2, <1>3 DEF SeedOver
  <2> QED
    BY <1>1, <1>2, <1>3, <2>1 DEF PublishedIsOver, SeedOver, Dated, MemoryKept, MeasuredKept, Survives, Caches
<1>4. CASE ~(UNCHANGED <<seeded, memory>>)
  <2> DEFINE s == Max(found)
  <2>1. /\ found # {} /\ ~artifact[s].torn
        /\ seeded' = [seeded EXCEPT ![b] = s]
        /\ memory' = [memory EXCEPT ![b] = CHOOSE c \in artifact[s].cache : TRUE]
    BY <1>4 DEF Seed
  <2>2. found \subseteq MonitorBuilds \ {b}
    BY DEF Previous
  <2>3. s \in found
    BY <2>1, <2>2, GreatestIsIn
  <2> HIDE DEF s, found
  <2>4. s \in MonitorBuilds /\ s # b /\ artifact[s] # Nothing /\ at[s] = "over" /\ s # 0
    BY <2>2, <2>3 DEF found, PublishedIsOver, MonitorBuilds
  <2>5. artifact[s].cache # {}
    BY <2>1, <2>4 DEF Nothing
  <2>6. memory'[b] \in artifact[s].cache /\ memory'[b] \in Caches
    <3>1. memory'[b] = CHOOSE c \in artifact[s].cache : TRUE
      BY <2>1
    <3>2. (CHOOSE c \in artifact[s].cache : TRUE) \in artifact[s].cache
      BY <2>5, Zenon
    <3>3. artifact[s].cache \subseteq Caches
      BY <2>4
    <3> QED
      BY <3>1, <3>2, <3>3
  <2>7. memory' \in [MonitorBuilds -> Caches] /\ seeded' \in [MonitorBuilds -> MonitorBuilds \cup {0}]
    BY <2>1, <2>4, <2>6
  <2>8. \A c \in MonitorBuilds \ {b} : seeded'[c] = seeded[c] /\ memory'[c] = memory[c] /\ at'[c] = at[c]
    BY <1>1, <2>1
  <2>9. seeded'[b] = s /\ at'[b] = "seeded" /\ artifact' = artifact /\ collected' = collected
    BY <1>1, <2>1, <2>4
  <2>10. PublishedIsOver' /\ SeedOver'
    <3>1. \A c \in MonitorBuilds : seeded'[c] # 0 => seeded'[c] # b /\ seeded'[c] \in MonitorBuilds
      BY <1>1, <2>4, <2>7, <2>8, <2>9 DEF SeedOver
    <3> QED
      BY <1>1, <1>2, <2>4, <2>8, <2>9, <3>1 DEF PublishedIsOver, SeedOver
  <2>11. Dated'
    BY <2>4, <2>6, <2>8, <2>9 DEF Dated
  <2>12. MemoryKept'
    <3>1. \A old \in artifact[s].cache : memory'[b] = old
      BY <2>4, <2>6 DEF PublishedIsOver
    <3> QED
      BY <2>8, <2>9, <3>1 DEF MemoryKept, Survives
  <2>13. MeasuredKept'
    BY <1>2, <2>8, <2>9 DEF MeasuredKept, Nothing
  <2> QED
    BY <1>1, <2>7, <2>10, <2>11, <2>12, <2>13
<1> QED
  BY <1>3, <1>4

\* CiRuns that are cached are not fetched, and the recent ones stay.
LEMMA CollectKeeps ==
  ASSUME TimingAssumption, TimingInv, NEW b \in MonitorBuilds, NEW answering \in SUBSET CiJobs,
         NEW summarised \in SUBSET CiRuns, Collect(b, answering, summarised)
  PROVE  TimingInv'
<1> USE DEF TimingInv, TimingTypes, TimingTypeOK
<1> DEFINE new   == NewRuns(memory[b].has, answering)
           has   == {r \in memory[b].has \cup new : IsRecent(r)}
           timed == (memory[b].timed \ new) \cup (new \cap summarised)
           m     == [has |-> has, timed |-> timed \cap has]
<1>1. /\ at[b] = "seeded" /\ at' = [at EXCEPT ![b] = "saved"]
      /\ collected' = [collected EXCEPT ![b] = today]
      /\ memory' = [memory EXCEPT ![b] = m]
      /\ UNCHANGED <<today, seeded, artifact>>
  BY DEF Collect
<1>2. new \subseteq CiRuns \ memory[b].has
  BY DEF NewRuns
<1>3. memory[b].has \subseteq CiRuns /\ memory[b].timed \subseteq memory[b].has
  BY DEF Caches
<1>4. m \in Caches /\ \A r \in m.has : Started[r] # 0
  BY <1>2, <1>3 DEF Caches, IsRecent
<1>5. Survives(memory[b], m, today)
  <2> SUFFICES ASSUME NEW r \in memory[b].has, today - Started[r] <= Days
               PROVE  r \in m.has /\ (r \in memory[b].timed => r \in m.timed)
    BY DEF Survives
  <2>1. r \in has
    BY DEF Dated, IsRecent
  <2> QED
    BY <1>2, <2>1
<1> HIDE DEF m
<1>6. \A c \in MonitorBuilds : seeded[c] # 0 => seeded[c] # b
  BY <1>1 DEF SeedOver
<1>7. PublishedIsOver' /\ SeedOver'
  BY <1>1, <1>6 DEF PublishedIsOver, SeedOver
<1>8. Dated'
  BY <1>1, <1>4 DEF Dated
<1>9. MemoryKept'
  BY <1>1, <1>5 DEF MemoryKept, Survives
<1>10. MeasuredKept'
  <2>1. artifact[b] = Nothing
    BY <1>1 DEF PublishedIsOver
  <2> QED
    BY <1>1, <2>1 DEF MeasuredKept, Nothing
<1> QED
  BY <1>1, <1>4, <1>7, <1>8, <1>9, <1>10

LEMMA SaveCacheKeeps ==
  ASSUME TimingAssumption, TimingInv, NEW b \in MonitorBuilds, NEW torn \in BOOLEAN, SaveCache(b, torn)
  PROVE  TimingInv'
<1> USE DEF TimingInv, TimingTypes, TimingTypeOK
<1> DEFINE a == [torn |-> torn, cache |-> IF torn THEN {} ELSE {memory[b]}]
<1>1. /\ at[b] = "saved" /\ at' = [at EXCEPT ![b] = "over"]
      /\ artifact' = [artifact EXCEPT ![b] = a]
      /\ UNCHANGED <<today, seeded, collected, memory>>
  BY DEF SaveCache
<1>2. a \in [torn : BOOLEAN, cache : SUBSET Caches] /\ a.cache \subseteq {memory[b]}
  OBVIOUS
<1> HIDE DEF a
<1>3. \A c \in MonitorBuilds : seeded[c] # 0 => seeded[c] # b /\ artifact'[seeded[c]] = artifact[seeded[c]]
  BY <1>1 DEF SeedOver
<1>4. PublishedIsOver' /\ SeedOver'
  BY <1>1, <1>2, <1>3 DEF PublishedIsOver, SeedOver
<1>5. Dated'
  BY <1>1, <1>2 DEF Dated
<1>6. MemoryKept'
  BY <1>1, <1>3 DEF MemoryKept, Survives
<1>7. MeasuredKept'
  <2> SUFFICES ASSUME NEW c \in MonitorBuilds, seeded[c] # 0, NEW new \in artifact'[c].cache,
                      NEW old \in artifact[seeded[c]].cache
               PROVE  Survives(old, new, collected[c])
    BY <1>1, <1>3 DEF MeasuredKept, Survives
  <2>1. CASE c = b
    BY <1>1, <1>2, <2>1 DEF MemoryKept
  <2>2. CASE c # b
    BY <1>1, <2>2 DEF MeasuredKept, Survives
  <2> QED
    BY <2>1, <2>2
<1> QED
  BY <1>1, <1>2, <1>4, <1>5, <1>6, <1>7

LEMMA TimingNext ==
  ASSUME TimingAssumption
  PROVE  TimingInv /\ [TimingStep]_timingVars => TimingInv'
<1> SUFFICES ASSUME TimingInv, [TimingStep]_timingVars PROVE TimingInv'
  OBVIOUS
<1> USE TimingAssumption DEF TimingInv, TimingTypes, TimingTypeOK
<1>1. CASE NextMorning
  BY <1>1 DEF NextMorning, TimingAssumption, PublishedIsOver, SeedOver, Dated, MemoryKept, MeasuredKept, Survives
<1>2. ASSUME NEW b \in MonitorBuilds, Start(b) PROVE TimingInv'
  BY <1>2 DEF Start, PublishedIsOver, SeedOver, Dated, MemoryKept, MeasuredKept, Survives
<1>3. ASSUME NEW b \in MonitorBuilds, Die(b) PROVE TimingInv'
  BY <1>3 DEF Die, PublishedIsOver, SeedOver, Dated, MemoryKept, MeasuredKept, Survives
<1>4. CASE UNCHANGED timingVars
  BY <1>4 DEF timingVars, PublishedIsOver, SeedOver, Dated, MemoryKept, MeasuredKept, Survives
<1> QED
  BY <1>1, <1>2, <1>3, <1>4, SeedKeeps, CollectKeeps, SaveCacheKeeps DEF TimingStep

LEMMA TimingInvariant ==
  ASSUME TimingAssumption
  PROVE  TimingSpec => []TimingInv
  BY TimingInit, TimingNext, PTL DEF TimingSpec

\* Types of the builds and of their caches.
THEOREM TimingTypeCorrect ==
  ASSUME TimingAssumption
  PROVE  TimingSpec => []TimingTypeOK
<1>1. TimingInv => TimingTypeOK
  BY DEF TimingInv, TimingTypes
<1> QED
  BY <1>1, TimingInvariant, PTL

\* However builds overlap and whatever fails, what the cache a build started
\* from knew and had measured is in the cache it publishes while it is recent.
THEOREM MeasuredKeptHolds ==
  ASSUME TimingAssumption
  PROVE  TimingSpec => []MeasuredKept
<1>1. TimingInv => MeasuredKept
  BY DEF TimingInv
<1> QED
  BY <1>1, TimingInvariant, PTL

(***************************************************************************)
(* The work directory of the doctor                                        *)
(***************************************************************************)
Stages == {"prepare", "analyze", "bugs", "finalize"}

RunTyped ==
  /\ run \in 0..MaxRuns /\ withPRs \in BOOLEAN
  /\ plan \in Seq(Stages)
  /\ phase \in {"enter", "collect", "candidates", "publish"}
  /\ todo \in Seq(Sources)
  /\ ended \in {"none", "finished", "prepare", "reports", "jira", "categorize", "killed", "no data"}

DiskTyped ==
  /\ status \in [Sources -> Statuses] /\ errors \subseteq Sources
  /\ listed \subseteq Sources /\ unsearched \subseteq Sources
  /\ DOMAIN jobs = Sources /\ DOMAIN reports = Sources
  /\ \A s \in Sources : jobs[s] \subseteq Names(s) /\ reports[s] \in [Names(s) -> -MaxRuns..MaxRuns]
  /\ cand \in [Sources -> Digests] /\ match \in [Sources -> Digests]
  /\ summary \in [ToSet(Releases) -> Digests]
  /\ html.run \in 0..MaxRuns /\ html.clean \subseteq ToSet(Releases)

\* A run works on the first stage of its plan, and ends without one.
PlanFits ==
  /\ ended # "none" => plan = <<>>
  /\ phase = "collect" => plan # <<>> /\ Head(plan) = "prepare"
  /\ phase \in {"candidates", "publish"} => plan # <<>> /\ Head(plan) = "bugs"

\* A collection that failed leaves an error.txt, which no run removes.
FailedHasError == \A s \in Sources : status[s] = "failed" => s \in errors

WorkdirInv == RunTyped /\ DiskTyped /\ PlanFits /\ FailedHasError

LEMMA FirstAndRest ==
  ASSUME NEW S, NEW list \in Seq(S), list # <<>>
  PROVE  /\ Len(list) \in Nat \ {0} /\ DOMAIN list = 1..Len(list)
         /\ Head(list) = list[1] /\ Head(list) \in S
         /\ Tail(list) \in Seq(S) /\ Len(Tail(list)) = Len(list) - 1
         /\ \A i \in 1..(Len(list) - 1) : Tail(list)[i] = list[i + 1]
         /\ (Tail(list) = <<>>) <=> (Len(list) = 1)
<1>1. Len(list) \in Nat \ {0} /\ DOMAIN list = 1..Len(list) /\ Head(list) = list[1]
  BY EmptySeq, LenProperties
<1>2. /\ Head(list) \in S /\ Tail(list) \in Seq(S) /\ Len(Tail(list)) = Len(list) - 1
      /\ \A i \in 1..(Len(list) - 1) : Tail(list)[i] = list[i + 1]
  BY HeadTailProperties
<1>3. (Tail(list) = <<>>) <=> (Len(list) = 1)
  BY <1>1, <1>2, EmptySeq
<1> QED
  BY <1>1, <1>2, <1>3

LEMMA ReleasesAreSources ==
  ASSUME WorkdirAssumption
  PROVE  /\ << >> \in Seq(Sources) /\ Releases \in Seq(Sources) /\ Append(Releases, Rebase) \in Seq(Sources)
         /\ ActiveSources \in Seq(Sources)
<1>1. Releases \in Seq(Sources)
  <2>1. \A i \in DOMAIN Releases : Releases[i] \in ToSet(Releases)
    BY DEF ToSet
  <2> QED
    BY <2>1 DEF WorkdirAssumption, Sources
<1>2. Rebase \in Sources
  BY DEF Sources
<1>3. Append(Releases, Rebase) \in Seq(Sources)
  BY <1>1, <1>2
<1> QED
  BY <1>1, <1>3 DEF ActiveSources

LEMMA WorkdirInit ==
  ASSUME WorkdirAssumption
  PROVE  InitWorkdir => WorkdirInv
<1> SUFFICES ASSUME InitWorkdir PROVE WorkdirInv
  OBVIOUS
<1>1. MaxRuns \in Nat
  BY DEF WorkdirAssumption
<1>2. RunTyped
  <2>1. << >> \in Seq(Stages) /\ << >> \in Seq(Sources)
    BY EmptySeq
  <2>2. run = 0 /\ withPRs = FALSE /\ plan = <<>> /\ phase = "enter" /\ todo = <<>> /\ ended = "none"
    BY DEF InitWorkdir
  <2>3. plan \in Seq(Stages) /\ todo \in Seq(Sources)
    BY <2>1, <2>2, Zenon
  <2>4. run \in 0..MaxRuns
    BY <1>1, <2>2
  <2> QED
    BY <2>2, <2>3, <2>4, Zenon DEF RunTyped
<1>3. NoFile \in Digests
  BY <1>1 DEF NoFile, Digest, Digests
<1>4. DiskTyped
  BY <1>1, <1>3 DEF InitWorkdir, DiskTyped, Statuses, NoHtml
<1> QED
  BY <1>2, <1>4 DEF InitWorkdir, WorkdirInv, PlanFits, FailedHasError

\* How a run moves on.
LEMMA GoesTo ==
  ASSUME WorkdirInv, plan # <<>>, NEW p \in {"collect", "candidates", "publish"}, NEW list \in Seq(Sources),
         p = "collect" => Head(plan) = "prepare",
         p \in {"candidates", "publish"} => Head(plan) = "bugs",
         GoTo(p, list)
  PROVE  RunTyped' /\ PlanFits'
  BY DEF GoTo, WorkdirInv, RunTyped, PlanFits

LEMMA GoesOn ==
  ASSUME WorkdirInv, plan # <<>>, NEW how \in {"finished", "no data"}, LeaveStage(how)
  PROVE  RunTyped' /\ PlanFits'
<1>1. plan \in Seq(Stages) /\ Tail(plan) \in Seq(Stages) /\ (Tail(plan) = <<>> <=> Len(plan) = 1)
  BY FirstAndRest DEF WorkdirInv, RunTyped
<1>2. << >> \in Seq(Sources)
  BY EmptySeq
<1> QED
  BY <1>1, <1>2 DEF LeaveStage, WorkdirInv, RunTyped, PlanFits

LEMMA Aborts ==
  ASSUME WorkdirInv, NEW why \in {"prepare", "reports", "jira", "categorize", "killed", "no data"}, Abort(why)
  PROVE  RunTyped' /\ PlanFits'
<1>1. << >> \in Seq(Stages) /\ << >> \in Seq(Sources)
  BY EmptySeq
<1> QED
  BY <1>1 DEF Abort, WorkdirInv, RunTyped, PlanFits

LEMMA DiskStays ==
  ASSUME WorkdirInv, UNCHANGED diskVars
  PROVE  DiskTyped' /\ FailedHasError'
  BY DEF diskVars, WorkdirInv, DiskTyped, FailedHasError

\* Positions in a list of downloads number the reports from zero.
LEMMA Downloads ==
  ASSUME WorkdirAssumption, NEW s \in Sources, NEW list \in SetToAllKPermutations(Builds[s])
  PROVE  {<<i - 1, list[i]>> : i \in DOMAIN list} \subseteq Names(s)
<1>1. PICK S \in SUBSET Builds[s] : list \in [1..Cardinality(S) -> S]
  BY DEF SetToAllKPermutations, SetToSeqs
<1>2. IsFiniteSet(Builds[s])
  BY DEF WorkdirAssumption, Sources
<1>3. /\ Cardinality(S) \in Nat /\ Cardinality(Builds[s]) \in Nat
      /\ Cardinality(S) <= Cardinality(Builds[s])
  BY <1>2, FS_Subset, FS_CardinalityType
<1>4. ASSUME NEW i \in DOMAIN list PROVE <<i - 1, list[i]>> \in Names(s)
  <2>1. i \in 1..Cardinality(S) /\ list[i] \in Builds[s]
    BY <1>1
  <2>2. i - 1 \in 0..(Cardinality(Builds[s]) - 1)
    BY <1>3, <2>1
  <2> QED
    BY <2>1, <2>2 DEF Names
<1> QED
  BY <1>4

LEMMA Records ==
  ASSUME WorkdirAssumption, WorkdirInv, In("prepare", "collect"), todo # <<>>,
         NEW st \in {"failed", "empty", "clean", "failing"}, NEW names \in SUBSET Names(Head(todo)),
         Record(Head(todo), st, names),
         errors' = IF st = "failed" THEN errors \cup {Head(todo)} ELSE errors
  PROVE  WorkdirInv'
<1>1. Head(todo) \in Sources /\ Tail(todo) \in Seq(Sources)
  BY FirstAndRest DEF WorkdirInv, RunTyped
<1>2. RunTyped' /\ PlanFits'
  BY <1>1, GoesTo DEF Record, In
<1>3. DiskTyped'
  BY <1>1 DEF Record, WorkdirInv, DiskTyped, Statuses
<1>4. FailedHasError'
  BY <1>1 DEF Record, WorkdirInv, DiskTyped, FailedHasError
<1> QED
  BY <1>2, <1>3, <1>4 DEF WorkdirInv

LEMMA ParsedRuns ==
  ASSUME WorkdirInv, NEW s \in Sources
  PROVE  Digest(run, Parsed(s)) \in Digests
  BY DEF Digest, Digests, Parsed, WorkdirInv, RunTyped

LEMMA AnalyzeKeeps ==
  ASSUME WorkdirAssumption, WorkdirInv, Analyze
  PROVE  WorkdirInv'
<1>1. PICK left \in [Targets -> {0, run, -run}] :
        reports' = [s \in Sources |-> [n \in Names(s) |-> IF n \in Targets THEN left[n] ELSE reports[s][n]]]
  BY DEF Analyze
<1>2. run \in 0..MaxRuns /\ MaxRuns \in Nat
  BY DEF WorkdirInv, RunTyped, WorkdirAssumption
<1>3. 0 \in -MaxRuns..MaxRuns /\ run \in -MaxRuns..MaxRuns /\ -run \in -MaxRuns..MaxRuns
  BY <1>2
<1>4. ASSUME NEW s \in Sources PROVE reports'[s] \in [Names(s) -> -MaxRuns..MaxRuns]
  <2>1. ASSUME NEW n \in Names(s)
        PROVE  (IF n \in Targets THEN left[n] ELSE reports[s][n]) \in -MaxRuns..MaxRuns
    BY <1>3 DEF WorkdirInv, DiskTyped
  <2> QED
    BY <1>1, <2>1
<1>5. DiskTyped' /\ FailedHasError'
  BY <1>1, <1>4 DEF Analyze, WorkdirInv, DiskTyped, FailedHasError
<1>6. RunTyped' /\ PlanFits'
  BY GoesOn DEF Analyze, In, NextStage
<1> QED
  BY <1>5, <1>6 DEF WorkdirInv

LEMMA AggregateTyped ==
  ASSUME WorkdirAssumption, WorkdirInv, Aggregate
  PROVE  summary' \in [ToSet(Releases) -> Digests]
<1>1. ASSUME NEW r \in ToSet(Releases)
      PROVE  (IF Parsed(r) # {} THEN Digest(run, Parsed(r)) ELSE summary[r]) \in Digests
  BY ParsedRuns DEF WorkdirInv, DiskTyped, Sources
<1> QED
  BY <1>1 DEF Aggregate

LEMMA WorkdirNext ==
  ASSUME WorkdirAssumption
  PROVE  WorkdirInv /\ [WorkdirStep]_workdirVars => WorkdirInv'
<1> SUFFICES ASSUME WorkdirInv, [WorkdirStep]_workdirVars PROVE WorkdirInv'
  OBVIOUS
<1> USE WorkdirAssumption
<1>1. CASE StartRun
  <2>1. run' \in 0..MaxRuns /\ plan' \in Seq(Stages) /\ << >> \in Seq(Sources)
    <3>1. run \in 0..MaxRuns /\ run < MaxRuns /\ MaxRuns \in Nat /\ run' = run + 1
      BY <1>1 DEF StartRun, WorkdirInv, RunTyped, WorkdirAssumption
    <3>2. plan' \in Seq(Stages)
      BY <1>1 DEF StartRun, WorkdirAssumption, Stages
    <3> QED
      BY <3>1, <3>2
  <2>2. RunTyped' /\ PlanFits'
    BY <1>1, <2>1 DEF StartRun, WorkdirInv, RunTyped, PlanFits
  <2> QED
    BY <1>1, <2>2, DiskStays DEF StartRun, WorkdirInv
<1>2. CASE StartPrepare
  BY <1>2, GoesTo, ReleasesAreSources, DiskStays DEF StartPrepare, In, WorkdirInv
<1>3. CASE CollectFails
  BY <1>3, Records DEF CollectFails
<1>4. CASE CollectNoFailure
  BY <1>4, Records DEF CollectNoFailure
<1>5. CASE CollectFailures
  <2>1. Head(todo) \in Sources
    BY <1>5, FirstAndRest DEF CollectFailures, WorkdirInv, RunTyped
  <2>2. PICK list \in SetToAllKPermutations(Builds[Head(todo)]) :
          Record(Head(todo), "failing", {<<i - 1, list[i]>> : i \in DOMAIN list})
    BY <1>5 DEF CollectFailures
  <2> DEFINE names == {<<i - 1, list[i]>> : i \in DOMAIN list}
  <2>3. names \subseteq Names(Head(todo))
    BY <2>1, Downloads
  <2>4. Record(Head(todo), "failing", names)
    BY <2>2
  <2> HIDE DEF names
  <2> QED
    BY <1>5, <2>3, <2>4, Records DEF CollectFailures
<1>6. CASE Prepared
  <2>1. RunTyped' /\ PlanFits'
    BY <1>6, GoesOn DEF Prepared, In, NextStage
  <2> QED
    BY <1>6, <2>1 DEF Prepared, WorkdirInv, DiskTyped, FailedHasError, Sources
<1>7. CASE PrepareFails
  BY <1>7, Aborts, DiskStays DEF PrepareFails, WorkdirInv
<1>8. CASE Analyze
  BY <1>8, AnalyzeKeeps
<1>9. CASE StartBugs
  BY <1>9, GoesTo, ReleasesAreSources, DiskStays DEF StartBugs, In, WorkdirInv
<1>10. CASE PrepareCandidates
  <2>1. Head(todo) \in Sources /\ Tail(todo) \in Seq(Sources)
    BY <1>10, FirstAndRest DEF PrepareCandidates, WorkdirInv, RunTyped
  <2>2. RunTyped' /\ PlanFits'
    BY <1>10, <2>1, GoesTo DEF PrepareCandidates, In
  <2>3. cand' \in [Sources -> Digests]
    BY <1>10, <2>1, ParsedRuns DEF PrepareCandidates, WorkdirInv, DiskTyped
  <2> QED
    BY <1>10, <2>2, <2>3 DEF PrepareCandidates, WorkdirInv, DiskTyped, FailedHasError
<1>11. CASE NoReports
  BY <1>11, Aborts, DiskStays DEF NoReports, WorkdirInv
<1>12. CASE SearchJira
  BY <1>12, GoesTo, ReleasesAreSources, DiskStays DEF SearchJira, In, WorkdirInv
<1>13. CASE JiraFails
  BY <1>13, Aborts, DiskStays DEF JiraFails, WorkdirInv
<1>14. CASE Publish
  <2>1. Head(todo) \in Sources /\ Tail(todo) \in Seq(Sources)
    BY <1>14, FirstAndRest DEF Publish, WorkdirInv, RunTyped
  <2>2. RunTyped' /\ PlanFits'
    BY <1>14, <2>1, GoesTo DEF Publish, In
  <2>3. match' \in [Sources -> Digests]
    BY <1>14, <2>1 DEF Publish, WorkdirInv, DiskTyped
  <2> QED
    BY <1>14, <2>2, <2>3 DEF Publish, WorkdirInv, DiskTyped, FailedHasError
<1>15. CASE Categorize
  BY <1>15, GoesOn, Aborts, DiskStays DEF Categorize, In, NextStage, WorkdirInv
<1>16. CASE BugsKilled
  BY <1>16, Aborts, DiskStays DEF BugsKilled, WorkdirInv
<1>17. CASE Finalize
  <2>1. RunTyped' /\ PlanFits'
    BY <1>17, GoesOn DEF Finalize, In, NextStage
  <2>2. summary' \in [ToSet(Releases) -> Digests]
    BY <1>17, AggregateTyped DEF Finalize
  <2>3. html'.run \in 0..MaxRuns /\ html'.clean \subseteq ToSet(Releases)
    BY <1>17 DEF Finalize, ShownClean, WorkdirInv, RunTyped
  <2> QED
    BY <1>17, <2>1, <2>2, <2>3 DEF Finalize, WorkdirInv, DiskTyped, FailedHasError
<1>18. CASE FinalizeFails
  <2>1. summary' \in [ToSet(Releases) -> Digests]
    BY <1>18, AggregateTyped DEF FinalizeFails
  <2> QED
    BY <1>18, <2>1, GoesOn DEF FinalizeFails, In, WorkdirInv, DiskTyped, FailedHasError
<1>19. CASE UNCHANGED workdirVars
  BY <1>19 DEF workdirVars, runVars, diskVars, WorkdirInv, RunTyped, DiskTyped, PlanFits, FailedHasError
<1> QED
  BY <1>1, <1>2, <1>3, <1>4, <1>5, <1>6, <1>7, <1>8, <1>9, <1>10, <1>11, <1>12, <1>13, <1>14, <1>15,
     <1>16, <1>17, <1>18, <1>19 DEF WorkdirStep

LEMMA WorkdirInvariant ==
  ASSUME WorkdirAssumption
  PROVE  WorkdirSpec => []WorkdirInv
  BY WorkdirInit, WorkdirNext, PTL DEF WorkdirSpec

\* Types of the run and of every file it leaves, for any sources, builds,
\* lists of stages and number of runs.
THEOREM WorkdirTypeCorrect ==
  ASSUME WorkdirAssumption
  PROVE  WorkdirSpec => []WorkdirTypeOK
<1>1. WorkdirInv => WorkdirTypeOK
  BY DEF WorkdirInv, RunTyped, DiskTyped, WorkdirTypeOK, Stages
<1> QED
  BY <1>1, WorkdirInvariant, PTL

\* --stages takes any list.  One thing a list may ask for is left to the
\* hypothesis: to search bugs twice in one run, the second time over what the
\* first has published.
NoStageTwice == \A list \in StageLists : IsInjective(list)

BugsAhead == \E i \in DOMAIN plan : plan[i] = "bugs"

\* A run has not published before its bugs stage is through with every source.
NothingPublished ==
  /\ IsInjective(plan)
  /\ \A s \in Sources : cand[s].run <= run /\ match[s].run <= run
  /\ BugsAhead /\ phase # "publish" => \A s \in Sources : match[s].run < run

LEMMA BugsBehind ==
  ASSUME WorkdirInv, NothingPublished, plan # <<>>, plan' = Tail(plan)
  PROVE  IsInjective(plan') /\ (BugsAhead' => Head(plan) # "bugs" /\ BugsAhead)
<1>1. plan \in Seq(Stages)
  BY DEF WorkdirInv, RunTyped
<1>2. /\ Len(plan) \in Nat \ {0} /\ DOMAIN plan = 1..Len(plan) /\ Head(plan) = plan[1]
      /\ DOMAIN plan' = 1..(Len(plan) - 1) /\ \A i \in 1..(Len(plan) - 1) : plan'[i] = plan[i + 1]
  BY <1>1, FirstAndRest, LenProperties
<1>3. \A i \in DOMAIN plan' : i + 1 \in DOMAIN plan /\ i + 1 # 1 /\ plan'[i] = plan[i + 1]
  BY <1>2
<1>4. IsInjective(plan')
  <2> SUFFICES ASSUME NEW a \in DOMAIN plan', NEW b \in DOMAIN plan', plan'[a] = plan'[b]
               PROVE  a = b
    BY DEF IsInjective
  <2>1. a + 1 = b + 1
    BY <1>3 DEF NothingPublished, IsInjective
  <2> QED
    BY <1>2, <2>1
<1>5. ASSUME NEW i \in DOMAIN plan', plan'[i] = "bugs" PROVE Head(plan) # "bugs" /\ BugsAhead
  <2>1. plan[i + 1] = "bugs" /\ i + 1 \in DOMAIN plan /\ 1 \in DOMAIN plan /\ i + 1 # 1
    BY <1>2, <1>3, <1>5
  <2> QED
    BY <1>2, <2>1 DEF NothingPublished, IsInjective, BugsAhead
<1> QED
  BY <1>4, <1>5 DEF BugsAhead

LEMMA PublishedRuns ==
  ASSUME WorkdirAssumption, WorkdirInv
  PROVE  run \in Nat /\ \A s \in Sources : cand[s].run \in Nat /\ match[s].run \in Nat
<1>1. run \in 0..MaxRuns /\ MaxRuns \in Nat
  BY DEF WorkdirInv, RunTyped, WorkdirAssumption
<1>2. \A d \in Digests : d.run \in Nat
  BY <1>1 DEF Digests
<1> QED
  BY <1>1, <1>2 DEF WorkdirInv, DiskTyped

LEMMA PublishedNext ==
  ASSUME WorkdirAssumption, NoStageTwice, WorkdirInv, NothingPublished, AbortPublishesNothing,
         [WorkdirStep]_workdirVars
  PROVE  NothingPublished' /\ AbortPublishesNothing'
<1> USE PublishedRuns
<1>1. CASE StartRun
  BY <1>1 DEF StartRun, diskVars, NothingPublished, NoStageTwice, AbortPublishesNothing
<1>2. ASSUME plan # <<>>, NEW how \in {"finished", "no data"}, LeaveStage(how), UNCHANGED <<cand, match>>
      PROVE  NothingPublished' /\ AbortPublishesNothing'
  <2>1. run' = run /\ plan' = Tail(plan) /\ ended' \in {"finished", "no data", "none"}
    BY <1>2 DEF LeaveStage, WorkdirInv, PlanFits
  <2>2. IsInjective(plan') /\ (BugsAhead' => Head(plan) # "bugs" /\ BugsAhead)
    BY <1>2, <2>1, BugsBehind
  <2>3. BugsAhead' => \A s \in Sources : match[s].run < run
    BY <2>2 DEF NothingPublished, WorkdirInv, PlanFits
  <2> QED
    BY <1>2, <2>1, <2>2, <2>3 DEF NothingPublished, AbortPublishesNothing
<1>3. ASSUME NEW why, Abort(why), UNCHANGED <<cand, match>>,
             why \in {"reports", "jira"} => plan # <<>> /\ Head(plan) = "bugs" /\ phase = "candidates"
      PROVE  NothingPublished' /\ AbortPublishesNothing'
  <2>1. run' = run /\ plan' = <<>> /\ ended' = why
    BY <1>3 DEF Abort
  <2>2. IsInjective(plan') /\ ~BugsAhead'
    BY <2>1 DEF IsInjective, BugsAhead
  <2>3. ASSUME why \in {"reports", "jira"} PROVE \A s \in Sources : match[s].run < run
    <3>1. plan \in Seq(Stages) /\ plan # <<>> /\ Head(plan) = "bugs" /\ phase = "candidates"
      BY <1>3, <2>3 DEF WorkdirInv, RunTyped
    <3>2. 1 \in DOMAIN plan /\ plan[1] = "bugs"
      BY <3>1, FirstAndRest
    <3> QED
      BY <3>1, <3>2 DEF NothingPublished, BugsAhead
  <2> QED
    BY <1>3, <2>1, <2>2, <2>3 DEF NothingPublished, AbortPublishesNothing
<1>4. ASSUME plan # <<>>, NEW p, NEW list, GoTo(p, list), phase = "publish" => p = "publish",
             UNCHANGED <<cand, match>>
      PROVE  NothingPublished' /\ AbortPublishesNothing'
  BY <1>4 DEF GoTo, NothingPublished, BugsAhead, AbortPublishesNothing, WorkdirInv, PlanFits
<1>5. CASE StartPrepare \/ StartBugs \/ SearchJira
  BY <1>4, <1>5 DEF StartPrepare, StartBugs, SearchJira, In, diskVars
<1>6. CASE CollectFails \/ CollectNoFailure \/ CollectFailures
  BY <1>4, <1>6 DEF CollectFails, CollectNoFailure, CollectFailures, Record, In
<1>7. CASE Prepared \/ Analyze \/ Finalize \/ FinalizeFails
  BY <1>2, <1>7 DEF Prepared, Analyze, Finalize, FinalizeFails, NextStage, In
<1>8. CASE PrepareFails \/ NoReports \/ JiraFails \/ BugsKilled
  BY <1>3, <1>8 DEF PrepareFails, NoReports, JiraFails, BugsKilled, In, diskVars
<1>9. CASE Categorize
  BY <1>2, <1>3, <1>9 DEF Categorize, NextStage, In, diskVars
<1>10. CASE PrepareCandidates
  <2>1. /\ cand' = [cand EXCEPT ![Head(todo)] = Digest(run, Parsed(Head(todo)))]
        /\ UNCHANGED <<run, plan, ended, match>> /\ phase' = "candidates" /\ phase = "candidates" /\ plan # <<>>
    BY <1>10 DEF PrepareCandidates, GoTo, In
  <2>2. \A s \in Sources : cand'[s].run <= run
    BY <2>1 DEF NothingPublished, Digest, WorkdirInv, DiskTyped
  <2> QED
    BY <2>1, <2>2 DEF NothingPublished, BugsAhead, AbortPublishesNothing
<1>11. CASE Publish
  <2>1. /\ match' = [match EXCEPT ![Head(todo)] = cand[Head(todo)]] /\ Head(todo) \in Sources
        /\ UNCHANGED <<run, plan, ended, cand>> /\ phase' = "publish" /\ plan # <<>>
    BY <1>11, FirstAndRest DEF Publish, GoTo, In, WorkdirInv, RunTyped
  <2>2. \A s \in Sources : match'[s].run <= run
    BY <2>1 DEF NothingPublished, WorkdirInv, DiskTyped
  <2> QED
    BY <2>1, <2>2 DEF NothingPublished, AbortPublishesNothing, WorkdirInv, PlanFits
<1>12. CASE UNCHANGED workdirVars
  BY <1>12 DEF workdirVars, runVars, diskVars, NothingPublished, BugsAhead, AbortPublishesNothing
<1> QED
  BY <1>1, <1>5, <1>6, <1>7, <1>8, <1>9, <1>10, <1>11, <1>12 DEF WorkdirStep

\* Whichever source lacks its reports and whenever Jira fails, a run that
\* stops for it has published no mapping.
THEOREM AbortPublishesNothingHolds ==
  ASSUME WorkdirAssumption, NoStageTwice
  PROVE  WorkdirSpec => []AbortPublishesNothing
<1>1. InitWorkdir => NothingPublished /\ AbortPublishesNothing
  BY DEF InitWorkdir, NothingPublished, AbortPublishesNothing, BugsAhead, IsInjective, NoFile, Digest
<1>2. WorkdirInv /\ NothingPublished /\ AbortPublishesNothing /\ [WorkdirStep]_workdirVars
        => NothingPublished' /\ AbortPublishesNothing'
  BY PublishedNext
<1> QED
  BY <1>1, <1>2, WorkdirInvariant, PTL DEF WorkdirSpec

\* Failures of which no artifact was downloaded have a report that can be read,
\* once a bug search took their release.
AccountedFor(r) == status[r] = "failing" /\ jobs[r] = {} => Parsed(r) # {}

Searched == \A r \in ToSet(Releases) : r \in unsearched \/ AccountedFor(r)

\* A source whose candidates can be prepared has a readable report, or a
\* status file that says it is healthy.
LEMMA CandidatesAccounted ==
  ASSUME PrepareCandidates
  PROVE  AccountedFor(Head(todo))
  BY DEF PrepareCandidates, ConfirmedNoFailures, AccountedFor

\* Builds differ between sources, so that analyze replaces no report of a
\* source without jobs.
LEMMA OthersReports ==
  ASSUME WorkdirAssumption, WorkdirInv, Analyze, NEW r \in ToSet(Releases), jobs[r] = {}
  PROVE  Parsed(r)' = Parsed(r)
<1>1. r \in Sources /\ listed \subseteq Sources /\ \A s \in Sources : jobs[s] \subseteq Names(s)
  BY DEF Sources, WorkdirInv, DiskTyped
<1>2. \A n \in Names(r) : n \notin Targets
  <2> SUFFICES ASSUME NEW n \in Names(r), NEW s \in listed, n \in jobs[s] PROVE FALSE
    BY DEF Targets
  <2>1. s \in Sources /\ n \in Names(s) /\ s # r
    BY <1>1
  <2>2. Builds[r] \cap Builds[s] = {}
    BY <1>1, <2>1 DEF WorkdirAssumption, Sources
  <2> QED
    BY <2>1, <2>2 DEF Names
<1>3. \A n \in Names(r) : reports'[r][n] = reports[r][n]
  BY <1>1, <1>2 DEF Analyze
<1> QED
  BY <1>3 DEF Parsed

LEMMA SearchedNext ==
  ASSUME WorkdirAssumption, WorkdirInv, Searched, [WorkdirStep]_workdirVars
  PROVE  Searched'
<1>1. ASSUME UNCHANGED <<status, jobs, reports, unsearched>> PROVE Searched'
  BY <1>1 DEF Searched, AccountedFor, Parsed
<1>2. CASE CollectFails \/ CollectNoFailure \/ CollectFailures
  <2>1. PICK s, st, names : Record(s, st, names)
    BY <1>2 DEF CollectFails, CollectNoFailure, CollectFailures
  <2>2. /\ unsearched' = unsearched \cup {s} /\ reports' = reports
        /\ \A r \in Sources : r # s => status'[r] = status[r] /\ jobs'[r] = jobs[r]
    BY <2>1 DEF Record, WorkdirInv, DiskTyped
  <2> QED
    BY <2>2 DEF Searched, AccountedFor, Parsed, Sources
<1>3. CASE PrepareCandidates
  <2>1. UNCHANGED <<status, jobs, reports>> /\ unsearched' = unsearched \ {Head(todo)}
    BY <1>3 DEF PrepareCandidates
  <2> QED
    BY <1>3, <2>1, CandidatesAccounted DEF Searched, AccountedFor, Parsed
<1>4. CASE Analyze
  <2>1. UNCHANGED <<status, jobs, unsearched>>
    BY <1>4 DEF Analyze
  <2> QED
    BY <1>4, <2>1, OthersReports DEF Searched, AccountedFor
<1> QED
  BY <1>1, <1>2, <1>3, <1>4 DEF WorkdirStep, StartRun, StartPrepare, Prepared, PrepareFails, StartBugs, NoReports,
     SearchJira, JiraFails, Publish, Categorize, BugsKilled, Finalize, FinalizeFails, workdirVars, diskVars

\* Whatever stages runs are asked for, and whatever earlier runs left in the
\* directory, a release is shown with zero failures only when its collection
\* worked and found none, or when no bug search has taken it since.
THEOREM NoFalseCleanHolds ==
  ASSUME WorkdirAssumption
  PROVE  WorkdirSpec => NoFalseClean
<1> DEFINE Clean == html' # html => \A r \in html'.clean : status[r] \in {"clean", "empty"} \/ r \in unsearched
<1>1. InitWorkdir => Searched
  BY DEF InitWorkdir, Searched, AccountedFor, Sources
<1>2. WorkdirInv /\ Searched /\ [WorkdirStep]_workdirVars => Searched'
  BY SearchedNext
<1>3. WorkdirInv /\ Searched /\ [WorkdirStep]_workdirVars => [Clean]_workdirVars
  <2> SUFFICES ASSUME WorkdirInv, Searched, WorkdirStep, html' # html, NEW r \in html'.clean, r \notin unsearched
               PROVE  status[r] \in {"clean", "empty"}
    OBVIOUS
  <2>1. Finalize
    BY DEF WorkdirStep, StartRun, StartPrepare, CollectFails, CollectNoFailure, CollectFailures, Record, Prepared,
       PrepareFails, Analyze, StartBugs, PrepareCandidates, NoReports, SearchJira, JiraFails, Publish, Categorize,
       BugsKilled, FinalizeFails, diskVars
  <2>2. /\ r \in ToSet(Releases) /\ r \in Sources /\ summary'[r] = NoFile
        /\ r \notin errors /\ status[r] # "absent" /\ jobs[r] = {}
    BY <2>1 DEF Finalize, ShownClean, Sources
  <2>3. Parsed(r) = {}
    BY <2>1, <2>2 DEF Finalize, Aggregate, NoFile, Digest
  <2>4. status[r] # "failing" /\ status[r] # "failed"
    BY <2>2, <2>3 DEF Searched, AccountedFor, WorkdirInv, FailedHasError
  <2> QED
    BY <2>2, <2>4 DEF WorkdirInv, DiskTyped, Statuses
<1> QED
  BY <1>1, <1>2, <1>3, WorkdirInvariant, PTL DEF WorkdirSpec, NoFalseClean

(***************************************************************************)
(* The union                                                               *)
(***************************************************************************)
\* The union behaves like each of its parts: what is proved of a part holds of
\* the specification that TLC runs.
THEOREM ImplementsParts ==
  Spec => /\ WorkdirSpec /\ CorrelationSpec /\ PlanningSpec /\ NotesSpec /\ NotifierSpec
          /\ TimingSpec /\ WatchmanSpec /\ MonitorSpec /\ BugSearchSpec
<1>1. Init => /\ InitWorkdir /\ InitCorrelation /\ InitPlanning /\ InitNotes /\ InitNotifier
              /\ InitTiming /\ InitWatchman /\ InitMonitor /\ InitBugSearch
  BY DEF Init
<1>2. [Next]_vars => /\ [WorkdirStep]_workdirVars /\ [CorrelationStep]_correlationVars /\ [PlanningStep]_planningVars
                     /\ [NotesStep]_notesVars /\ [NotifierStep]_notifierVars /\ [TimingStep]_timingVars
                     /\ [WatchmanStep]_watchmanVars /\ [MonitorStep]_monitorVars /\ [BugSearchStep]_bugSearchVars
  BY DEF Next, vars
<1> QED
  BY <1>1, <1>2, PTL DEF Spec, WorkdirSpec, CorrelationSpec, PlanningSpec, NotesSpec, NotifierSpec,
     TimingSpec, WatchmanSpec, MonitorSpec, BugSearchSpec

\* Types of all nine parts, each while it moves and while it does not.
THEOREM TypesHold == Spec => []TypesOK
<1>1. WorkdirTypeOK /\ CorrelationTypeOK /\ PlanningTypeOK /\ NotesTypeOK /\ NotifierTypeOK
        /\ TimingTypeOK /\ WatchmanTypeOK /\ MonitorTypeOK /\ BugSearchTypeOK => TypesOK
  BY DEF TypesOK
<1>2. (WorkdirSpec => []WorkdirTypeOK) /\ (CorrelationSpec => []CorrelationTypeOK)
  BY ReportAssumption, WorkdirTypeCorrect, CorrelationTypeCorrect
<1>3. (PlanningSpec => [](PlanningTypes /\ PlanningTypeOK)) /\ (NotesSpec => []NotesTypeOK)
  BY ReportAssumption, PlanningTypeCorrect, NotesTypeCorrect
<1>4. (NotifierSpec => []NotifierTypeOK) /\ (TimingSpec => []TimingTypeOK)
  BY ReportAssumption, NotifierTypeCorrect, TimingTypeCorrect
<1>5. (WatchmanSpec => []WatchmanTypeOK) /\ (MonitorSpec => []MonitorTypeOK)
  BY ReportAssumption, WatchmanTypeCorrect, MonitorTypeCorrect
<1>6. BugSearchSpec => []BugSearchTypeOK
  BY ReportAssumption, SearchTypeCorrect
<1> QED  BY <1>1, <1>2, <1>3, <1>4, <1>5, <1>6, ImplementsParts, PTL
=============================================================================
