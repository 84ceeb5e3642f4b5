------------------------------- MODULE Watchman -------------------------------
(***************************************************************************)
(* watchman/lambda_function.py: the hourly sweep that stops old instances  *)
(* and records every attempt in DynamoDB, and the weekly report that tells *)
(* Slack what was recorded since the report before.  Both are invocations  *)
(* of one Lambda: they overlap, are repeated, lose any single call and end *)
(* when their time is over.  A report covers [start, end).                 *)
(***************************************************************************)
EXTENDS Integers, FiniteSets

CONSTANTS
  Instances, RegionOf,   \* regions are 1..LastRegion
  LastRegion,
  Threshold,             \* [Instances -> age at which one is stopped]
  Sweeps, Reports,       \* invocations; reports are numbered as they begin
  Week,                  \* what the first report looks back
  Lifetime,              \* of an invocation: the Lambda timeout
  Retention,             \* of an event in the table
  LastTime               \* bound of TLC

WatchmanAssumption ==
  /\ RegionOf \in [Instances -> 1..LastRegion] /\ Threshold \in [Instances -> Nat]
  /\ Reports \subseteq Nat /\ LastRegion \in Nat \ {0} /\ LastTime \in Nat
  /\ Week \in Nat /\ Lifetime \in Nat /\ Retention \in Nat
  /\ 0 < Lifetime /\ Lifetime <= Week /\ Week <= Retention

VARIABLES
  clock,
  launched,    \* instance -> launch time, -1 when it does not run
  sweep,       \* invocation -> what it is doing
  table,       \* events in DynamoDB
  watermark,   \* reported_through, -1 before there is one
  report,      \* invocation -> what it is doing
  told,        \* events that a digest counted which Slack accepted
  first        \* {start} of the first report that left a watermark, {} before

watchmanVars == <<clock, launched, sweep, table, watermark, report, told, first>>

Asleep   == [at |-> "off", began |-> 0, region |-> 1, chosen |-> {}, accepted |-> {}, left |-> {}, stamp |-> -1]
Slept    == [Asleep EXCEPT !.at = "over"]
Unasked  == [at |-> "off", start |-> 0, end |-> 0, events |-> {}, asked |-> FALSE, posted |-> FALSE]

InitWatchman ==
  /\ clock = 0 /\ launched = [i \in Instances |-> 0]
  /\ sweep = [s \in Sweeps |-> Asleep] /\ table = {}
  /\ watermark = -1 /\ report = [r \in Reports |-> Unasked] /\ told = {} /\ first = {}

UnderWay(invocation) == invocation.at \notin {"off", "over"}

\* Nothing runs longer than the Lambda may.
Tick ==
  /\ clock < LastTime /\ clock' = clock + 1
  /\ \A s \in Sweeps : UnderWay(sweep[s]) => clock < sweep[s].began + Lifetime
  /\ \A r \in Reports : UnderWay(report[r]) => clock < report[r].end + Lifetime
  /\ UNCHANGED <<launched, sweep, table, watermark, report, told, first>>

Restart(i) ==
  /\ launched[i] = -1 /\ launched' = [launched EXCEPT ![i] = clock]
  /\ UNCHANGED <<clock, sweep, table, watermark, report, told, first>>

Expire(e) ==
  /\ e \in table /\ clock >= e.at + Retention /\ table' = table \ {e}
  /\ UNCHANGED <<clock, launched, sweep, watermark, report, told, first>>

(***************************************************************************)
(* handle_sweep                                                            *)
(***************************************************************************)
BeginSweep(s) ==
  /\ sweep[s].at = "off" /\ sweep' = [sweep EXCEPT ![s].at = "describe", ![s].began = clock]
  /\ UNCHANGED <<clock, launched, table, watermark, report, told, first>>

ShouldShutdown(i) == launched[i] # -1 /\ clock - launched[i] >= Threshold[i]

\* One region after the other; a failure leaves the region out.
DescribeRegion(s, answered) ==
  /\ sweep[s].at = "describe"
  /\ LET here == {i \in Instances : answered /\ RegionOf[i] = sweep[s].region /\ ShouldShutdown(i)}
         last == sweep[s].region = LastRegion IN
     sweep' = [sweep EXCEPT ![s].chosen = @ \cup here, ![s].at = IF last THEN "stop" ELSE "describe",
                            ![s].region = IF last THEN 1 ELSE @ + 1]
  /\ UNCHANGED <<clock, launched, table, watermark, report, told, first>>

Here(s) == {i \in sweep[s].chosen : RegionOf[i] = sweep[s].region}

NextRegion(s) ==
  IF sweep[s].region = LastRegion THEN Slept
  ELSE [sweep[s] EXCEPT !.at = "stop", !.region = @ + 1, !.left = {}, !.stamp = -1]

\* stop_instances: EC2 may stop what it does not confirm.
StopRegion(s, accepted, stopped) ==
  /\ sweep[s].at = "stop" /\ accepted \subseteq stopped /\ stopped \subseteq Here(s)
  /\ launched' = [i \in Instances |-> IF i \in stopped THEN -1 ELSE launched[i]]
  /\ sweep' = [sweep EXCEPT ![s] =
       IF Here(s) = {} THEN NextRegion(s)
       ELSE [sweep[s] EXCEPT !.at = "record", !.accepted = accepted, !.left = Here(s)]]
  /\ UNCHANGED <<clock, table, watermark, report, told, first>>

\* stopped_at is taken before the event is written.
Stamp(s) ==
  /\ sweep[s].at = "record" /\ sweep[s].stamp = -1
  /\ sweep' = [sweep EXCEPT ![s].stamp = clock]
  /\ UNCHANGED <<clock, launched, table, watermark, report, told, first>>

\* The reports that asked the table already for a time that held this one.
AskedBefore(time) == {r \in Reports : report[r].asked /\ time < report[r].end}

RecordEvent(s, i, written) ==
  /\ sweep[s].at = "record" /\ sweep[s].stamp # -1 /\ i \in sweep[s].left
  /\ table' = IF written
              THEN table \cup {[instance |-> i, at |-> sweep[s].stamp, ok |-> i \in sweep[s].accepted,
                                missedBy |-> AskedBefore(sweep[s].stamp)]}
              ELSE table
  /\ sweep' = [sweep EXCEPT ![s] = IF @.left = {i} THEN NextRegion(s)
                                   ELSE [@ EXCEPT !.left = sweep[s].left \ {i}, !.stamp = -1]]
  /\ UNCHANGED <<clock, launched, watermark, report, told, first>>

SweepDies(s) ==
  /\ UnderWay(sweep[s]) /\ sweep' = [sweep EXCEPT ![s] = Slept]
  /\ UNCHANGED <<clock, launched, table, watermark, report, told, first>>

(***************************************************************************)
(* handle_report                                                           *)
(***************************************************************************)
BeginReport(r) ==
  /\ report[r].at = "off" /\ (\A q \in Reports : q < r => report[q].at # "off")
  /\ report' = [report EXCEPT ![r].at = "read", ![r].end = clock]
  /\ UNCHANGED <<clock, launched, sweep, table, watermark, told, first>>

ReadWatermark(r) ==
  /\ report[r].at = "read"
  /\ LET start == IF watermark = -1 THEN report[r].end - Week ELSE watermark IN
     report' = [report EXCEPT ![r] = IF start > @.end THEN [Unasked EXCEPT !.at = "over"]
                                     ELSE [@ EXCEPT !.start = start, !.at = "query"]]
  /\ UNCHANGED <<clock, launched, sweep, table, watermark, told, first>>

\* Months and pages are one read.
QueryEvents(r) ==
  /\ report[r].at = "query"
  /\ report' = [report EXCEPT ![r].at = "post", ![r].asked = TRUE,
                              ![r].events = {e \in table : report[r].start <= e.at /\ e.at < report[r].end}]
  /\ UNCHANGED <<clock, launched, sweep, table, watermark, told, first>>

\* Told: an event is in the totals of a digest and in the list of its region,
\* which gives no names from the 31st or 2800 characters on, but their number
\* ("and n more"); regions past the 40th are told as one number.
PostDigest(r) ==
  /\ report[r].at = "post"
  /\ told' = told \cup report[r].events
  /\ report' = [report EXCEPT ![r].at = "write", ![r].posted = TRUE, ![r].events = {}]
  /\ UNCHANGED <<clock, launched, sweep, table, watermark, first>>

\* Mutant: the watermark is the time at which it is written.
MarkNow(r) == clock

Mark(r) == report[r].end

WriteWatermark(r) ==
  /\ report[r].at = "write"
  /\ watermark' = Mark(r) /\ first' = (IF first = {} THEN {report[r].start} ELSE first)
  /\ report' = [report EXCEPT ![r].at = "over", ![r].start = 0]
  /\ UNCHANGED <<clock, launched, sweep, table, told>>

\* Any call fails, Slack does not accept, or the time is over: what was done
\* stays done.
ReportFails(r) ==
  /\ UnderWay(report[r])
  /\ report' = [report EXCEPT ![r] = IF @.posted THEN [@ EXCEPT !.at = "over", !.start = 0] ELSE [Unasked EXCEPT !.at = "over"]]
  /\ UNCHANGED <<clock, launched, sweep, table, watermark, told, first>>

WatchmanStep ==
  \/ Tick
  \/ (\E i \in Instances : Restart(i))
  \/ (\E e \in table : Expire(e))
  \/ \E s \in Sweeps :
       \/ BeginSweep(s) \/ Stamp(s) \/ SweepDies(s)
       \/ (\E answered \in BOOLEAN : DescribeRegion(s, answered))
       \/ (\E accepted, stopped \in SUBSET Here(s) : StopRegion(s, accepted, stopped))
       \/ (\E i \in sweep[s].left, written \in BOOLEAN : RecordEvent(s, i, written))
  \/ \E r \in Reports :
       \/ BeginReport(r) \/ ReadWatermark(r) \/ QueryEvents(r) \/ PostDigest(r) \/ WriteWatermark(r) \/ ReportFails(r)

WatchmanSpec == InitWatchman /\ [][WatchmanStep]_watchmanVars
(***************************************************************************)
(* Properties                                                              *)
(***************************************************************************)
\* The types; an event is told only after the table was asked for it, and
\* nothing is stamped in the future.
WatchmanTypeOK ==
  /\ clock \in 0..LastTime /\ watermark \in -1..LastTime
  /\ \A s \in Sweeps : sweep[s].left \subseteq sweep[s].chosen /\ sweep[s].stamp \in -1..clock
  /\ \A r \in Reports : report[r].posted => report[r].asked /\ report[r].at \in {"write", "over"}
  /\ \A e \in table \cup told : e.instance \in Instances /\ e.at \in 0..clock

\* "If a report fails, the next one catches up": whatever fails, repeats or
\* overlaps, the watermark passes no event of the table that Slack was not
\* told of.  Two kinds are beyond it: an event of before the window of the
\* first report that left a watermark, and one that was stamped before and
\* written after a report, which did reach Slack, had asked the table.
PassedIsTold ==
  \A e \in table, start \in first :
    start <= e.at /\ e.at < watermark =>
      e \in told \/ \E r \in e.missedBy : report[r].posted
=============================================================================
