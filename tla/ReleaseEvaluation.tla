-------------------------- MODULE ReleaseEvaluation --------------------------
(***************************************************************************)
(* precheck_xyz.py: evaluate_version asks the catalog, the release         *)
(* controller, git, GitLab and Jira about one z-stream version, one after  *)
(* the other, and recommends what to do with it.  A query that fails ends  *)
(* the evaluation, or is replaced by an empty answer, each its own way.    *)
(* The CVEs are those of all advisories but the metadata ones.             *)
(***************************************************************************)
EXTENDS Integers

CONSTANTS
  Cves,       \* CVEs the advisories may name; each may have a tracker in Jira
  Bug,        \* a ticket of a MicroShift bug that is no CVE
  Trackers,   \* what a ticket may look like: status, resolution and labels
  NoTracker   \* no ticket of a MicroShift component, or none mentioned

VARIABLES
  query,   \* the next query, or "done"
  eval,    \* the result so far
  jira,    \* the tickets in Jira
  missed   \* advisories of a version could not be read

evalVars == <<query, eval, jira, missed>>

Tickets == Cves \union {Bug}
Labels  == {"release-required", "release-not-required"}

TrackerAssumption == \A t \in Trackers :
  t.labels \in SUBSET Labels /\ t.status \in STRING /\ t.resolution \in STRING

(***************************************************************************)
(* jira_client.py: what a ticket asks for                                  *)
(***************************************************************************)
NonFixResolutions == {"Won't Do", "Won't Fix", "Not a Bug", "Duplicate"}
NeedsALook(t)     == t.status = "Verified" /\ t.resolution = "none"

ByLabel(t) == IF "release-required" \in t.labels THEN "release_required" ELSE "release_not_required"

\* enrich_ocpbugs, for a ticket that a commit message names.
CommitAction(k) ==
  LET t == jira[k] IN
  IF t.labels # {} THEN ByLabel(t)
  ELSE IF k \in Cves /\ NeedsALook(t) THEN "needs_review"
  ELSE IF t.status \in {"Verified", "Closed"} /\ t.resolution \notin NonFixResolutions THEN "release_required"
  ELSE "needs_review"

\* find_microshift_component_cves: the tickets it lists, and their actions.
Listed(k) ==
  LET t == jira[k] IN
  /\ t # NoTracker
  /\ t.resolution \notin {"Won't Do", "Not a Bug", "Duplicate", "Done-Errata"}
  /\ t.labels # {} \/ t.status # "In Progress" \/ t.resolution = "Done"

ComponentAction(k) ==
  LET t == jira[k] IN
  IF t.labels # {} THEN ByLabel(t)
  ELSE IF ~NeedsALook(t) /\ (t.status = "Verified" \/ t.resolution = "Done") /\ t.resolution \notin NonFixResolutions
       THEN "release_required"
  ELSE "needs_review"

(***************************************************************************)
(* interpret_cves                                                          *)
(***************************************************************************)
Meaning(t) ==
  IF t.resolution \in {"Done-Errata", "Not a Bug", "Won't Do", "Duplicate"} THEN "no action"
  ELSE IF "release-required" \in t.labels THEN "must_release"
  ELSE IF "release-not-required" \in t.labels THEN "no action"
  ELSE IF NeedsALook(t) THEN "needs_review"
  ELSE IF t.resolution = "Done" \/ t.status = "Verified" THEN "must_release"
  ELSE "not actionable"

\* The weightiest of the CVEs decides.
Impact(e) ==
  LET meant == {e.cves[c] : c \in DOMAIN e.cves} IN
  IF ~e.report THEN "unknown"
  ELSE IF "must_release" \in meant THEN "must_release"
  ELSE IF "needs_review" \in meant THEN "needs_review"
  ELSE IF "pending" \in meant THEN "pending_enrichment" ELSE "none"

(***************************************************************************)
(* compute_recommendation                                                  *)
(***************************************************************************)
Release(e) == IF e.ocp_status = "available" THEN "ASK ART" ELSE "BLOCKED"

\* Mutant: a long gap asks for a release of nothing.
DueByGapAlways(e) == e.days_at_release >= 90
DueByGap(e)       == e.days_at_release >= 90 /\ e.commits > 0

Recommendation(e) ==
  IF Impact(e) = "must_release" \/ DueByGap(e) \/ "release_required" \in e.bugs THEN Release(e)
  ELSE IF "needs_review" \in e.bugs \/ Impact(e) # "none" \/ (e.bugs # {} /\ e.undeduped) THEN "NEEDS REVIEW"
  ELSE "SKIP"

(***************************************************************************)
(* evaluate_version                                                        *)
(***************************************************************************)
\* -1 days: no release, or no date of it is found.
NoEval == [recommendation |-> "none", last_pub |-> FALSE, ocp_status |-> "", days_at_release |-> -1,
           commits |-> 0, shipped |-> {}, undeduped |-> FALSE, bugs |-> {}, report |-> FALSE, cves |-> << >>]

StartEvaluation ==
  /\ query = "lifecycle" /\ eval = NoEval /\ missed = FALSE
  /\ jira \in [Tickets -> Trackers \union {NoTracker}]

Answer(r) == query' = "done" /\ eval' = [eval EXCEPT !.recommendation = r]

\* get_lifecycle_status: at its end of life or not, or not a known version.
Lifecycle ==
  /\ query = "lifecycle"
  /\ Answer("SKIP") \/ (query' = "vpn" /\ eval' = eval)
  /\ UNCHANGED <<jira, missed>>

CheckVpn ==
  /\ query = "vpn"
  /\ Answer("NEEDS REVIEW") \/ (query' = "released" /\ eval' = eval)
  /\ UNCHANGED <<jira, missed>>

\* is_version_published says no too when none of its requests succeeds; what
\* it does raise ends the evaluation.
AlreadyReleased ==
  /\ query = "released"
  /\ \/ Answer("ALREADY RELEASED") \/ Answer("NEEDS REVIEW")
     \/ query' = "payload" /\ eval' = eval
  /\ UNCHANGED <<jira, missed>>

\* check_ocp_payload_accepted; "" when it raises, for anything but available.
Payload ==
  /\ query = "payload"
  /\ query' = "commits"
  /\ \E s \in {"available", ""} : eval' = [eval EXCEPT !.ocp_status = s]
  /\ UNCHANGED <<jira, missed>>

\* The last published release and the commits since its tag, its build or an
\* older tag, or of the whole branch.  A git log that fails counts none.
Commits ==
  /\ query = "commits"
  /\ query' = "date"
  /\ \E pub \in BOOLEAN, n \in 0..1 : eval' = [eval EXCEPT !.last_pub = pub, !.commits = n]
  /\ UNCHANGED <<jira, missed>>

\* Days from the date of the last release to the due date of the ART ticket of
\* the version, or to today when no ticket or no date of it is found.
DaysAtRelease(e) == IF e.last_pub THEN {89, 90} ELSE {-1}

ReleaseDate ==
  /\ query = "date"
  /\ query' = "shipped"
  /\ \E days \in DaysAtRelease(eval) : eval' = [eval EXCEPT !.days_at_release = days]
  /\ UNCHANGED <<jira, missed>>

\* The CVEs of the advisories up to the last release, those that are read;
\* none when the collection raises, which is noted.
Shipped ==
  /\ query = "shipped"
  /\ query' = "bugs"
  /\ \/ \E s \in SUBSET Cves : eval' = [eval EXCEPT !.shipped = IF eval.last_pub THEN s ELSE {}]
     \/ eval.last_pub /\ eval' = [eval EXCEPT !.undeduped = TRUE]
  /\ UNCHANGED <<jira, missed>>

\* query_resolved_bugs: tickets named in commit messages and component CVEs,
\* those resolved before the last release left out.  Without Jira the former
\* need review and the latter are not known.
ResolvedBugs ==
  /\ query = "bugs"
  /\ query' = "advisories"
  /\ \E named \in SUBSET {k \in Tickets : eval.commits > 0 /\ jira[k] # NoTracker}, enriched, searched \in BOOLEAN :
       \E recent \in SUBSET {k \in Cves : Listed(k)} :
         LET found == IF searched THEN recent \ (eval.shipped \union named) ELSE {} IN
         /\ {k \in Cves : Listed(k) /\ jira[k].status = "Verified"} \subseteq recent
         /\ eval' = [eval EXCEPT !.bugs = {IF enriched THEN CommitAction(k) ELSE "needs_review" : k \in named}
                                          \union {ComponentAction(k) : k \in found}]
  /\ UNCHANGED <<jira, missed>>

\* get_advisory_report, over the versions: one without a shipment, without an
\* answer of GitLab or without the VPN has no report; a file of the shipment
\* that cannot be read is passed over, its CVEs with it.
Reports == [cves : SUBSET Cves, missed : BOOLEAN]

\* run_cumulative_advisory_report: the advisories of the versions since the
\* last release, the newest twenty, in the order they arrive.  Those that
\* fail are left out; if all fail there is no report.
Advisories ==
  /\ query = "advisories"
  /\ query' = "enrich"
  /\ \/ \E r \in Reports :
          /\ eval' = [eval EXCEPT !.report = TRUE, !.cves = [c \in r.cves |-> "pending"]]
          /\ missed' = r.missed
     \/ eval' = eval /\ missed' = TRUE
  /\ UNCHANGED jira

\* Mutant: a lookup that failed counts as a CVE without a tracker.
EnrichedAlways(c, failed) ==
  IF c \in eval.shipped \/ c \in failed \/ jira[c] = NoTracker THEN "no action" ELSE Meaning(jira[c])

Enriched(c, failed) ==
  IF c \in failed THEN "pending"
  ELSE IF c \in eval.shipped \/ jira[c] = NoTracker THEN "no action" ELSE Meaning(jira[c])

\* enrich_advisory_cves and interpret_cves: all lookups fail without Jira.
Enrich ==
  /\ query = "enrich"
  /\ query' = "recommend"
  /\ \E failed \in SUBSET DOMAIN eval.cves :
       eval' = [eval EXCEPT !.cves = [c \in DOMAIN eval.cves |-> Enriched(c, failed)]]
  /\ UNCHANGED <<jira, missed>>

Recommend ==
  /\ query = "recommend"
  /\ Answer(Recommendation(eval))
  /\ UNCHANGED <<jira, missed>>

\* main: an exception that nobody caught, as of a Brew page out of reach.
Raised ==
  /\ query = "commits"
  /\ Answer("NEEDS REVIEW")
  /\ UNCHANGED <<jira, missed>>

Evaluate ==
  \/ Lifecycle \/ CheckVpn \/ AlreadyReleased \/ Payload \/ Commits \/ ReleaseDate \/ Shipped
  \/ ResolvedBugs \/ Advisories \/ Enrich \/ Recommend \/ Raised

EvalSpec == StartEvaluation /\ [][Evaluate]_evalVars

(***************************************************************************)
(* Properties                                                              *)
(***************************************************************************)
EvalTypeOK ==
  /\ eval.recommendation \in {"none", "SKIP", "NEEDS REVIEW", "ALREADY RELEASED", "ASK ART", "BLOCKED"}
  /\ (query = "done") = (eval.recommendation # "none")
  /\ eval.shipped \subseteq Cves /\ DOMAIN eval.cves \subseteq Cves
  /\ eval.bugs \subseteq {"release_required", "release_not_required", "needs_review"}

\* A fix for MicroShift that landed and has not shipped.
Landed(c) ==
  LET t == jira[c] IN
  /\ t # NoTracker /\ c \notin eval.shipped
  /\ t.resolution \notin {"Done-Errata", "Not a Bug", "Won't Do", "Duplicate"}
  /\ \/ "release-required" \in t.labels
     \/ t.labels = {} /\ (t.resolution = "Done" \/ (t.status = "Verified" /\ t.resolution # "none"))

Recommended == query = "done" /\ eval.report

\* Every CVE the advisories name has its say: a landed fix that Jira told of
\* makes a release needed, whatever else is pending or to be reviewed, and a
\* version is skipped only if Jira answered for each.
CvesDecide ==
  Recommended =>
    /\ (\E c \in DOMAIN eval.cves : Landed(c) /\ eval.cves[c] # "pending") =>
         eval.recommendation = Release(eval)
    /\ eval.recommendation = "SKIP" =>
         \A c \in DOMAIN eval.cves : eval.cves[c] # "pending" /\ ~Landed(c)
              /\ (c \in eval.shipped \/ jira[c] = NoTracker \/ jira[c].labels # {} \/ ~NeedsALook(jira[c])
                  \/ jira[c].resolution \in NonFixResolutions)

\* What compute_recommendation says of itself: with advisory data unknown it
\* does not recommend to skip.
SkipKnowsAdvisories == query = "done" /\ eval.recommendation = "SKIP" => ~missed
=============================================================================
