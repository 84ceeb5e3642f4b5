---------------------------- MODULE BuildPrechecks ----------------------------
(***************************************************************************)
(* precheck_ecrc.py and precheck_nightly.py: what they say of the builds   *)
(* of a pre-release or of a nightly stream, "OK", "ASK ART" or "ERROR",    *)
(* and how they exit.  v is the version and w what the services answer.    *)
(***************************************************************************)
EXTENDS Integers, FiniteSetsExt

\* _fetch_brew_page: the page of the package has the recent builds only, and
\* unlike the artifact checks nothing falls back on a search.
NoPage(w) == w.brewPage = "unreachable"

\* find_ecrc_rpms.
OnPage(w) == w.brew = "found" /\ w.brewPage = "lists"

(***************************************************************************)
(* Pre-releases                                                            *)
(***************************************************************************)
\* parse_ecrc_version knows versions 4.
ActualType(v) == IF v.major5 THEN "unknown" ELSE v.type

\* get_specific_release of a named version, get_latest_dev_preview otherwise:
\* only for a named one is an absent release an answer.
Unreached(w, named) == w.payload = "unreachable" \/ (w.payload = "missing" /\ ~named)

EcrcStatus(w, named) ==
  IF Unreached(w, named) THEN "ERROR"
  ELSE IF w.payload = "missing" THEN "NOT_FOUND"
  ELSE IF w.payload # "Accepted" THEN "OCP_PENDING"
  ELSE IF OnPage(w) THEN "READY" ELSE "RPMS_NOT_BUILT"

\* format_text: a release of another type than was asked for is in order.
EcrcLabel(v, w, asked, named) ==
  LET status == EcrcStatus(w, named) IN
  IF status = "ERROR" THEN "ERROR"
  ELSE IF status # "NOT_FOUND" /\ (status = "READY" \/ ActualType(v) # asked) THEN "OK"
  ELSE "ASK ART"

EcrcExit(w, named) == IF Unreached(w, named) /\ ~named THEN 1 ELSE 0

\* The operator may test the release.
EcrcReady(w) == w.payload = "Accepted" /\ w.brew = "found"

(***************************************************************************)
(* Nightlies                                                               *)
(***************************************************************************)
\* A stream that the life cycle does not list is checked like an active one.
Checked(w, named) == (named \/ w.branch) /\ w.lifecycle # "ended"

\* Hours from the newest Brew build of the stream to its OCP nightly.
Gap(w) == Min(w.ages)

\* classify_gap.
InTime(w) == Gap(w) <= 24

\* get_latest_nightly: a stream without nightlies is an error as well.
NoNightly(w) == w.payload \in {"unreachable", "missing"}

\* No life cycle, no VPN or no page ends the tool before it checks a branch.
NightlyExit(w, named) ==
  IF \/ w.lifecycle = "unknown"
     \/ Checked(w, named) /\ (w.brew = "no vpn" \/ NoPage(w))
  THEN 1 ELSE 0

\* check_branch; a stream that is not checked has no line.
NightlyLabel(w, named) ==
  IF NightlyExit(w, named) = 1 THEN "ERROR"
  ELSE IF ~Checked(w, named) THEN "no branches"
  ELSE IF NoNightly(w) THEN "ERROR"
  ELSE IF w.ages = {} THEN "ASK ART"
  ELSE IF ~w.dated THEN "ERROR"
  ELSE IF InTime(w) THEN "OK" ELSE "ASK ART"

\* The supported stream has a Brew build of the day of its nightly.
NightlyFresh(w) ==
  /\ w.lifecycle \notin {"unknown", "ended"} /\ ~NoNightly(w)
  /\ \E age \in w.ages : age <= 24
=============================================================================
