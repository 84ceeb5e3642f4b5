---------------------------- MODULE ReleaseChecks ----------------------------
(***************************************************************************)
(* The four tools that check the artifacts of a release and the two that   *)
(* check the builds before it, run against a release that differs from a   *)
(* complete one in a few things: something is not there yet, is wrong, or  *)
(* cannot be reached.                                                      *)
(***************************************************************************)
EXTENDS PublishedChecks, BuildPrechecks

CONSTANTS
  Versions,     \* that are released
  MaxChanges    \* bound on the differences

ChecksAssumption ==
  /\ MaxChanges \in Nat
  /\ \A v \in Versions :
       /\ v.type \in {"Z", "XY", "RC", "EC", "nightly"}
       /\ {v.bootc, v.el10, v.major5} \subseteq BOOLEAN /\ (v.major5 => v.el10) /\ (v.el10 => v.bootc)

VARIABLES
  version,
  world,        \* what the services answer
  changes,      \* so far
  report        \* of the run: the tool, its checks, if any FAILed, its exit, and
                \* if it printed JSON; << >> before

checksVars == <<version, world, changes, report>>

(***************************************************************************)
(* Answers                                                                 *)
(***************************************************************************)
Images == Arches \X {9, 10}
Envs   == {"stage", "prod"}

GoodEntry == [valid |-> TRUE, tag |-> "whole", commit |-> "same", xy0 |-> FALSE, grade |-> "A"]

Complete ==
  [mr |-> "found", yamls |-> 1, readable |-> TRUE, merged |-> FALSE, path |-> TRUE, nvr |-> "same",
   rnType |-> "RHBA", solution |-> TRUE, stageInternal |-> TRUE, prodInternal |-> TRUE, approved |-> "yes",
   errata |-> [e \in Envs |-> "valid"], page |-> [e \in Envs |-> "lists"],
   advisory |-> TRUE, specType |-> "RHBA",
   image |-> [x \in Images |-> [key |-> "own", sha |-> x, repo |-> TRUE]],
   catalog |-> [c \in Images \X Envs |-> GoodEntry], mirror |-> [x \in Images |-> x],
   again |-> [x \in Images |-> TRUE],
   brew |-> "found", packages |-> "all", spec |-> "known", nvrForm |-> TRUE, commit |-> "onbranch",
   rpmEl |-> TRUE, rpmMirror |-> TRUE, rc |-> "same",
   et |-> "found", etType |-> "RHBA", qa |-> "named", bugs |-> "accepted", nvrs |-> "all",
   textOnly |-> FALSE, pushed |-> TRUE, rhnqa |-> "passed", status |-> "SHIPPED_LIVE",
   hydra |-> "found", portal |-> "lists", cdn |-> "complete", docs |-> "mentioned", lifecycle |-> "full",
   payload |-> "Accepted", brewPage |-> "lists", ages |-> {1, 25}, dated |-> TRUE, branch |-> TRUE]

NoImage == [key |-> "absent", sha |-> NoSha, repo |-> TRUE]

CompleteFor(v) ==
  LET type == IF v.type = "XY" THEN "RHEA" ELSE "RHBA"
  IN  [Complete EXCEPT !.rnType = type, !.specType = type, !.etType = type,
                       !.image = [x \in Images |-> IF x \in Variants(v) THEN @[x] ELSE NoImage]]

Flags == {"readable", "merged", "path", "solution", "stageInternal", "prodInternal", "advisory",
          "nvrForm", "rpmEl", "rpmMirror", "textOnly", "pushed", "dated", "branch"}

Answers ==
  [mr |-> {"skipped", "missing"}, yamls |-> {0, 2}, nvr |-> {"none", "nocommit", "other"},
   rnType |-> {"none", "RHBA", "RHEA"}, approved |-> {"no", "unknown"}, specType |-> {"none", "RHBA", "RHEA"},
   brew |-> {"no vpn", "missing"}, packages |-> {"unknown", "lacks"}, spec |-> {"unknown"},
   commit |-> {"none", "offbranch"}, rc |-> {"none", "other"},
   et |-> {"no ticket", "missing"}, etType |-> {"RHSA", "RHEA"}, qa |-> {"default"},
   bugs |-> {"unknown", "open"}, nvrs |-> {"none", "some"}, rhnqa |-> {"unknown", "open"},
   status |-> {"NEW_FILES", "QE", "REL_PREP", "IN_PUSH"},
   hydra |-> {"unreachable", "missing"}, portal |-> {"unreachable", "error", "empty", "lacks"},
   cdn |-> {"unknown", "open"}, docs |-> {"unreachable", "error", "not mentioned"},
   lifecycle |-> {"unknown", "missing", "other phase", "ended"},
   payload |-> {"Rejected", "missing", "unreachable"}, brewPage |-> {"older", "unreachable"},
   ages |-> {{}, {-3}, {24}, {25, 49}}]

OtherEntry(env) ==
  {[GoodEntry EXCEPT !.valid = FALSE], [GoodEntry EXCEPT !.commit = "other"],
   [GoodEntry EXCEPT !.xy0 = TRUE], [GoodEntry EXCEPT !.grade = "C"], [GoodEntry EXCEPT !.tag = "nodate"]}

OtherImage(x) ==
  {NoImage, [key |-> "plain", sha |-> x, repo |-> TRUE],
   [key |-> "own", sha |-> NoSha, repo |-> TRUE], [key |-> "own", sha |-> x, repo |-> FALSE],
   [key |-> "own", sha |-> <<"amd64", x[2]>>, repo |-> TRUE]}

(***************************************************************************)
(* Steps                                                                   *)
(***************************************************************************)
InitChecks ==
  /\ version \in Versions
  /\ world = CompleteFor(version) /\ changes = 0 /\ report = << >>

Happens(w) ==
  /\ changes < MaxChanges /\ report = << >>
  /\ world' = w /\ changes' = changes + 1
  /\ UNCHANGED <<version, report>>

Differ == \E f \in DOMAIN Answers : \E a \in Answers[f] : Happens([world EXCEPT ![f] = a])
Flip   == \E f \in Flags : Happens([world EXCEPT ![f] = ~@])
DifferPage ==
  \E e \in Envs :
    \/ \E u \in {"none", "malformed"} : Happens([world EXCEPT !.errata[e] = u])
    \/ \E p \in {"unreadable", "lacks"} : Happens([world EXCEPT !.page[e] = p])
DifferImage ==
  \E x \in Variants(version) :
    \/ \E image \in OtherImage(x) : Happens([world EXCEPT !.image[x] = image])
    \/ \E sha \in {NoSha, <<"other", 0>>} : Happens([world EXCEPT !.mirror[x] = sha])
    \/ Happens([world EXCEPT !.again[x] = ~@])
    \/ \E e \in Envs : \E c \in OtherEntry(e) : Happens([world EXCEPT !.catalog[<<x, e>>] = c])

Ends(tool, checks, failed, exit, json) ==
  /\ report = << >>
  /\ report' = <<[tool |-> tool, checks |-> checks, failed |-> failed, exit |-> exit, json |-> json]>>
  /\ UNCHANGED <<version, world, changes>>

Run(tool, results, exit, json) == Ends(tool, {r.check : r \in results}, Failed(results), exit, json)

CheckAdvisory(envs, json) ==
  Run(<<"advisory_promotion", envs>>, AdvisoryResults(version, world, envs),
      AdvisoryExit(version, world, envs, json), json)
CheckArtifacts(json) ==
  Run(<<"validate_artifacts">>, ArtifactResults(version, world), ArtifactExit(version, world, json), json)

\* These two exit by their results in either form.
CheckErrata ==
  LET results == ErrataResults(version, world)
  IN  Run(<<"errata_promotion">>, results, ExitOf(results), FALSE)
CheckPublished ==
  Run(<<"post_release">>, PostResults(version, world), PostExit(version, world), FALSE)

Precheck(tool, label, exit) == Ends(tool, {label}, FALSE, exit, FALSE)

CheckEcrc(asked, named) ==
  /\ PreRelease(version)
  /\ Precheck(<<"precheck_ecrc", asked>>, EcrcLabel(version, world, asked, named), EcrcExit(world, named))
CheckNightly(named) ==
  /\ version.type = "nightly"
  /\ Precheck(<<"precheck_nightly">>, NightlyLabel(world, named), NightlyExit(world, named))

ChecksStep ==
  \/ Differ \/ Flip \/ DifferPage \/ DifferImage
  \/ \E envs \in {{"stage"}, {"prod"}, Envs}, json \in BOOLEAN : CheckAdvisory(envs, json)
  \/ \E asked \in {"EC", "RC"}, named \in BOOLEAN : CheckEcrc(asked, named)
  \/ \E named \in BOOLEAN : CheckNightly(named)
  \/ \E json \in BOOLEAN : CheckArtifacts(json)
  \/ CheckErrata \/ CheckPublished

ChecksSpec == InitChecks /\ [][ChecksStep]_checksVars

(***************************************************************************)
(* Properties                                                              *)
(***************************************************************************)
ChecksTypeOK ==
  /\ version \in Versions /\ changes \in 0..MaxChanges
  /\ report # << >> => report[1].exit \in {0, 1}

\* What the reader of a run goes by: the exit of a run in text, and of one in
\* JSON, whose exit says nothing, that no check of it FAILed either.
Green(tool) ==
  /\ report # << >> /\ report[1].tool = tool /\ report[1].exit = 0
  /\ report[1].json => ~report[1].failed

\* The prechecks exit with 0 whatever they have to say.
Says(tool, label) == Green(tool) /\ label \in report[1].checks

\* Most checks only warn of what they cannot see, and no warning fails a run:
\* a green run means that the release is fit for the step it was run before.
\* (A pre-release that is not 4.x has no type, and precheck_ecrc says OK to it.)
GreenMeansFit ==
  /\ \A envs \in {{"stage"}, {"prod"}, Envs} :
       (Green(<<"advisory_promotion", envs>>) /\ version.type # "nightly") => Promotable(version, world, envs)
  /\ (Green(<<"validate_artifacts">>) /\ PreRelease(version)) => Mirrored(version, world)
  /\ Green(<<"errata_promotion">>) => Shippable(version, world)
  /\ Green(<<"post_release">>) => Available(version, world)
  /\ Says(<<"precheck_ecrc", ActualType(version)>>, "OK") => EcrcReady(world)
  /\ Says(<<"precheck_nightly">>, "OK") => NightlyFresh(world)

\* validate_artifacts reports on each of its checks, one it could not make
\* included.
EveryCheckReported ==
  (report # << >> /\ report[1].tool = <<"validate_artifacts">>) => ArtifactCheckIds \subseteq report[1].checks
=============================================================================
