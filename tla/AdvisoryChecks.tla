---------------------------- MODULE AdvisoryChecks ----------------------------
(***************************************************************************)
(* advisory_promotion.py: the checks of the Konflux bootc advisory of one  *)
(* version.  v is the version, as far as the checks tell versions apart,   *)
(* and w what GitLab, the catalogs, the errata pages and Brew answer.      *)
(***************************************************************************)
EXTENDS Integers, FiniteSets

Arches      == {"amd64", "arm64"}
NoSha       == << >>
Rhels(v)    == IF v.el10 THEN {9, 10} ELSE {9}
Variants(v) == Arches \X Rhels(v)
PreRelease(v) == v.type \in {"EC", "RC"}
ExpectedTypes(v) == IF v.type = "XY" THEN {"RHEA"} ELSE {"RHBA", "RHSA"}

(***************************************************************************)
(* Results                                                                 *)
(***************************************************************************)
Result(check, status)  == [check |-> check, status |-> status]
Passes(holds)          == IF holds THEN "PASS" ELSE "FAIL"
Verdict(unknown, bad)  == IF unknown THEN "WARN" ELSE Passes(~bad)
Unless(skipped, status) == IF skipped THEN "SKIP" ELSE status

Failed(results) == \E r \in results : r.status = "FAIL"
ExitOf(results) == IF Failed(results) THEN 1 ELSE 0

(***************************************************************************)
(* The shipment merge request: skipped without access to the project, no   *)
(* content unless it changes exactly one YAML file that can be read.       *)
(***************************************************************************)
MrFound(w)  == w.mr = "found"
Content(w)  == MrFound(w) /\ w.yamls = 1 /\ w.readable
StageInternal(w) == Content(w) /\ w.stageInternal
Advisory(w) == StageInternal(w) /\ w.advisory

\* An image of the advisory whose component does not name the RHEL version
\* stands for el9.
HasImage(w, x) == Advisory(w) /\ (w.image[x].key = "own" \/ (w.image[x].key = "plain" /\ x[2] = 9))
HasImages(w)   == Advisory(w) /\ \E x \in DOMAIN w.image : w.image[x].key # "absent"

(***************************************************************************)
(* Checks of one image                                                     *)
(***************************************************************************)
\* Mutant: an image that is not there is only warned of.
ImagePresentWarns(w, x) == Verdict(~HasImage(w, x), FALSE)

ImagePresent(w, x) == Passes(HasImage(w, x))
Repository(w, x)   == Verdict(~HasImage(w, x), ~w.image[x].repo)
ImageSha(w, x)     == Verdict(~HasImage(w, x), w.image[x].sha = NoSha)

CatalogPresent(v, env, c) == Unless(env = "prod" /\ PreRelease(v), Passes(c.valid))

TagCommit(c) ==
  LET inTag == c.tag \notin {"none", "nocommit"}
  IN  Verdict(~c.valid \/ (inTag /\ c.commit = "none"), ~inTag \/ c.commit = "other")

TagDate(c)      == Verdict(~c.valid, c.tag \in {"none", "nodate"})
NoXy0Tag(v, c)  == Unless(v.type # "Z", Verdict(~c.valid, c.xy0))
ChiFreshness(c) == Verdict(~c.valid \/ c.grade = "none", c.grade # "A")

VariantResults(v, w, envs, x) ==
  {Result(<<"image_present", x>>, ImagePresent(w, x)),
   Result(<<"repository", x>>, Repository(w, x)),
   Result(<<"image_sha", x>>, ImageSha(w, x))}
  \union UNION {LET c == w.catalog[<<x, env>>]
                IN  {Result(<<"catalog_present", x, env>>, CatalogPresent(v, env, c)),
                     Result(<<"tag_commit", x, env>>, TagCommit(c)),
                     Result(<<"tag_date", x, env>>, TagDate(c)),
                     Result(<<"no_xy0_tag", x, env>>, NoXy0Tag(v, c)),
                     Result(<<"chi", x, env>>, ChiFreshness(c))} : env \in envs}

(***************************************************************************)
(* Checks of the advisory and of the shipment                              *)
(***************************************************************************)
AdvisoryType(v, w) == Verdict(~Advisory(w), w.specType \notin ExpectedTypes(v))
ShipmentType(v, w) == Verdict(~Content(w) \/ w.rnType = "none", w.rnType \notin ExpectedTypes(v))
ShipmentFile(w)    == Verdict(~MrFound(w), w.yamls # 1 \/ ~w.path)

NvrCommit(w) ==
  LET inNvr == w.nvr # "nocommit"
  IN  Verdict(~Content(w) \/ w.nvr = "none" \/ (inNvr /\ w.brew # "found"), w.nvr # "same")

\* The page is read only for an address of the errata's form.
ErrataImages(w, url, page) ==
  IF url = "malformed" THEN "FAIL"
  ELSE Verdict(~HasImages(w) \/ page = "unreadable", page = "lacks")

ErrataUrl(w, env) == IF Content(w) THEN w.errata[env] ELSE "none"

StageErrata(w) ==
  IF MrFound(w) /\ ErrataUrl(w, "stage") = "none" THEN "FAIL"
  ELSE IF ~MrFound(w) THEN "WARN" ELSE ErrataImages(w, ErrataUrl(w, "stage"), w.page["stage"])

ProdErrata(v, w) ==
  Unless(PreRelease(v),
         IF ErrataUrl(w, "prod") = "none" THEN "WARN"
         ELSE ErrataImages(w, ErrataUrl(w, "prod"), w.page["prod"]))

ShaDistinct(w, el) ==
  LET sha(arch) == w.image[<<arch, el>>].sha
  IN  Verdict(\E arch \in Arches : ~HasImage(w, <<arch, el>>) \/ sha(arch) = NoSha,
              sha("amd64") = sha("arm64"))

MrApproved(w) ==
  IF w.mr = "missing" THEN "FAIL"
  ELSE Verdict(w.mr = "skipped" \/ w.approved = "unknown", w.approved = "no")

GlobalResults(v, w, envs) ==
  {Result(<<"advisory_type">>, AdvisoryType(v, w)),
   Result(<<"shipment_type">>, ShipmentType(v, w)),
   Result(<<"shipment_filename">>, ShipmentFile(w)),
   Result(<<"shipment_nvr_commit">>, NvrCommit(w)),
   Result(<<"shipment_mr_approved">>, MrApproved(w))}
  \union {Result(<<"sha_distinct", el>>, ShaDistinct(w, el)) : el \in Rhels(v)}
  \union {Result(<<"shipment_errata_url", env>>,
                 IF env = "stage" THEN StageErrata(w) ELSE ProdErrata(v, w)) : env \in envs}

\* Nightly builds have no advisories, and before 4.19 there is no bootc image:
\* main stops with exit 1 then.
AdvisoryResults(v, w, envs) ==
  LET results == GlobalResults(v, w, envs) \union UNION {VariantResults(v, w, envs, x) : x \in Variants(v)}
  IN  IF v.type = "nightly" THEN {Result(r.check, "SKIP") : r \in results} ELSE results

\* With --json the results are all there is: the exit is 0 whatever FAILed.
AdvisoryExit(v, w, envs, json) ==
  IF ~v.bootc THEN 1 ELSE IF json THEN 0 ELSE ExitOf(AdvisoryResults(v, w, envs))

(***************************************************************************)
(* What a release must have for its advisory to be promoted, stated        *)
(* without the checks: each image in it with an own SHA and in the         *)
(* catalogs asked for, from one shipment file in its place, not one that   *)
(* is known to be wrong anywhere.                                          *)
(***************************************************************************)
Promotable(v, w, envs) ==
  /\ w.mr = "found" /\ w.yamls = 1 /\ w.readable /\ w.path /\ w.stageInternal /\ w.advisory
  /\ w.specType \in ExpectedTypes(v) /\ w.approved # "no"
  /\ \A x \in Variants(v) :
       /\ w.image[x].key # "absent" /\ w.image[x].repo
       /\ w.image[x].sha # NoSha
       /\ \A y \in Variants(v) : (x # y /\ x[2] = y[2]) => w.image[x].sha # w.image[y].sha
       /\ \A env \in envs :
            ~(env = "prod" /\ PreRelease(v)) =>
              /\ w.catalog[<<x, env>>].valid
              /\ w.catalog[<<x, env>>].grade # "C"
  /\ "stage" \in envs => w.errata["stage"] = "valid" /\ w.page["stage"] # "lacks"
=============================================================================
