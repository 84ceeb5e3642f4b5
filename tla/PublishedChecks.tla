--------------------------- MODULE PublishedChecks ---------------------------
(***************************************************************************)
(* errata_promotion.py, the RPM advisory in the Errata Tool before it is   *)
(* shipped, and post_release.py, the release after: its errata, the        *)
(* catalog, the portal and the documentation.                              *)
(***************************************************************************)
EXTENDS ArtifactChecks

(***************************************************************************)
(* errata_promotion.py                                                     *)
(***************************************************************************)
RelPrepOrLater == {"REL_PREP", "PUSH_READY", "IN_PUSH", "SHIPPED_LIVE"}

EtType(v, w)    == Passes(w.etType \in ExpectedTypes(v))
EtQaOwner(w)    == Passes(w.qa = "named")
EtBugs(w)       == Verdict(w.bugs = "unknown", w.bugs = "open")
EtRpms(w)       == IF w.nvrs = "none" THEN "FAIL" ELSE Verdict(w.spec = "unknown", w.nvrs = "some")
EtListed(w)     == Verdict(w.nvrs = "none", FALSE)
EtCdnStaging(w) == Unless(w.textOnly, Verdict(w.status \notin RelPrepOrLater /\ ~w.pushed, FALSE))

EtCatTests(w) ==
  IF w.rhnqa = "passed" \/ w.status \in RelPrepOrLater THEN "PASS"
  ELSE IF w.rhnqa = "open" /\ w.status = "QE" THEN "FAIL" ELSE "WARN"

EtRelPrep(w) == Passes(w.status \in RelPrepOrLater)

ErrataResults(v, w) ==
  LET results == {Result(<<"et_advisory_exists">>, "PASS"), Result(<<"et_advisory_type">>, EtType(v, w)),
                  Result(<<"et_qa_owner">>, EtQaOwner(w)), Result(<<"et_bugs_verified">>, EtBugs(w)),
                  Result(<<"et_rpms_present">>, EtRpms(w)), Result(<<"et_rpms_product_listed">>, EtListed(w)),
                  Result(<<"et_cdn_staging">>, EtCdnStaging(w)), Result(<<"et_cat_tests">>, EtCatTests(w)),
                  Result(<<"et_status_rel_prep">>, EtRelPrep(w))}
  IN  CASE w.et = "no ticket" -> {Result(r.check, "FAIL") : r \in results}
        [] w.et = "missing"   -> {Result(r.check, IF r.check = <<"et_advisory_exists">> THEN "FAIL" ELSE "SKIP")
                                    : r \in results}
        [] OTHER              -> results

\* The advisory can ship: it is of the right kind, owned, not short of a
\* package as far as the packages are known, and all that is left is the push.
Shippable(v, w) ==
  /\ w.et = "found" /\ w.etType \in ExpectedTypes(v) /\ w.qa = "named" /\ w.bugs # "open"
  /\ w.nvrs # "none" /\ (w.spec = "known" => w.nvrs = "all")
  /\ w.status \in RelPrepOrLater

(***************************************************************************)
(* post_release.py.  The Errata Tool is asked for the advisory that Hydra, *)
(* the public search, has named.                                           *)
(***************************************************************************)
Public(w)     == w.hydra = "found"
EtAdvisory(w) == w.brew # "no vpn" /\ Public(w) /\ w.et = "found"

RpmsFound(w) == IF w.hydra = "missing" THEN "FAIL" ELSE Verdict(~Public(w), FALSE)

RpmsShipped(w) ==
  Verdict(~EtAdvisory(w) \/ w.status \in {"IN_PUSH", "PUSH_READY"}, w.status # "SHIPPED_LIVE")

CustomerPortal(w) ==
  IF Public(w) /\ w.portal = "error" THEN "FAIL"
  ELSE Verdict((Public(w) /\ w.portal = "unreachable") \/ ~EtAdvisory(w)
                 \/ (w.nvrs # "none" /\ w.spec = "unknown"),
               w.nvrs # "all")

RpmsCdn(w) == Verdict(~EtAdvisory(w) \/ w.cdn = "unknown", w.cdn # "complete")

RpmsDownloads(w) ==
  IF ~Public(w) \/ w.portal \in {"unreachable", "error"} THEN "WARN"
  ELSE IF w.portal = "empty" THEN "FAIL" ELSE Verdict(w.spec = "unknown", w.portal = "lacks")

\* The bootc errata are those of the shipment; that it names one counts as
\* published.
BootcErrata(w, env) == ErrataUrl(w, env) = "valid"
BootcImages(w, env) ==
  Verdict(~BootcErrata(w, env) \/ ~HasImages(w) \/ w.page[env] = "unreadable", w.page[env] = "lacks")

\* Mutant: one of the arches is enough.
BootcPublishedAny(v, w, el) == Passes(\E arch \in Arches : w.catalog[<<<<arch, el>>, "prod">>].valid)

BootcPublished(v, w, el) ==
  Unless(~v.bootc, Passes(\A arch \in Arches : w.catalog[<<<<arch, el>>, "prod">>].valid))

DocsPublished(w)   == Verdict(w.docs = "unreachable", w.docs # "mentioned")
LifecycleListed(w) == Verdict(w.lifecycle = "unknown", w.lifecycle = "missing")
LifecycleActive(w) == Verdict(w.lifecycle \in {"unknown", "missing"}, w.lifecycle # "full")

PostResults(v, w) ==
  {Result(<<"pr_errata_rpms_found">>, RpmsFound(w)), Result(<<"pr_errata_rpms_shipped">>, RpmsShipped(w)),
   Result(<<"pr_rpms_customer_portal">>, CustomerPortal(w)), Result(<<"pr_rpms_cdn">>, RpmsCdn(w)),
   Result(<<"pr_rpms_downloads">>, RpmsDownloads(w)), Result(<<"pr_docs_published">>, DocsPublished(w))}
  \union {Result(<<"pr_bootc_catalog", el>>, BootcPublished(v, w, el)) : el \in Rhels(v)}
  \union (IF ~v.bootc THEN {}
          ELSE UNION {{Result(<<"pr_advisory_bootc_found", env>>, Passes(BootcErrata(w, env))),
                       Result(<<"pr_advisory_bootc_shipped", env>>, Passes(BootcErrata(w, env))),
                       Result(<<"pr_advisory_bootc_images", env>>, BootcImages(w, env))}
                      : env \in {"stage", "prod"}})
  \union (IF v.type # "XY" THEN {}
          ELSE {Result(<<"pr_lifecycle_listed">>, LifecycleListed(w)),
                Result(<<"pr_lifecycle_active">>, LifecycleActive(w))})

PostExit(v, w) == IF v.type \in {"EC", "RC", "nightly"} THEN 1 ELSE ExitOf(PostResults(v, w))

\* A customer gets the release: nothing that can be seen from outside is missing.
Available(v, w) ==
  /\ w.hydra # "missing" /\ w.docs \notin {"error", "not mentioned"}
  /\ w.hydra = "found" => w.portal \notin {"error", "empty"} /\ (w.spec = "known" => w.portal # "lacks")
  /\ v.bootc => /\ w.mr = "found" /\ w.errata["prod"] = "valid" /\ (HasImages(w) => w.page["prod"] # "lacks")
                /\ \A x \in Variants(v) : w.catalog[<<x, "prod">>].valid
  /\ (w.brew # "no vpn" /\ w.hydra = "found" /\ w.et = "found") => w.status \notin {"NEW_FILES", "QE", "REL_PREP"}
=============================================================================
