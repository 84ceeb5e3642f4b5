---------------------------- MODULE ArtifactChecks ----------------------------
(***************************************************************************)
(* validate_artifacts.py: the RPM build of a version in Brew and on the    *)
(* mirror, its bootc images in the shipment, the catalog and on the        *)
(* mirror; lib/artifacts.py, as far as it decides a status.                *)
(***************************************************************************)
EXTENDS AdvisoryChecks

(***************************************************************************)
(* RPMs.  Brew is only reached in the VPN.                                 *)
(***************************************************************************)
Built(w) == w.brew = "found"

RpmPackages(v, w) ==
  IF ~Built(w) THEN "FAIL"
  ELSE Verdict(v.type = "nightly" \/ w.packages = "unknown" \/ w.spec = "unknown", w.packages = "lacks")

RpmFilename(w) == Unless(~Built(w), Passes(w.nvrForm))
RpmCommit(w)   == Unless(~Built(w), Passes(w.commit = "onbranch"))
\* The el10 RPMs come with 5.2, long after the el10 images.
RpmRhel(w)     == Unless(~Built(w), Passes(w.rpmEl))
RpmMirror(v, w, type) == Unless(v.type # type, Passes(w.rpmMirror))

RpmXy0Commit(v, w) ==
  Unless(v.type # "XY" \/ ~Built(w),
         IF w.commit = "none" THEN "FAIL" ELSE Verdict(w.rc = "none", w.rc = "other"))

RpmResults(v, w) ==
  LET inVpn(status) == IF w.brew = "no vpn" THEN "WARN" ELSE status
  IN  {Result(<<"rpm_packages_list">>, inVpn(RpmPackages(v, w))),
       Result(<<"rpm_filename_format">>, inVpn(RpmFilename(w))),
       Result(<<"rpm_commit_id">>, inVpn(RpmCommit(w))),
       Result(<<"rpm_rhel_version">>, inVpn(RpmRhel(w))),
       Result(<<"rpm_xy0_commit_match">>, inVpn(RpmXy0Commit(v, w))),
       Result(<<"rpm_mirror_ec">>, RpmMirror(v, w, "EC")),
       Result(<<"rpm_mirror_rc">>, RpmMirror(v, w, "RC"))}

(***************************************************************************)
(* Bootc images                                                            *)
(***************************************************************************)
XyOnly == {<<"bootc_shipment_xy0_type">>, <<"bootc_shipment_xy0_release_notes">>,
           <<"bootc_prod_xy0_type">>, <<"bootc_prod_advisory_url">>}
ShipmentChecks == XyOnly \union {<<"bootc_shipment_yaml_count">>, <<"bootc_stage_advisory_url">>}

\* What cannot be fetched fails here: a sub-check that is neither valid nor
\* invalid is not valid.
Xy0Results(w) ==
  {Result(<<"bootc_shipment_xy0_type">>, Passes(w.rnType = "RHEA")),
   Result(<<"bootc_shipment_xy0_release_notes">>, Passes(w.solution)),
   Result(<<"bootc_prod_xy0_type">>,
          Passes((w.prodInternal \/ w.stageInternal) /\ w.advisory /\ w.specType = "RHEA")),
   Result(<<"bootc_prod_advisory_url">>, Passes(w.prodInternal))}

\* Without content nothing but the number of files is checked.
YamlResults(v, w) ==
  {Result(<<"bootc_shipment_yaml_count">>, Passes(w.yamls = 1))}
  \union IF ~Content(w) THEN {}
         ELSE {Result(<<"bootc_stage_advisory_url">>, Passes(w.stageInternal))}
              \union IF v.type = "XY" THEN Xy0Results(w) ELSE {}

ShipmentResults(v, w) ==
  LET mr == <<"bootc_shipment_mr">>
      found == {Result(mr, "PASS")} \union YamlResults(v, w)
  IN  CASE w.mr = "skipped" -> {Result(c, "WARN") : c \in ShipmentChecks \union {mr}}
        [] w.mr = "missing" -> {Result(mr, "FAIL")} \union {Result(c, "SKIP") : c \in ShipmentChecks}
        [] OTHER -> found \union {Result(c, "SKIP") : c \in IF v.type = "XY" THEN {} ELSE XyOnly}

\* The stage catalog until the shipment is merged; of one image only.
BootcCatalog(v, w) ==
  LET env == IF MrFound(w) /\ ~w.merged THEN "stage" ELSE "prod"
  IN  Unless(PreRelease(v), Passes(w.catalog[<<<<"amd64", 9>>, env>>].valid))

\* el10 is asked for from 5.0 on, in the promotion from 4.22.2 on.
MirrorRhels(v)   == IF v.major5 THEN {9, 10} ELSE {9}
MirrorImages(v)  == Arches \X MirrorRhels(v)
OnMirror(w, x)   == w.mirror[x] # NoSha

BootcMirror(v, w, type) == Unless(v.type # type, Passes(\A x \in MirrorImages(v) : OnMirror(w, x)))

\* The SHA the advisory gives for an image: under its own key, else under its
\* architecture's, where the last entry without a RHEL version is kept (el10
\* comes after el9).
HasSha(w, x, key) == w.image[x].key = key /\ w.image[x].sha # NoSha
AdvisorySha(w, x) ==
  IF HasSha(w, x, "own") THEN w.image[x].sha
  ELSE IF HasSha(w, <<x[1], 10>>, "plain") THEN w.image[<<x[1], 10>>].sha
  ELSE IF HasSha(w, <<x[1], 9>>, "plain") THEN w.image[<<x[1], 9>>].sha
  ELSE NoSha
HasShas(w) == Advisory(w) /\ \E x \in DOMAIN w.image : HasSha(w, x, "own") \/ HasSha(w, x, "plain")

\* The mirror is asked a second time, and only the images whose pull spec it
\* gave then are compared.
ShaMatch(v, w) ==
  LET fetched == {x \in MirrorImages(v) : OnMirror(w, x) /\ w.again[x]}
  IN  Unless(~PreRelease(v),
             IF fetched = {} THEN "FAIL"
             ELSE Verdict(~HasShas(w), \E x \in fetched : w.mirror[x] # AdvisorySha(w, x)))

BootcResults(v, w) ==
  LET results == ShipmentResults(v, w)
                 \union {Result(<<"bootc_catalog">>, BootcCatalog(v, w)),
                         Result(<<"bootc_image_sha_match">>, ShaMatch(v, w)),
                         Result(<<"bootc_mirror_ec">>, BootcMirror(v, w, "EC")),
                         Result(<<"bootc_mirror_rc">>, BootcMirror(v, w, "RC"))}
      every == ShipmentChecks \union {<<"bootc_shipment_mr">>, <<"bootc_catalog">>,
                 <<"bootc_image_sha_match">>, <<"bootc_mirror_ec">>, <<"bootc_mirror_rc">>}
  IN  IF ~v.bootc \/ v.type = "nightly" THEN {Result(c, "SKIP") : c \in every} ELSE results

ArtifactResults(v, w) == RpmResults(v, w) \union BootcResults(v, w)

\* With --json the exit is 0 whatever FAILed.
ArtifactExit(v, w, json) == IF json THEN 0 ELSE ExitOf(ArtifactResults(v, w))

\* What the stream of a version has, as the checks list it.
ArtifactCheckIds ==
  ShipmentChecks \union
  {<<c>> : c \in {"rpm_packages_list", "rpm_filename_format", "rpm_commit_id", "rpm_rhel_version",
                  "rpm_mirror_ec", "rpm_mirror_rc", "rpm_xy0_commit_match", "bootc_shipment_mr",
                  "bootc_catalog", "bootc_image_sha_match", "bootc_mirror_ec", "bootc_mirror_rc"}}

\* What must hold of the artifacts of a pre-release whose checks pass: they are
\* on the mirror, and an image the mirror answered for both times is one of
\* the advisory's, if that could be read and gives any SHA: the very one, or
\* one of its architecture if the advisory has no SHA under the image's name.
Mirrored(v, w) ==
  /\ w.rpmMirror
  /\ v.bootc => \A x \in MirrorImages(v) :
       /\ w.mirror[x] # NoSha
       /\ (w.again[x] /\ w.mr = "found" /\ w.yamls = 1 /\ w.readable /\ w.stageInternal /\ w.advisory
             /\ \E y \in DOMAIN w.image : w.image[y].key \in {"own", "plain"} /\ w.image[y].sha # NoSha)
           => \E y \in DOMAIN w.image :
                /\ w.image[y].sha = w.mirror[x]
                /\ \/ y = x
                   \/ y[1] = x[1] /\ ~(w.image[x].key = "own" /\ w.image[x].sha # NoSha)
=============================================================================
