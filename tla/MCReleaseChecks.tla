---- MODULE MCReleaseChecks ----
\* A pre-release and a first release, for one difference from a complete one.
EXTENDS ReleaseChecks

MCVersions ==
  {[type |-> t, bootc |-> TRUE, el10 |-> TRUE, major5 |-> TRUE] : t \in {"XY", "RC"}}
====
