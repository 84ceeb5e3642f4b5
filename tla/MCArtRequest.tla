---- MODULE MCArtRequest ----
\* Instantiation for TLC: hosts and runs are interchangeable.
EXTENDS ArtRequest, TLC

Symmetry == Permutations(Runs) \cup Permutations(Hosts)
====
