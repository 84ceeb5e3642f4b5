-------------------------- MODULE MCDoctorWorkdir --------------------------
\* One release with two builds that may fail, and its rebase pull request
\* with one.  Complete is a run without --stages (graphs writes none of the
\* modelled files).
EXTENDS DoctorWorkdir

CONSTANTS r1, rebase, b1, b2, b3

OneRelease == <<r1>>
SomeBuilds == [s \in {r1, rebase} |-> IF s = r1 THEN {b1, b2} ELSE {b3}]
Complete   == {<<"prepare", "analyze", "bugs", "finalize">>}
=============================================================================
