--------------------------- MODULE MCDoctorStages ---------------------------
\* The stage list of microshift-ci; the others are parts of it.
EXTENDS DoctorStages

Microshift == <<"prepare", "graphs", "analyze", "bugs", "finalize">>
=============================================================================
