---- MODULE MCDoctorPool ----
\* Instantiation for TLC; the bounds are in the .cfg files.
EXTENDS DoctorPool
====
