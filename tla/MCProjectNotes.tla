---- MODULE MCProjectNotes ----
\* Instantiation for TLC; the bounds are in the .cfg file.
EXTENDS ProjectNotes
====
