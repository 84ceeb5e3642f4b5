---- MODULE MCRcLaunch ----
\* Instantiation for TLC; the bounds are in the .cfg files.
EXTENDS RcLaunch

\* A list of one job of each kind, and one in which a job was added before.
ThreeKinds == [regular |-> <<"arbiter">>, lvms |-> <<"lvms">>, upgrade |-> <<"upgrade">>]
Added      == [regular |-> <<"added", "arbiter">>, lvms |-> <<"lvms">>, upgrade |-> <<>>]
BothLists  == {ThreeKinds, Added}
OneList    == {ThreeKinds}
====
