-------------------------- MODULE MCBugCorrelation --------------------------
\* Two sources with at most two and one failed jobs.  Text 2 is similar to
\* 1 and to 3, which are not similar to each other; step 1 is also seen
\* under the name of a variant.  Signatures follow the texts, as two
\* analyses of one failure do; name 9 marks the second source.
EXTENDS BugCorrelation

TwoSources == <<"release", "rebase">>

Alike == {<<1, 1>>, <<2, 2>>, <<3, 3>>, <<1, 2>>, <<2, 1>>, <<2, 3>>, <<3, 2>>}

Failure(sig, text, ref, variant, severity, layer, finished, name) ==
  [sig |-> sig, text |-> text, ref |-> ref, variants |-> {variant}, severity |-> severity,
   name |-> name, flag |-> FALSE, layer |-> layer, finished |-> finished]

\* What one job may have failed with.
OneOf(name) ==
  {Failure(1, 1, 1, 0, 2, "test", 1, name),
   Failure(1, 1, 1, 5, 2, "test", 3, name),
   Failure(1, 1, 2, 0, 1, "test", 0, name),
   Failure(2, 2, 1, 0, 3, "infrastructure", 2, name),
   Failure(2, 2, 2, 0, 1, "test", 2, name),
   Failure(3, 3, 1, 0, 1, "test", 2, name),
   [Failure(3, 3, 2, 0, 2, "build", 1, name) EXCEPT !.flag = TRUE]}

JobLists ==
  {<<>>} \cup {<<a>> : a \in OneOf(1)} \cup {<<a, b>> : a \in OneOf(1), b \in OneOf(2)}

Failures == {[s \in {"release", "rebase"} |-> IF s = "release" THEN r ELSE p] :
               r \in JobLists, p \in {<<>>} \cup {<<a>> : a \in OneOf(9)}}

\* Nothing is found for the empty signature.
SomeSignatures == 0..3

\* Keys 1 and 2 among the open bugs; closed bugs of day 2 or of no day.
Answered(of) == [s \in SomeSignatures |-> IF s = 0 THEN {} ELSE of[s]]

OpenAnswers   == {Answered(of) : of \in {<<{}, {}, {}>>, <<{1}, {1, 2}, {3}>>, <<{}, {2}, {2}>>, <<{1}, {1}, {1}>>}}
ClosedAnswers == {Answered(of) : of \in {<<{}, {}, {}>>, <<{2}, {}, {1}>>, <<{1}, {0}, {1}>>, <<{}, {}, {1, 2}>>}}
=============================================================================
