------------------------------ MODULE FixTestBugs ------------------------------
(***************************************************************************)
(* fix-test-bugs: the skill works through groups of bugs one after the     *)
(* other in one clone, and fix-test-bugs.sh checks for pull requests,      *)
(* makes a branch, and stages, commits, pushes and opens a pull request.   *)
(* A call may fail at any command and the session may end anywhere; people *)
(* merge and close.  A group is the set of its bugs and stands for its     *)
(* edits, too; a commit, the index and the working tree are sets of them.  *)
(***************************************************************************)
EXTENDS Integers, Sequences, FiniteSets, FiniteSetsExt, Functions

CONSTANTS
  Bugs,         \* numbers of the keys
  Groupings,    \* what the candidates of a day may be: sets of groups
  Page,         \* open pull requests gh lists, 30 without --limit
  MaxPulls, MaxSessions   \* bounds of TLC

FixAssumption ==
  /\ Bugs \subseteq Nat /\ Page > 0
  /\ \A groups \in Groupings : groups \subseteq (SUBSET Bugs) \ {{}}

VARIABLES
  at,         \* the next command of the session, or "idle"
  todo,       \* groups, the current one included
  group,      \* the current group
  count,      \* sessions so far
  remotes,    \* "none": no clone, "origin": cloned only, "both": upstream and fork
  index, tree,
  local,      \* branch -> what its commits hold beyond upstream/main
  fork,       \* branch -> the same, on the server
  pulls,      \* pull requests, oldest first
  left        \* groups a submit ever staged and did not commit

fixVars == <<at, todo, group, count, remotes, index, tree, local, fork, pulls, left>>
repoVars == <<remotes, index, tree, local>>
hubVars == <<fork, pulls>>

\* The lowest key names the branch, the title and the commit.
Primary(g) == Min(g)

InitFix ==
  /\ at = "idle" /\ todo = {} /\ group = {} /\ count = 0
  /\ remotes = "none" /\ index = {} /\ tree = {} /\ local = << >>
  /\ fork = << >> /\ pulls = << >> /\ left = {}

Open == {i \in DOMAIN pulls : pulls[i].state = "open"}

\* People: a merged pull request keeps its branch, so does a closed one, and
\* what was merged is in upstream/main.
Conclude(i, state) ==
  /\ i \in Open /\ pulls' = [pulls EXCEPT ![i].state = state]
  /\ fork' = (IF state = "merged" THEN [fork EXCEPT ![Primary(pulls[i].group)] = {}] ELSE fork)
  /\ UNCHANGED <<at, todo, group, count, repoVars, left>>

\* The directory of the next day has no clone.
NewDay ==
  /\ at = "idle" /\ remotes # "none"
  /\ remotes' = "none" /\ index' = {} /\ tree' = {} /\ local' = << >>
  /\ UNCHANGED <<at, todo, group, count, hubVars, left>>

Load(groups) ==
  /\ at = "idle" /\ count < MaxSessions /\ count' = count + 1
  /\ todo' = groups /\ at' = "check"
  /\ UNCHANGED <<group, repoVars, hubVars, left>>

\* "KEY in:title", open or merged; a query that fails finds none.  The other
\* gates, and a dry run, may leave out any group.
Known(key) == \E i \in DOMAIN pulls : pulls[i].state # "closed" /\ Primary(pulls[i].group) = key

Check(answering) ==
  /\ at = "check"
  /\ todo' \in SUBSET {g \in todo : \A key \in g \cap answering : ~Known(key)}
  /\ at' = (IF todo' = {} THEN "idle" ELSE "clone")
  /\ UNCHANGED <<group, count, repoVars, hubVars, left>>

\* A directory that is there is taken for a whole clone.
Clone(result) ==
  /\ at = "clone"
  /\ remotes' = (IF remotes = "none" THEN result ELSE remotes)
  /\ IF remotes # "none" \/ result = "both"
     THEN at' = "cleanup" /\ UNCHANGED todo
     ELSE at' = "idle" /\ todo' = {}
  /\ UNCHANGED <<group, count, index, tree, local, hubVars, left>>

Newest(set, n) == {i \in set : Cardinality({j \in set : j > i}) < n}

\* Fork branches without an open pull request among the listed ones go, and
\* a pull request whose branch goes is closed.
CleanupStaleBranches(listed, refused) ==
  /\ at = "cleanup" /\ at' = "pick"
  /\ LET shown == {Primary(pulls[i].group) : i \in Newest(Open, Page)}
         gone  == IF listed /\ remotes = "both" THEN DOMAIN fork \ (shown \cup refused) ELSE {} IN
     /\ fork' = Restrict(fork, DOMAIN fork \ gone)
     /\ pulls' = [i \in DOMAIN pulls |->
                   IF i \in Open /\ Primary(pulls[i].group) \in gone
                   THEN [pulls[i] EXCEPT !.state = "closed"] ELSE pulls[i]]
  /\ UNCHANGED <<todo, group, count, repoVars, left>>

Pick ==
  /\ at = "pick"
  /\ IF todo = {} THEN at' = "idle" /\ UNCHANGED group
     ELSE at' = "branch" /\ group' \in todo
  /\ UNCHANGED <<todo, count, repoVars, hubVars, left>>

\* The group is recorded as FAILED or FIXED.
NextGroup == todo' = todo \ {group} /\ at' = "pick" /\ group' = {}
Proceed(to) == at' = to /\ UNCHANGED <<todo, group>>

With(f, key, value) == [k \in DOMAIN f \cup {key} |-> IF k = key THEN value ELSE f[k]]

\* Mutant: what the last session left in the tree goes along.
Kept == tree

\* git checkout -- . and git clean -fd restore the tree from the index.
Cleaned == {}

\* What is staged stays staged on the new branch.
Branch(ok) ==
  /\ at = "branch"
  /\ tree' = Cleaned
  /\ IF ok /\ remotes = "both"
     THEN /\ local' = With(local, Primary(group), {})
          /\ Proceed("edit")
     ELSE /\ local' \in {local, Restrict(local, DOMAIN local \ {Primary(group)})}
          /\ NextGroup
  /\ UNCHANGED <<count, remotes, index, hubVars, left>>

\* The session edits, or finds nothing to edit.
Edit ==
  /\ at = "edit" /\ at' = "submit"
  /\ tree' \in {tree, tree \cup {group}}
  /\ UNCHANGED <<todo, group, count, remotes, index, local, hubVars, left>>

\* git add -A, then the checks: an empty diff, or files outside the allowed
\* directories or too many of them, which reverts everything.
Submit(allowed) ==
  /\ at = "submit"
  /\ LET staged == index \cup tree IN
     IF staged = {} THEN NextGroup /\ UNCHANGED <<index, tree>>
     ELSE IF ~allowed THEN NextGroup /\ index' = {} /\ tree' = {}
     ELSE Proceed("commit") /\ index' = staged /\ tree' = {}
  /\ UNCHANGED <<count, remotes, local, hubVars, left>>

Commit(ok) ==
  /\ at = "commit"
  /\ IF ok
     THEN /\ local' = [local EXCEPT ![Primary(group)] = @ \cup index]
          /\ index' = {} /\ Proceed("push") /\ UNCHANGED left
     ELSE NextGroup /\ left' = left \cup index /\ UNCHANGED <<local, index>>
  /\ UNCHANGED <<count, remotes, tree, hubVars>>

\* The fork refuses a branch that is there, unless all of it was merged.
Accepts(branch) == branch \notin DOMAIN fork \/ fork[branch] = {}

Push(ok) ==
  /\ at = "push"
  /\ IF ok /\ Accepts(Primary(group))
     THEN fork' = With(fork, Primary(group), local[Primary(group)]) /\ Proceed("create")
     ELSE NextGroup /\ UNCHANGED fork
  /\ UNCHANGED <<count, repoVars, pulls, left>>

CreatePull(ok) ==
  /\ at = "create" /\ Len(pulls) < MaxPulls
  /\ NextGroup
  /\ pulls' = (IF ok THEN Append(pulls, [group |-> group, state |-> "open"]) ELSE pulls)
  /\ UNCHANGED <<count, repoVars, fork, left>>

\* The session, or the machine, ends between two commands.
Dies ==
  /\ at # "idle" /\ at' = "idle" /\ todo' = {} /\ group' = {}
  /\ left' = left \cup index
  /\ UNCHANGED <<count, repoVars, hubVars>>

FixStep ==
  \/ NewDay \/ Pick \/ Edit \/ Dies
  \/ (\E groups \in Groupings : Load(groups))
  \/ (\E answering \in SUBSET Bugs : Check(answering))
  \/ (\E result \in {"none", "origin", "both"} : Clone(result))
  \/ (\E listed \in BOOLEAN, refused \in SUBSET DOMAIN fork : CleanupStaleBranches(listed, refused))
  \/ (\E ok \in BOOLEAN : Branch(ok) \/ Submit(ok) \/ Commit(ok) \/ Push(ok) \/ CreatePull(ok))
  \/ (\E i \in Open : \E state \in {"merged", "closed"} : Conclude(i, state))

FixSpec == InitFix /\ [][FixStep]_fixVars

FixTypeOK ==
  /\ todo \subseteq (SUBSET Bugs) \ {{}} /\ index \cup tree \subseteq SUBSET Bugs
  /\ at \in {"idle", "check", "clone", "cleanup", "pick", "branch", "edit", "submit", "commit", "push", "create"}
  /\ DOMAIN fork \subseteq Bugs /\ DOMAIN local \subseteq Bugs
  /\ at = "commit" => index # {}

\* "Each group gets its own branch, so fixes are independently reviewable":
\* whatever failed or ended before, an open pull request holds edits of its
\* group and of no other, but those a submit staged and did not commit before
\* it failed or was ended: they stay in the index.
PullIsItsGroup ==
  \A i \in Open :
    LET held == fork[Primary(pulls[i].group)] IN held # {} /\ held \subseteq {pulls[i].group} \cup left
=============================================================================
