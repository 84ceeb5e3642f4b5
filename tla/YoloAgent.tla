------------------------------ MODULE YoloAgent ------------------------------
(***************************************************************************)
(* The yolo-agent of pr-review on one pull request.  A session does one    *)
(* cycle of the skill: it loads its state, gathers checks and threads,     *)
(* pushes, replies, and stops.  A headless loop goes on by the Stop hook   *)
(* pr-stop-check.sh, which reads the PR_MONITOR_STATE its process was      *)
(* started with; an interactive one by a cron entry and the state file.    *)
(* Reviewers, bots and CI act at any time.                                 *)
(***************************************************************************)
EXTENDS Integers, Sequences, FiniteSets

CONSTANTS
  Threads,      \* review threads; the id of the root comment is the thread
  BotThreads,   \* those a bot opened
  PageSize,     \* comments of a thread the query returns (100 in the code)
  MaxMessages,  \* bound on the messages of a thread
  Limits,       \* max_iterations a loop may be started with, 0: no limit
  NoState,      \* no PR_MONITOR_STATE, no state file, or no session to come
  Cron          \* the session to come is a cron entry, without PR_MONITOR_STATE

\* What is saved, and handed on in PR_MONITOR_STATE.
States == [status : {"running", "waiting", "complete"}, iteration : Nat,
           addressed : SUBSET Threads, failures : [Threads -> 0..3]]

YoloAssumption ==
  /\ BotThreads \subseteq Threads
  /\ PageSize \in Nat \ {0} /\ MaxMessages \in Nat
  /\ Limits \subseteq Nat
  /\ NoState \notin States \cup {Cron} /\ Cron \notin States

VARIABLES
  setup,      \* how the loop was started
  pc,         \* what the session does; "off" between sessions
  env,        \* PR_MONITOR_STATE of the claude process
  state,      \* the state the session works on
  file,       \* /tmp/pr-review-yolo-agent-<n>.json
  next,       \* what starts the next session: Cron or the state the hook hands on
  sessions,   \* sessions started, at most one more than the limit
  checks,     \* statuses of the jobs gh pr checks lists, and "closed"
  thread,     \* the review threads
  shown,      \* messages of each thread that pr-comments.sh saw, 0: not returned
  gathered,   \* messages of each open thread at the last gather
  ahead,      \* the clone has a commit that was not pushed
  labelled    \* /label ready-for-human-review was posted

session  == <<pc, env, state, file, next, sessions>>
pull     == <<checks, thread>>
yoloVars == <<setup, session, pull, shown, gathered, ahead, labelled>>

(***************************************************************************)
(* pr-state.sh: the state, and the order it is loaded in.                  *)
(***************************************************************************)
Fresh == [status |-> "running", iteration |-> 0, addressed |-> {}, failures |-> [t \in Threads |-> 0]]

Loaded(e) == IF e # NoState THEN e ELSE IF file # NoState THEN file ELSE Fresh

Save(s) == state' = s /\ file' = s
Clean   == state' = [state EXCEPT !.status = "complete"] /\ file' = NoState

(***************************************************************************)
(* pr-checks.sh and pr-comments.sh                                         *)
(***************************************************************************)
\* The exit code; a pull request without checks is not told from a green one.
ChecksExit == IF "fail" \in checks THEN 1 ELSE IF "pending" \in checks THEN 2 ELSE 0

Visible == IF setup.include THEN Threads ELSE BotThreads
Unresolved(t) == thread[t].comments # << >> /\ ~thread[t].resolved

\* The author of the last comment on the one page that is read.
LastSeen(t) ==
  LET c == thread[t].comments IN c[IF Len(c) < PageSize THEN Len(c) ELSE PageSize]

\* Mutant: an addressed thread does not come back.
ReturnedOnce == {t \in Visible : Unresolved(t) /\ t \notin state.addressed}

\* Unresolved threads, the addressed ones only if somebody else spoke last.
Returned ==
  {t \in Visible : Unresolved(t) /\ (t \in state.addressed => LastSeen(t) # "agent")}

(***************************************************************************)
(* pr-push.sh                                                              *)
(***************************************************************************)
\* No remote, a blocked pattern, or staging or committing fails; the commit is
\* made and the push fails; or both succeed.
Push ==
  /\ pc = "act"
  /\ \/ pc' = "failed" /\ ahead' \in {ahead, TRUE}
     \/ pc' = "reply" /\ ahead' = FALSE
  /\ UNCHANGED <<setup, env, state, file, next, sessions, pull, shown, gathered, labelled>>

\* No change was proposed, or git status shows none: exit code 1, also when a
\* commit of an earlier session waits.
NothingToPush ==
  /\ pc = "act"
  /\ pc' = "reply"
  /\ UNCHANGED <<setup, env, state, file, next, sessions, pull, shown, gathered, ahead, labelled>>

(***************************************************************************)
(* A session                                                               *)
(***************************************************************************)
InitYolo ==
  /\ setup \in [headless : BOOLEAN, include : BOOLEAN, max : Limits]
  /\ pc = "off" /\ state = Fresh /\ file = NoState /\ sessions = 0 /\ env = NoState
  /\ \/ next = Cron
     \/ setup.headless /\ next \in {[Fresh EXCEPT !.status = s] : s \in {"running", "waiting", "complete"}}
  /\ checks \in {{"pass"}, {"fail", "pass"}, {"pending"}}
  /\ thread = [t \in Threads |-> [comments |-> << >>, resolved |-> FALSE]]
  /\ shown = [t \in Threads |-> 0] /\ gathered = shown
  /\ ahead = FALSE /\ labelled = FALSE

\* The user, the cron entry in the user's terminal, or the sleeping restart.
StartSession ==
  /\ pc = "off" /\ next # NoState
  /\ env' = IF next = Cron THEN NoState ELSE next
  /\ state' = [Loaded(env') EXCEPT !.status = "running"]
  /\ next' = NoState /\ pc' = "gather"
  /\ sessions' = IF sessions <= setup.max THEN sessions + 1 ELSE sessions
  /\ UNCHANGED <<setup, file, pull, shown, gathered, ahead, labelled>>

\* Steps 2a and 2b.
Gather ==
  /\ pc = "gather"
  /\ shown' = [t \in Threads |-> IF t \in Returned THEN Len(thread[t].comments) ELSE 0]
  /\ gathered' = [t \in Threads |-> IF Unresolved(t) THEN Len(thread[t].comments) ELSE 0]
  /\ pc' = IF "closed" \in checks THEN "closed"
           ELSE IF Returned # {} \/ ChecksExit = 1 THEN "act"
           ELSE IF ChecksExit = 2 THEN "schedule" ELSE "ready"
  /\ UNCHANGED <<setup, env, state, file, next, sessions, pull, ahead, labelled>>

Complete ==
  /\ pc \in {"closed", "ready"}
  /\ labelled' = (labelled \/ pc = "ready")
  /\ Clean /\ pc' = "stopped"
  /\ UNCHANGED <<setup, env, next, sessions, pull, shown, gathered, ahead>>

\* A reply is posted: the thread is addressed, and resolved unless it asks
\* back or the mutation fails.  What came after the gather is overtaken.
Reply(t) ==
  /\ pc = "reply" /\ shown[t] > 0 /\ state.failures[t] < 3 /\ Len(thread[t].comments) < MaxMessages
  /\ state' = [state EXCEPT !.addressed = @ \union {t}]
  /\ \E r \in BOOLEAN :
       thread' = [thread EXCEPT ![t] = [comments |-> Append(thread[t].comments, "agent"), resolved |-> r]]
  /\ shown' = [shown EXCEPT ![t] = 0]
  /\ UNCHANGED <<setup, pc, env, file, next, sessions, checks, gathered, ahead, labelled>>

\* Mutant: a failure is counted without end.
ReplyFailsAgain(t) ==
  /\ pc = "reply" /\ shown[t] > 0
  /\ state' = [state EXCEPT !.failures[t] = @ + 1]
  /\ shown' = [shown EXCEPT ![t] = 0]
  /\ UNCHANGED <<setup, pc, env, file, next, sessions, pull, gathered, ahead, labelled>>

\* The reply fails, or has failed three times: then the thread is marked.
ReplyFails(t) ==
  /\ pc = "reply" /\ shown[t] > 0
  /\ state' = IF state.failures[t] < 3 THEN [state EXCEPT !.failures[t] = @ + 1]
              ELSE [state EXCEPT !.addressed = @ \union {t}]
  /\ shown' = [shown EXCEPT ![t] = 0]
  /\ UNCHANGED <<setup, pc, env, file, next, sessions, pull, gathered, ahead, labelled>>

\* Mutant: the loop goes on without saving.
ScheduleUnsaved ==
  /\ pc = "schedule" \/ (pc = "reply" /\ \A t \in Threads : shown[t] = 0)
  /\ state' = [state EXCEPT !.status = "waiting"]
  /\ next' = IF setup.headless THEN NoState ELSE Cron
  /\ pc' = "stopped"
  /\ UNCHANGED <<setup, env, file, sessions, pull, shown, gathered, ahead, labelled>>

\* Step 2f.
Schedule ==
  /\ pc = "schedule" \/ (pc = "reply" /\ \A t \in Threads : shown[t] = 0)
  /\ Save([state EXCEPT !.status = "waiting"])
  /\ next' = IF setup.headless THEN NoState ELSE Cron
  /\ pc' = "stopped"
  /\ UNCHANGED <<setup, env, sessions, pull, shown, gathered, ahead, labelled>>

\* Mutant: an interactive loop goes on after a failure.
FailGoesOn ==
  /\ pc \in {"gather", "act", "failed"}
  /\ Save([state EXCEPT !.status = "complete"])
  /\ next' = IF setup.headless THEN next ELSE Cron
  /\ pc' = "stopped"
  /\ UNCHANGED <<setup, env, sessions, pull, shown, gathered, ahead, labelled>>

\* A script or an API call failed: complete, saved, stop.
Fail ==
  /\ pc \in {"gather", "act", "failed"}
  /\ Save([state EXCEPT !.status = "complete"])
  /\ pc' = "stopped"
  /\ UNCHANGED <<setup, env, next, sessions, pull, shown, gathered, ahead, labelled>>

\* The session stops without having finished its cycle.
EndEarly ==
  /\ pc \notin {"off", "stopped"}
  /\ pc' = "stopped"
  /\ UNCHANGED <<setup, env, state, file, next, sessions, pull, shown, gathered, ahead, labelled>>

(***************************************************************************)
(* pr-stop-check.sh                                                        *)
(***************************************************************************)
\* Mutant: the iteration is not counted.
NotCounted(s) == [s EXCEPT !.status = "running"]

\* The count stands still where no limit reads it, to keep the states finite.
Counted(s) == [s EXCEPT !.iteration = IF setup.max = 0 THEN @ ELSE @ + 1, !.status = "running"]

\* Mutant: one session more.
AtLimitOff == setup.max > 0 /\ env.iteration + 1 > setup.max

AtLimit == setup.max > 0 /\ env.iteration + 1 >= setup.max

StopHook ==
  /\ pc = "stopped"
  /\ pc' = "off"
  /\ next' = IF env = NoState THEN next
             ELSE IF env.status = "complete" \/ AtLimit THEN NoState ELSE Counted(env)
  /\ env' = NoState
  /\ UNCHANGED <<setup, state, file, sessions, pull, shown, gathered, ahead, labelled>>

(***************************************************************************)
(* GitHub                                                                  *)
(***************************************************************************)
\* What happens after the loop's end is not followed.
Alive == pc # "off" \/ next # NoState

\* Somebody opens a thread, or answers in it and opens it again.
Comment(t) ==
  /\ Alive /\ Len(thread[t].comments) < MaxMessages
  /\ thread' = [thread EXCEPT ![t] = [comments |-> Append(thread[t].comments, "other"), resolved |-> FALSE]]
  /\ UNCHANGED <<setup, session, checks, shown, gathered, ahead, labelled>>

\* A reviewer resolves a thread.
Resolve(t) ==
  /\ Alive /\ Unresolved(t)
  /\ thread' = [thread EXCEPT ![t].resolved = TRUE]
  /\ UNCHANGED <<setup, session, checks, shown, gathered, ahead, labelled>>

Ci ==
  /\ checks' \in {{"pass"}, {"fail", "pass"}, {"closed"}} \ {checks}
  /\ Alive /\ "closed" \notin checks
  /\ UNCHANGED <<setup, session, thread, shown, gathered, ahead, labelled>>

Cycle ==
  \/ StartSession \/ Gather \/ Complete \/ Push \/ NothingToPush \/ Schedule \/ Fail \/ EndEarly \/ StopHook
  \/ \E t \in Threads : Reply(t) \/ ReplyFails(t)

YoloStep == Cycle \/ Ci \/ \E t \in Threads : Comment(t) \/ Resolve(t)

YoloSpec == InitYolo /\ [][YoloStep]_yoloVars

\* The session works, the hook runs and the restart wakes up.
FairYoloSpec == YoloSpec /\ WF_yoloVars(Cycle)

(***************************************************************************)
(* Properties                                                              *)
(***************************************************************************)
\* The variables have their types, and a state that is loaded is a whole one.
YoloTypeOK ==
  /\ pc \in {"off", "gather", "act", "reply", "schedule", "ready", "closed", "failed", "stopped"}
  /\ state \in States /\ env \in States \union {NoState} /\ file \in States \union {NoState}
  /\ next \in States \union {NoState, Cron}
  /\ \A t \in Threads : shown[t] <= Len(thread[t].comments)

Answered ==
  \A t \in Visible : LET c == thread[t].comments IN
    gathered[t] <= PageSize =>
      \A i \in 1..gathered[t] : c[i] = "other" => \E j \in (i + 1)..Len(c) : c[j] = "agent"

\* When the label for human review is posted, every message others had written
\* by this cycle's gather in the open threads the agent looks at stands before
\* a reply of the agent: addressed threads come back.  Nor is there, in a
\* session that was not restarted, a commit that was never pushed: a failed
\* push ends the loop, and pr-push.sh would say that there is nothing to push.
LabelIsEarned == [][labelled' # labelled => Answered /\ (env = NoState => ~ahead)]_yoloVars

\* A headless loop that has a limit comes to an end, however its sessions end
\* and whatever state the Stop hook restarts them with.
LoopEnds == (setup.headless /\ setup.max > 0) => <>[](pc = "off" /\ next = NoState)
=============================================================================
