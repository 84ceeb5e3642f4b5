------------------------------ MODULE PrNotifier ------------------------------
(***************************************************************************)
(* gh-notifier.py: one run of the daily job.  It reads the open pull       *)
(* requests page by page, most recently updated first, while people update *)
(* and close them, keeps those of the roster that need attention, adds the *)
(* pending decisions on Fridays, writes the dashboard and posts to Slack.  *)
(***************************************************************************)
EXTENDS Lists, FiniteSetsExt, SequencesExt

CONSTANTS
  Pulls,      \* pull request -> [author, draft, labels, age, idle]
  Orders,     \* how the repository may list them at the start
  PerPage,    \* 100 in the code
  Owners, Aliases,                \* entries of OWNERS; alias -> logins
  Exclude, Required, Forbidden,   \* label sets of the environment
  StaleDays, Cap,                 \* STALE_DAYS, MAX_PRS_IN_MESSAGE
  Decisions   \* <<where, number>> -> is its status "proposed"?

NotifierAssumption ==
  /\ PerPage \in Nat \ {0} /\ Cap \in Nat \ {0}
  /\ \A p \in DOMAIN Pulls : p \in Nat /\ Pulls[p].age \in Nat /\ Pulls[p].idle \in Nat
  /\ Orders \subseteq Seq(DOMAIN Pulls) /\ \A order \in Orders : IsInjective(order)
  /\ IsFiniteSet(DOMAIN Decisions) /\ \A d \in DOMAIN Decisions : d[1] \in {"main", "pull request"}

VARIABLES
  server,     \* the listing GitHub would answer with now
  touched,    \* updated since the run began
  shut,     \* closed since the run began
  doing, page,
  kept,       \* pull requests that passed the filters, as read
  unread,     \* decision files still to be read
  pending,    \* number -> where the decision was found
  friday,
  dashboard,  \* what the file shows, << >> before it is written
  slack       \* what the channel was told, << >> before

notifierVars == <<server, touched, shut, doing, page, kept, unread, pending, friday, dashboard, slack>>

\* Entries are aliases or, when no alias has the name, logins.
Roster == UNION {IF o \in DOMAIN Aliases THEN Aliases[o] ELSE {o} : o \in Owners}

Matches(p) ==
  ~Pulls[p].draft /\ Pulls[p].author \in Roster /\ Pulls[p].labels \cap Exclude = {}

\* Idle time is read with the page: an update made before starts it anew.
Idle(p) == IF p \in touched THEN 0 ELSE Pulls[p].idle

NeedsAttention(p, idle) ==
  \/ ~(Required \subseteq Pulls[p].labels)
  \/ Pulls[p].labels \cap Forbidden # {}
  \/ idle >= StaleDays \/ Pulls[p].age >= StaleDays

PageOf(k) == SubSeq(server, (k - 1) * PerPage + 1, Min({k * PerPage, Len(server)}))

InitNotifier ==
  /\ server \in Orders /\ touched = {} /\ shut = {} /\ friday \in BOOLEAN
  /\ doing = "pulls" /\ page = 1 /\ kept = << >>
  /\ unread = << >> /\ pending = << >> /\ dashboard = << >> /\ slack = << >>

\* People and bots, between two requests.
Update(i) ==
  /\ touched' = touched \cup {server[i]}
  /\ server' = <<server[i]>> \o RemoveAt(server, i)
  /\ UNCHANGED <<shut, doing, page, kept, unread, pending, friday, dashboard, slack>>

Close(i) ==
  /\ shut' = shut \cup {server[i]}
  /\ server' = RemoveAt(server, i)
  /\ UNCHANGED <<touched, doing, page, kept, unread, pending, friday, dashboard, slack>>

Rows(read) ==
  LET rows == [i \in 1..Len(read) |-> [pull |-> read[i], idle |-> Idle(read[i])]]
  IN Keeping(rows, {row \in Range(rows) : Matches(row.pull)})

\* Mutant: a page is believed to be the last one unless it is more than full.
LastPageOffByOne(rows) == Len(rows) <= PerPage

\* "if len(data) < 100: return".
LastPage(rows) == Len(rows) < PerPage

\* Files are listed on main first, then in the open pull requests.
FilesOf(where) == Keeping(SetToSeq(DOMAIN Decisions), {d \in DOMAIN Decisions : d[1] = where})
DecisionFiles(mainAnswers) == (IF mainAnswers THEN FilesOf("main") ELSE << >>) \o FilesOf("pull request")

ReadPage ==
  /\ doing = "pulls"
  /\ IF Roster = {}
     THEN doing' = "failed" /\ UNCHANGED <<page, kept, unread>>
     ELSE LET rows == PageOf(page) IN
          /\ kept' = kept \o Rows(rows)
          /\ IF LastPage(rows)
             THEN /\ doing' = (IF friday THEN "decisions" ELSE "publish")
                  /\ page' = page
                  /\ \E mainAnswers \in (IF friday THEN BOOLEAN ELSE {FALSE}) :
                       unread' = (IF friday THEN DecisionFiles(mainAnswers) ELSE << >>)
             ELSE page' = page + 1 /\ UNCHANGED <<doing, unread>>
  /\ UNCHANGED <<server, touched, shut, pending, friday, dashboard, slack>>

\* GitHub refuses a request for pull requests: the exception ends the run.
PullsFail ==
  /\ doing = "pulls" /\ doing' = "failed"
  /\ UNCHANGED <<server, touched, shut, page, kept, unread, pending, friday, dashboard, slack>>

\* One decision file.  An HTTP error skips the file; an error of the network
\* ends the reading of pull requests with a warning, but nothing catches it
\* around a file of main.
ReadDecision(answer) ==
  /\ doing = "decisions" /\ unread # << >>
  /\ LET d == Head(unread) IN
     CASE d[1] = "pull request" /\ d[2] \in DOMAIN pending ->
            unread' = Tail(unread) /\ UNCHANGED <<doing, pending>>
       [] OTHER ->
            CASE answer = "read" ->
                   /\ pending' = (IF Decisions[d] /\ d[2] \notin DOMAIN pending
                                  THEN [n \in DOMAIN pending \cup {d[2]} |->
                                         IF n = d[2] THEN d[1] ELSE pending[n]]
                                  ELSE pending)
                   /\ unread' = Tail(unread) /\ UNCHANGED doing
              [] answer = "HTTP error" -> unread' = Tail(unread) /\ UNCHANGED <<doing, pending>>
              [] answer = "no network" ->
                   /\ unread' = << >> /\ UNCHANGED pending
                   /\ doing' = (IF d[1] = "main" THEN "failed" ELSE doing)
  /\ UNCHANGED <<server, touched, shut, page, kept, friday, dashboard, slack>>

\* Longest open first, then most idle, then the number.
Before(a, b) ==
  \/ Pulls[a.pull].age > Pulls[b.pull].age
  \/ Pulls[a.pull].age = Pulls[b.pull].age /\ (a.idle > b.idle \/ (a.idle = b.idle /\ a.pull < b.pull))

Attention == Arranged(Keeping(kept, {row \in Range(kept) : NeedsAttention(row.pull, row.idle)}), Before)

\* What the page lists, and what the channel is told: a link, or the first
\* rows when the message is verbose, and the decisions in both.
PageContents == [open |-> Len(kept), rows |-> Attention, pending |-> DOMAIN pending]
Message(verbose) ==
  [rows    |-> IF verbose THEN SubSeq(Attention, 1, Min({Cap, Len(Attention)})) ELSE << >>,
   pending |-> DOMAIN pending]

WriteDashboard ==
  /\ doing = "publish" \/ (doing = "decisions" /\ unread = << >>)
  /\ doing' = "post"
  /\ dashboard' = <<PageContents>>
  /\ UNCHANGED <<server, touched, shut, page, kept, unread, pending, friday, slack>>

Post(verbose, accepted) ==
  /\ doing = "post"
  /\ doing' = (IF accepted THEN "done" ELSE "failed")
  /\ slack' = (IF accepted THEN <<Message(verbose)>> ELSE << >>)
  /\ UNCHANGED <<server, touched, shut, page, kept, unread, pending, friday, dashboard>>

NotifierStep ==
  \/ ReadPage \/ PullsFail \/ WriteDashboard
  \/ (\E answer \in {"read", "HTTP error", "no network"} : ReadDecision(answer))
  \/ (\E verbose, accepted \in BOOLEAN : Post(verbose, accepted))
  \/ (\E i \in DOMAIN server : doing = "pulls" /\ (Update(i) \/ Close(i)))

NotifierSpec == InitNotifier /\ [][NotifierStep]_notifierVars

NotifierTypeOK ==
  /\ Range(server) \subseteq DOMAIN Pulls /\ IsInjective(server)
  /\ shut \cap Range(server) = {}
  /\ \A i \in DOMAIN kept : kept[i].pull \in DOMAIN Pulls
  /\ DOMAIN pending \subseteq {d[2] : d \in DOMAIN Decisions}
  /\ doing \in {"pulls", "decisions", "publish", "post", "done", "failed"}

\* "lists every attention PR": updates made between two pages shift the list
\* under the reader, and may show it a pull request twice, but they never
\* hide one that nobody touched.  Only a pull request that closes lets
\* another slip to a page that was read already.
UntouchedListed ==
  dashboard # << >> /\ shut = {} =>
    \A p \in Range(server) \ touched :
      Matches(p) /\ NeedsAttention(p, Pulls[p].idle) =>
        \E i \in DOMAIN dashboard[1].rows : dashboard[1].rows[i].pull = p
=============================================================================
