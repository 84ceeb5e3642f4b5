------------------------------ MODULE ArtRequest ------------------------------
(***************************************************************************)
(* request_release-to-art.sh for one version: under a lock of the host it  *)
(* finds or creates the ART ticket and the QE ticket, links the QE ticket  *)
(* to the ART ticket and to its template, and tells Slack of a new ticket. *)
(* Runs may overlap, on several hosts; they may die anywhere, and a        *)
(* request to Jira may be applied although its answer is never read.       *)
(***************************************************************************)
EXTENDS Integers, FiniteSets

CONSTANTS
  Runs,      \* calls of the script without --dry-run
  Hosts,     \* machines with a TMPDIR of their own
  Template,  \* the QE template ticket
  Nobody     \* no run

Projects == {"ART", "QE"}
Links    == {"Related", "Cloners"}

\* A ticket of Nobody was there before, with or without the label.
Tickets == [project : Projects, by : Runs \cup {Nobody}, label : BOOLEAN]

ASSUME ArtAssumption == Nobody \notin Runs \cup Tickets

VARIABLES
  pc,       \* control state of a run: a phase and what it is about
  host,     \* where it runs
  option,   \* its options among "force", "resend-slack", "skip-slack"
  key,      \* the tickets it found or created, Nobody for none yet
  created,  \* it created the ART ticket
  lock,     \* the lock directory of a host: the run that made it
  tickets,  \* Jira issues of this release
  links,    \* Jira links <<type, from, to>>
  wire,     \* requests on their way to Jira
  notices   \* Slack messages

vars == <<pc, host, option, key, created, lock, tickets, links, wire, notices>>
jira == <<tickets, links, wire, notices>>
args == <<host, option>>

Labelled(p) == {t \in tickets : t.project = p /\ t.label}

Phases == {"label", "similar", "create", "wait"} \X Projects
  \cup {"link", "wait", "verify"} \X Links
Held  == Phases \cup {<<"locked", "none">>, <<"slack", "none">>}
Ended == {<<"failed", "none">>, <<"killed", "none">>, <<"done", "none">>}

\* What a project holds at first; a labelled QE ticket may have its clone link
\* already, or one made the wrong way round.
Before(p) == {{}} \cup {{[project |-> p, by |-> Nobody, label |-> l]} : l \in BOOLEAN}

Init ==
  /\ pc = [r \in Runs |-> <<"new", "none">>]
  /\ host \in [Runs -> Hosts]
  /\ option = [r \in Runs |-> {}]
  /\ key = [r \in Runs |-> [p \in Projects |-> Nobody]]
  /\ created = {}
  /\ lock = [h \in Hosts |-> Nobody]
  /\ \E art \in Before("ART"), qe \in Before("QE") : tickets = art \cup qe
  /\ links \in {{}} \cup UNION {{{<<"Cloners", Template, t>>}, {<<"Cloners", t, Template>>}} : t \in Labelled("QE")}
  /\ wire = {} /\ notices = {}

Unlock(r) == lock' = [lock EXCEPT ![host[r]] = Nobody]
Goto(r, phase, on) == pc' = [pc EXCEPT ![r] = <<phase, on>>]
Fails(r) == Unlock(r) /\ Goto(r, "failed", "none")

(***************************************************************************)
(* Start and end of a run                                                  *)
(***************************************************************************)
\* "Reconcile manually before retrying": nobody starts a run while a request
\* of an ended one may still arrive.
Reconciled == \A q \in wire : pc[q.by] \notin Ended

Options == {o \in SUBSET {"force", "resend-slack", "skip-slack"} :
              ~({"skip-slack", "resend-slack"} \subseteq o)}

Start(r) == pc[r] = <<"new", "none">> /\ Reconciled /\ \E o \in Options : option' = [option EXCEPT ![r] = o]

Acquire(r) ==
  /\ Start(r) /\ lock[host[r]] = Nobody
  /\ lock' = [lock EXCEPT ![host[r]] = r]
  /\ Goto(r, "locked", "none")
  /\ UNCHANGED <<host, key, created, jira>>

\* Mutant: the trap is installed before mkdir and removes the lock of another.
LockIsTakenCleaning(r) ==
  /\ Start(r) /\ lock[host[r]] # Nobody
  /\ Fails(r)
  /\ UNCHANGED <<host, key, created, jira>>

LockIsTaken(r) ==
  /\ Start(r) /\ lock[host[r]] # Nobody
  /\ Goto(r, "failed", "none")
  /\ UNCHANGED <<host, key, created, lock, jira>>

InstallTrap(r) ==
  /\ pc[r] = <<"locked", "none">>
  /\ Goto(r, "label", "ART")
  /\ UNCHANGED <<args, key, created, lock, jira>>

\* A query that fails, an answer that does not come in time, a ticket that is
\* not as expected, a signal: the exit trap removes the lock.
Dies(r) ==
  /\ pc[r] \in Held \ {<<"locked", "none">>}
  /\ Fails(r)
  /\ UNCHANGED <<args, key, created, jira>>

\* SIGKILL, or any signal before the trap: the lock stays.
Killed(r) ==
  /\ pc[r] \in Held
  /\ Goto(r, "killed", "none")
  /\ UNCHANGED <<args, key, created, lock, jira>>

\* The operator removes the stale lock of a run that is gone.
RemoveStaleLock(h) ==
  /\ lock[h] # Nobody /\ pc[lock[h]] = <<"killed", "none">> /\ Reconciled
  /\ lock' = [lock EXCEPT ![h] = Nobody]
  /\ UNCHANGED <<pc, args, key, created, jira>>

(***************************************************************************)
(* Preflight                                                               *)
(***************************************************************************)
AfterLabel(r, p)   == IF p = "ART" THEN Goto(r, "label", "QE") ELSE Goto(r, "similar", "ART")
AfterSimilar(r, p) == IF p = "ART" THEN Goto(r, "similar", "QE") ELSE Goto(r, "create", "ART")

\* Mutant: --force looks for no ticket at all.
FindByLabelUnlessForced(r, p) ==
  /\ pc[r] = <<"label", p>>
  /\ \/ "force" \in option[r] /\ UNCHANGED key
     \/ \E t \in Labelled(p) : key' = [key EXCEPT ![r][p] = t]
     \/ Labelled(p) = {} /\ UNCHANGED key
  /\ AfterLabel(r, p)
  /\ UNCHANGED <<args, created, lock, jira>>

\* One ticket with the label is taken; several end the run.
FindByLabel(r, p) ==
  /\ pc[r] = <<"label", p>>
  /\ \/ Cardinality(Labelled(p)) > 1 /\ Fails(r) /\ UNCHANGED key
     \/ /\ Cardinality(Labelled(p)) = 1
        /\ \E t \in Labelled(p) : key' = [key EXCEPT ![r][p] = t]
        /\ AfterLabel(r, p) /\ UNCHANGED lock
     \/ Labelled(p) = {} /\ AfterLabel(r, p) /\ UNCHANGED <<key, lock>>
  /\ UNCHANGED <<args, created, jira>>

\* By now a ticket of another host may be found as well.
FindSimilar(r, p) ==
  /\ pc[r] = <<"similar", p>>
  /\ IF key[r][p] = Nobody /\ "force" \notin option[r] /\ \E t \in tickets : t.project = p
     THEN Fails(r)
     ELSE AfterSimilar(r, p) /\ UNCHANGED lock
  /\ UNCHANGED <<args, key, created, jira>>

(***************************************************************************)
(* Writes                                                                  *)
(***************************************************************************)
AfterTicket(r, p) == IF p = "ART" THEN Goto(r, "create", "QE") ELSE Goto(r, "link", "Related")
AfterLink(r, l)   == IF l = "Related" THEN Goto(r, "link", "Cloners") ELSE Goto(r, "slack", "none")

Reuse(r, p) ==
  /\ pc[r] = <<"create", p>> /\ key[r][p] # Nobody
  /\ AfterTicket(r, p)
  /\ UNCHANGED <<args, key, created, lock, jira>>

Post(r, what) ==
  /\ wire' = wire \cup {[by |-> r, what |-> what]}
  /\ Goto(r, "wait", what)
  /\ UNCHANGED <<args, key, created, lock, tickets, links, notices>>

Create(r, p) == pc[r] = <<"create", p>> /\ key[r][p] = Nobody /\ Post(r, p)

Other(r, l) == IF l = "Related" THEN key[r]["ART"] ELSE Template

\* Mutant: the direction of a link does not matter.
LinkedEitherWay(r, l) ==
  <<l, key[r]["QE"], Other(r, l)>> \in links \/ <<l, Other(r, l), key[r]["QE"]>> \in links

\* links_to_other: "Related" has no direction.
LinksToOther(r, l) ==
  \/ <<l, key[r]["QE"], Other(r, l)>> \in links
  \/ l = "Related" /\ <<l, Other(r, l), key[r]["QE"]>> \in links

AlreadyLinked(r, l) ==
  /\ pc[r] = <<"link", l>> /\ LinksToOther(r, l)
  /\ AfterLink(r, l)
  /\ UNCHANGED <<args, key, created, lock, jira>>

Link(r, l) == pc[r] = <<"link", l>> /\ ~LinksToOther(r, l) /\ Post(r, l)

Verify(r, l) ==
  /\ pc[r] = <<"verify", l>>
  /\ IF LinksToOther(r, l) THEN AfterLink(r, l) /\ UNCHANGED lock ELSE Fails(r)
  /\ UNCHANGED <<args, key, created, jira>>

Notify(r) == "skip-slack" \notin option[r] /\ (r \in created \/ "resend-slack" \in option[r])

\* The message may be delivered although curl fails.
Slack(r, delivered, ok) ==
  /\ pc[r] = <<"slack", "none">> /\ Notify(r)
  /\ ok => delivered
  /\ notices' = IF delivered THEN notices \cup {[by |-> r, art |-> key[r]["ART"]]} ELSE notices
  /\ Unlock(r) /\ Goto(r, IF ok THEN "done" ELSE "failed", "none")
  /\ UNCHANGED <<args, key, created, tickets, links, wire>>

NoSlack(r) ==
  /\ pc[r] = <<"slack", "none">> /\ ~Notify(r)
  /\ Unlock(r) /\ Goto(r, "done", "none")
  /\ UNCHANGED <<args, key, created, jira>>

(***************************************************************************)
(* Jira                                                                    *)
(***************************************************************************)
NewTicket(q) == [project |-> q.what, by |-> q.by, label |-> TRUE]

\* The ticket is made; its key reaches the run if that still waits for it.
ServeCreate(q, answered) ==
  /\ q.what \in Projects
  /\ wire' = wire \ {q}
  /\ tickets' = tickets \cup {NewTicket(q)}
  /\ IF answered
     THEN /\ pc[q.by] = <<"wait", q.what>>
          /\ key' = [key EXCEPT ![q.by][q.what] = NewTicket(q)]
          /\ created' = IF q.what = "ART" THEN created \cup {q.by} ELSE created
          /\ AfterTicket(q.by, q.what)
     ELSE UNCHANGED <<pc, key, created>>
  /\ UNCHANGED <<args, lock, links, notices>>

\* A 2xx without a body does not show that the link is there.
ServeLink(q, stored, answered) ==
  /\ q.what \in Links
  /\ wire' = wire \ {q}
  /\ links' = IF stored THEN links \cup {<<q.what, key[q.by]["QE"], Other(q.by, q.what)>>} ELSE links
  /\ IF answered THEN pc[q.by] = <<"wait", q.what>> /\ Goto(q.by, "verify", q.what) ELSE UNCHANGED pc
  /\ UNCHANGED <<args, key, created, lock, tickets, notices>>

\* Lost, or refused: no effect, and no answer the run could go on with.
Lose(q) ==
  /\ wire' = wire \ {q}
  /\ UNCHANGED <<pc, args, key, created, lock, tickets, links, notices>>

RunStep(r) ==
  \/ Acquire(r) \/ LockIsTaken(r) \/ InstallTrap(r) \/ Dies(r) \/ Killed(r)
  \/ \E p \in Projects : FindByLabel(r, p) \/ FindSimilar(r, p) \/ Reuse(r, p) \/ Create(r, p)
  \/ \E l \in Links : AlreadyLinked(r, l) \/ Link(r, l) \/ Verify(r, l)
  \/ \E delivered, ok \in BOOLEAN : Slack(r, delivered, ok)
  \/ NoSlack(r)

JiraStep(q) ==
  \/ Lose(q)
  \/ \E stored, answered \in BOOLEAN : ServeCreate(q, answered) \/ ServeLink(q, stored, answered)

Next ==
  \/ \E r \in Runs : RunStep(r)
  \/ \E h \in Hosts : RemoveStaleLock(h)
  \/ \E q \in wire : JiraStep(q)

Spec == Init /\ [][Next]_vars

(***************************************************************************)
(* Properties                                                              *)
(***************************************************************************)
\* The types, and: whoever is past mkdir holds the lock of its host.
TypeOK ==
  /\ pc \in [Runs -> Held \cup Ended \cup {<<"new", "none">>}]
  /\ host \in [Runs -> Hosts] /\ option \in [Runs -> Options]
  /\ tickets \subseteq Tickets
  /\ key \in [Runs -> [Projects -> tickets \cup {Nobody}]]
  /\ created \subseteq Runs
  /\ lock \in [Hosts -> Runs \cup {Nobody}]
  /\ wire \subseteq [by : Runs, what : Projects \cup Links]
  /\ notices \subseteq [by : Runs, art : tickets]
  /\ \A r \in Runs : pc[r] \in Held => lock[host[r]] = r

\* Runs of one host never make two tickets with the release label in one
\* project, nor one beside a labelled ticket that was there before, through
\* kills, lost answers, late requests and --force.
OneTicketPerHost ==
  \A t, u \in tickets : t # u /\ t.project = u.project /\ t.label /\ u.label =>
    t.by # Nobody /\ u.by # Nobody /\ host[t.by] # host[u.by]

\* A run that tells Slack or ends well has its QE ticket linked to its ART
\* ticket and cloning the template, in the right direction.
LinkedBeforeTold ==
  \A r \in Runs : pc[r] \in {<<"slack", "none">>, <<"done", "none">>} =>
    /\ <<"Related", key[r]["QE"], key[r]["ART"]>> \in links \/ <<"Related", key[r]["ART"], key[r]["QE"]>> \in links
    /\ <<"Cloners", key[r]["QE"], Template>> \in links
=============================================================================
